# Finaly in TLA+

A verification development of the Monero miner in this repository: TLA+ models
of its C++ core, its helpers, its Android service and its two user interfaces, TLC runs on
small instances, and proofs checked by TLAPS. Every definition is translated
from the source; `PROJECT.json` (`map`) names the lines each stands for.

Paths below are relative to the repository. `*.kt` and `android_*.cpp` are
under `android/app/src/main/`.

## 1. The system

Three programs share one core.

| program | entry point | process | owner of the miner |
|---|---|---|---|
| desktop | `src/main.cpp` | its own | `main()` |
| Android service | `MinerService.kt`, JNI in `cpp/android_main.cpp` | `:miner` | native globals of that process |
| Android web page | `MainActivity.kt`, `assets/miner.js`, JNI in `cpp/miner_bridge.cpp` | the main process | native globals of that process |

The two Android owners live in different processes (`AndroidManifest.xml`), so
their native globals are different variables although they have one library.

### Components

**Mining engine** (`src/randomx_miner.cpp`). *State*: `m_running`, the job
(`m_current_job` under `m_job_mutex`, the flag `m_new_job`), the RandomX objects
(`m_rx_cache`, `m_rx_dataset`, `m_rx_vms`, `m_current_seed_hash` under
`m_rx_mutex`), and per thread its job, VM pointer, last seed and batch counter.
*Operations*: `start_mining`, `mining_thread`, `initialize_randomx`,
`on_new_job`, `stop_mining`, the destructor. *Interactions*: called by the
receive thread (a new job), calls `submit_share`. *Hard*: every thread may
rebuild the objects all threads use; hashing takes no lock; one flag announces a
job to all threads and any of them clears it; a rebuild may fail at four places.
*Correct when*: one thread rebuilds at a time, no member dangles and nothing leaks,
nothing but a rebuild comes between a thread and its VM, a stop ends, no thread
stays on a replaced job.

**Pool session** (`src/stratum_client.cpp`, receiving side, and the callbacks in
`src/randomx_miner.cpp`). *State*: socket, `m_connected`, `m_running`,
`m_buffer`, `m_current_job`, the receive thread, the callbacks, the counters.
*Operations*: `connect`, `login`, the receive loop, `handle_message`, `stop`,
`on_new_job`, `on_share_result`, destruction of both objects. *Hard*: `recv`
cuts lines anywhere; `errno` is read after a `recv` that did not set it; the
mining threads take down the flag the callback raises; a callback may outlive the
members it writes; the other end may close at any time.
*Correct when*: lines are handled whole, once and in order, no job is lost, the
counters add up, and the destructor ends.

**Share submission** (`login`, `submit_share`, `send_message`). *State*:
`m_message_id` (written without a lock), `m_send_mutex`, the socket's buffer.
*Hard*: several mining threads at once; partial sends; a 30 second timeout.
*Correct when*: the bytes of a message stay together, a message is sent whole or
reported as failed, ids differ, every call returns.

**Foreground service** (`MinerService.kt`, `cpp/android_main.cpp`). *State*: the
instance (`isMining`, coroutine scope, wake lock) and the process's globals
(`g_mutex`, `g_mining`, `g_miner`, the callback reference). *Operations*:
START, STOP, PAUSE, `onDestroy`, the coroutine of a START. *Hard*: a START is
asynchronous and blocks in the connection, `stopSelf` destroys the instance
later, globals outlive instances, the statistics are read without the mutex.
*Correct when*: the globals agree, `isMining` tells the truth, a stop leaves
nothing running, a failed start ends the service.

**Web interface** (`miner.js`, `MinerBridge` in `MainActivity.kt`,
`cpp/miner_bridge.cpp`). *State*: the script's `mining`, timer, status and share
count; the process's globals. *Hard*: script calls block the page, a new activity
runs the script anew while calls of the old one go on. *Correct when*: what the
page shows is what the process does, and a press is answered.

**Settings and rigs** (`MinerViewModel.kt`, `ConfigManager.kt`). *State*: the
stored config, the shown copy, the list of rigs, the selection, the status, the
monitors. *Hard*: two copies updated side by side by a dozen operations; the
process may die between a change and the write of the file; a loop that outlives
what it watches. *Correct when*: the copies agree, the selection exists, the
address that is paid has been checked and is the one the texts promise.

**Desktop program** (`src/main.cpp`). *State*: the flag `keep_running`, the
configuration, the miner. *Operations*: the signal handler, `load_config`,
`initialize`, `start_mining`, the loop that polls the flag, `stop_mining`. *Hard*:
a signal may come at any of these points, and the pool may send or close
meanwhile. *Correct when*: a signal ends the program from everywhere.

**Share search** (`construct_mining_blob`, `target_to_uint64`,
`hash_meets_target` and the walk through the nonces in
`src/randomx_miner.cpp`; `TargetHelper` and `BlobHelper` of
`src/job_handler.cpp`). *State*: a thread's nonce and target. *Hard*: byte
orders, two forms of a target, a counter that wraps. *Correct when*: a blob keeps
what is written into it, under a long target a comparison of eight bytes decides
as one of the whole hash, no nonce is hashed twice in vain.

**RandomX wrapper** (`libs/randomx_wrapper.cpp`). *State*: cache, dataset and VMs
of each wrapper. *Operations*: construction, destruction, moves, `initialize`,
`initialize_android`, `hash`, `hash_first`. *Hard*: an exception after each step
of `initialize`; moves onto wrappers that own something; a fallback in the
middle of a loop; a start refused before anything is released. *Correct when*:
what is allocated has one owner, and a VM works for the seed last asked for.

**Battery and thermal policy** (`cpp/android_bridge.cpp`,
`android_thermal.cpp`, `android_battery.cpp`). *State*: two copies of the
temperature, charge, charger, low power mode, two throttling flags, a limit.
*Operations*: one JNI function per report, and the functions that derive thread
counts. *Hard*: hysteresis, thresholds of four authors, integers whose width
depends on the platform. *Correct when*: flags fit the last reports, hotter or
emptier is never more, counts keep within cores and memory.

**Not modelled**: see section 7.

### How they meet

```
 MinerViewModel --START(config)--> MinerService --JNI--> RandomXMiner --owns--> StratumClient
 miner.js --MinerBridge--JNI-----------------------------^   |  ^                 |   ^
 main() -----------------------------------------------------+  +--on_new_job-----+   |
                                              mining threads --------submit_share-----+
```

Each module treats its neighbours by what they promise; each promise is a
property of the neighbour's module:

| assumed in | what | justified by |
|---|---|---|
| `MiningEngine` | a job may arrive at any time, one at a time, in order | `PoolSession`: `InOrder`, `NoJobMissed`; one receive thread |
| `MiningEngine` | submitting a share is one step | `ShareChannel`: `SubmitReturns`; it touches no variable of the engine |
| `PoolSession` | a mining thread ends its batch, and then sees that it has been stopped | `MiningEngine`: `StopCompletes`, `JobUptake` |
| `MinerService`, `WebPage` | `stop_mining` and the destructor end | `MiningEngine`: `StopCompletes`, `PoolSession`: `SignalEnds` |
| `ShareSearch` | a thread may look for a new job before any hash | `MiningEngine`: the batch loop, `JobUptake` |
| `MinerService`, `WebPage` | `initialize` and `start_mining` end, with or without success | a blocking `connect` with the system's timeout; not checked |

## 2. The modules

| module | models | composes / implements |
|---|---|---|
| `MiningEngine` | mining threads, RandomX objects, job hand-over, stop, destructor | |
| `MiningEngineProofs` | theorems about `MiningEngine` | extends it |
| `LineChannel` | what a line-based session promises | abstract |
| `PoolSession` | receive loop, dispatch, callbacks, lives of client and miner, and `main()` | composes session, miner and desktop program; implements `LineChannel` (`Channel == INSTANCE LineChannel WITH ...`) |
| `PoolSessionProofs` | theorems about `PoolSession`, among them that it implements `LineChannel` | extends it |
| `ShareChannel` | `login`, `submit_share`, `send_message` of all threads | |
| `ShareChannelProofs` | theorems about `ShareChannel` | extends it |
| `NativeMiner` | what the native library promises the process it is loaded into | abstract |
| `MinerService` | service, coroutines and JNI functions | implements `NativeMiner` (`Native == INSTANCE NativeMiner WITH ...`) |
| `WebPage` | script, bridge and JNI functions | implements `NativeMiner` |
| `WebPageProofs` | theorems about `WebPage`, among them that it implements `NativeMiner` | extends it |
| `RigConfig` | view model and config store | |
| `RigConfigMC` | the configs imported when `RigConfig` is checked | extends it |
| `RigConfigProofs` | theorems about `RigConfig` | extends it |
| `ShareSearch` | targets, blobs, hash comparison, nonces | |
| `ShareSearchProofs` | theorems about `ShareSearch` | extends it |
| `PowerLimits` | thread counts and intensity as functions | |
| `PowerPolicy` | the globals of battery and thermal code | extends `PowerLimits` |
| `AndroidProofs` | theorems about `MinerService` and `PowerPolicy`, among them that the service implements `NativeMiner` | extends both |
| `RandomXWrapper` | wrappers and what the library allocated | extends `PowerLimits` (`initialize_android`) |
| `RandomXWrapperProofs` | theorems about `RandomXWrapper` | extends it |

### MiningEngine

The state starts where `start_mining` returns. `pc[t]` is the place of a thread:

| `pc` | code |
|---|---|
| `wait` | the wait for a VM, `randomx_miner.cpp:190-201` |
| `take` | the fetch of its VM under `m_rx_mutex`, `:202-207` |
| `loop`, `reseed`, `retake` | read of the job, call of `initialize_randomx`, fetch of the VM, `:213-246` |
| `cache`, `dataset`, `vms` | inside `initialize_randomx`, which holds `m_rx_mutex`, `:60-127` |
| `batch`, `ack` | the batch loop's test of the flag, and its reset, `:249-256` |
| `hash`, `submit`, `flush` | a hash under way, a share found, the end of the batch, `:258-296` |

A critical section that makes one access is one step; `initialize_randomx`,
which destroys and allocates, is one step per object, each of which may fail.
`vmHeap`, `cacheHeap` and `datasetHeap` are what the RandomX library has
allocated; the members are what the miner points to. VMs are known by their
addresses, and an address that was released may be handed out again: what a
thread keeps over a rebuild may name nothing, its own new VM or that of another
thread. A hash is two steps, so a rebuild can fall between them. Hashing on a VM
that is gone, or together with another thread on one VM, is undefined behaviour:
the process dies or goes on. The history `checked` holds the threads since whose
last look at `m_rx_vms` no rebuild has begun, `steady` is whether every job so far
was for `warmSeed`.

**`WarmSeeds`, and why there are two starts.** In the shipped program a mining
thread waits until its VM exists, and only the main loop behind that wait calls
`initialize_randomx`, which creates the VMs. With `warmSeed = NoSeed`, the state
`start_mining` leaves, no thread ever leaves the wait. This is checked
(`ColdStartIdle` in `Engine`, and `EngineJobNoInit`) and proved for every number
of threads (`ColdStartNeverMines`). The rest of the mining thread is therefore
dead code as shipped, but it is the heart of the program and what everyone who
repairs the wait will run. With a seed of `WarmSeeds` the model starts where the
wait is documented to end ("Wait until RandomX is initialised", `:189`): after
one successful `initialize_randomx`, in exactly the state that function
produces. The other results of `Engine` are about the loop *under that
assumption*.

### PoolSession

`rx` is the place of the receive thread (`idle`, `top`, `recv`, `lines`, `store`,
`flag`, `ended`), `owner` the place of `main()`, from `starting` over the
configuration, the connection, the polling loop and the join of the mining
threads (`stopping`) to the destruction of the miner's members in reverse order of
declaration (`members`, then the client's destructor, which is `joining` the
receive thread). `keepRunning` is cleared by a signal at any time; `main()` reads
it once per turn of its loop. A message is two pieces on the wire, of which the second holds the newline; `recv`
takes any number of the pieces there are, so it cuts and merges lines in every
way. `errno` is a variable since the loop reads it after `recv` returns 0
without setting it. Of each mining thread the module has the job it works on
(`batch`): `TakeJob` copies the miner's job, `EndBatch` takes the flag `m_new_job`
down, as both ends of a batch do. What else a thread does is `MiningEngine`.

### ShareChannel

`pc[s]` follows a sender from the load of `m_message_id` (`loaded`) over its
store (`ready`) to the send loop under the mutex (`sending`). The data race on
`m_message_id` is modelled by the two steps. `wire` is the history of the
pieces that reached the peer's side, `unread` how many of them still fill the
buffer.

### MinerService, WebPage

The main thread (respectively the page's script) and each coroutine
(respectively each page's bridge call) have a place of their own; a native
start is split into taking the mutex, building the miner, and the end, because
it can take as long as a TCP connection. Both modules keep the native globals
across instances, and `WebPage` also lets the process die at any time. Both
`nativeGetStats` test `g_miner` and use it later without the mutex: in the
service a stop may come between and the process may crash (`StatsCrash`), though
only once a stop has been asked for (`StatsGuarded`, a part of `SettledTruth`);
in the web page nothing can (`StatsSafe`). The web page's stop is three steps:
`stop_mining()`, then the reset of `g_miner`, then `g_mining`; statistics may be
read between any two.

`NativeMiner` is the promise of the two files of JNI functions, without threads,
pages or a mutex: a miner that is idle, starting or stopping, mines or not, and
is reported or not. A start is granted only over a miner that is not reported,
and the report appears in the step in which mining begins; a stop ends the mining
first and takes the report back before anything else may begin. The refinement
maps the holder of `g_mutex` to the stage, `g_miner` to "mines" and `g_mining` to
the report. In the web page's process the library may also be unloaded by the
death of the process (`Killable`).

### RigConfig

One action per operation of the view model. The shown copy (`uiConfig`) and the
stored one (`prefs`) have the same fields; `validateConfig` looks at the stored
address and the shown pool, `startMining` sends what is stored. `prefs` is what the shared
preferences hold in memory, `disk` what has been written; `Reopen` goes
back to `disk`. A rig may be called "default" as well (`Names`), and an address
may be empty (`Entered`); neither is refused by the code. Three history variables
say how the state came about: `mainWallet` is the wallet last imported, `doubled`
the names added while they were listed, `dropped` whether "default" has been
removed from the list.

### ShareSearch

Bytes, 32-bit and 64-bit numbers keep their proportions at a smaller width
(`Byte`, `Half`, `HashLen`), so that TLC can enumerate all of them; every
conversion is done byte by byte as in the code, with its byte order. The
reference for a target is the number the whole hash spells. A step of the search
is one hash that misses, or one that is a share, after which the next nonce is
random. The theorems hold for every width, so also for the real one: `Byte` 256,
`Half` 4, `NonceAt` 39, `MinBlob` 76, `HashLen` 32.

Short targets are converted as the code does it, and the search goes by the
result; no property is stated of them, since the comment above
`target_to_uint64` and the function do not agree (section 4).

### PowerLimits, PowerPolicy

`PowerLimits` holds the pure functions; the 32-bit variant of
`nativeGetOptimalThreadCount` (`long` of 32 bits: `armeabi-v7a`) is one of its
cases. `PowerPolicy` has a variable per global and an action per function that
writes one. Where the code only logs ("Stopping mining!" from 65 degrees on,
`android_bridge.cpp:71`) the flag stays as it is.

### RandomXWrapper

`heap` is what the library has allocated, by address; an address that was
released is handed out again, so a pointer that dangles would name a new
object. `call` is the progress of an `initialize`, which is one step per object;
each may end in an exception (`Throw`), and then leaves what the code leaves.
`asked` is a history variable: the seed the wrapper was last initialized for.

## 3. Runs

Passing runs:

| run | states | what it asks | bounds |
|---|---|---|---|
| `Engine` | 451 thousand | the shipped start never mines; in the loop: rebuilds, ownership, nothing but a rebuild between a thread and its VM, steady seed; a stop ends, no thread stays on a replaced job | 2 threads, 2 seeds and the empty one, blobs long enough or not, 2 jobs, 1 hash per batch, 2 addresses for VMs, 2 builds, both starts |
| `Session` | 410 thousand | framing (the refinement of `LineChannel`), jobs and their flag, counters; a signal ends the program, a close is noticed | 3 messages, 5 kinds, 2 mining threads |
| `Shares` | 16 thousand | what reaches the wire, ids; every submission returns | 2 threads, 3 shares, 2 pieces, room for 3 |
| `Search` | 69 thousand | long targets and blobs against reference definitions; nonces are fresh | bytes of 2 values, 32-bit numbers of 3 bytes, hashes of 7, all short targets, long ones at both ends of the range, 2 jobs |
| `Service` | 43 thousand | globals and `isMining`, statistics, wake locks, the refinement of `NativeMiner`; stop returns, a refused start ends the service | 2 starts, 2 instances, 1 pause |
| `Web` | 3 thousand | truth of the page, shares, safe statistics, the refinement of `NativeMiner`; a press is answered | 3 pages, 2 shares |
| `Rigs` | 821 thousand | shown and stored copies, list and selection; checked address and pool; monitors end | 1 rig besides "default", 1 valid address and the empty one, 3 edits, 2 starts |
| `Wrapper` | 56 thousand | one owner for everything allocated; the seed that is served | 2 wrappers, 2 seeds, 2 VMs, 7 addresses |
| `Power` | 11 thousand | flags between reports, limits against each other | 12 temperatures, 10 charges, 9 numbers of cores, 9 amounts of memory |

The type invariants of `WebPage` and `PowerPolicy` are not among them: both are
proved, and what a run could add is in the other properties of the module.

Why the bounds are enough to meet the hard cases:

* Engine: two threads give every conflict of a rebuild with a hash, and of two
  rebuilds; two jobs with two seeds, after the warm one, allow a seed change and
  a change back, or a seed change that fails and one that is retried. All VMs are
  released together, so with two addresses each new VM is at one of the two that
  some thread may still hold, its own or the other's: reuse, which the properties
  have to survive, is the rule; a pointer whose address is not reused occurs while
  a rebuild has not come to it. Builds are names, of which at most two exist at
  a time. With one
  hash per batch the flag can still rise between the read of the job and the
  batch, inside it, and at its end. Safety is proved for every number of threads,
  jobs and hashes, which removes the doubt about the bound.
* Session: three messages allow a job, an answer and another job in one `recv`,
  cut in any of five places, with a close, a reset or a signal anywhere; and two
  jobs, of which the second comes while one mining thread is in a batch on the
  first and the other between two.
* Shares: three shares on two threads give an id race in which a thread goes
  twice while the other holds a stale value; a buffer of three pieces fills in
  the middle of a message.
* Search: three bytes tell the two byte orders and the first from the last
  bytes apart; eight nonces wrap within a run; a hash is checked at, just below
  and far from its target, all 128 hashes against each long target.
* Service: two starts and two instances give a start that waits behind, and is
  refused by, another one, of the same instance or of one that is gone.
* Web: three pages, hence two re-creations, of which the last meets a call of
  each of the others.
* Rigs: three edits allow import (rigs included), add, and edit or remove, with
  two starts that compound what they store; the listed names are at most three,
  so that a name can be doubled. The configs imported are an empty one and a full
  one, each also with one of its fields changed (`RigConfigMC`): no wallet, no
  subaddress, an unusable pool, a rig named "default", rigs without an address.
* Wrapper: two full wrappers need eight addresses, so seven make the second
  `initialize` run out at its last step; fewer are met by the failures.
* Power: each threshold of the four files with its neighbours on both sides.

Fairness, and why the code justifies it:

* A thread that can go on does (weak fairness per thread): the operating system
  schedules runnable threads. No thread is assumed to *find* a share, and no
  job, message, intent or press is assumed to come.
* A thread that waits for a mutex gets it if it is free again and again (strong
  fairness of `LockSend`, `NativeStop`, `BridgeCall`, and of `OnDestroy`, which
  the system delivers though other callbacks keep coming): neither
  `std::mutex` nor the main looper starves a waiter for ever in practice; each
  such action competes with finitely many or short critical sections.
* The timeout of `send` and of `recv` fires: these are part of the weakly fair
  steps of the sender and the receive thread.
* A batch ends (`BatchesEnd` of `PoolSession`): it is 5000 hashes, or less.
* `main()` takes its next step: it returns from `sleep`, reads its flag, and a
  blocking `connect` ends with or without success. No signal is assumed to come.
* The timer of the page fires (`setInterval`), a `delay` ends (`MonitorWakes`).

## 4. What the code does not do

Runs that end in a counterexample. Each states one sentence of the repository.

| run | the repository says | the run shows |
|---|---|---|
| `EngineJobNoInit` | a job "triggers init" (`randomx_miner.cpp:189`) | a job arrives, and all threads wait for ever |
| `ServiceStillMining` | "Stop mining gracefully" (`MINING_IMPLEMENTATION.md:73`) | a STOP handled before the coroutine of the START has run stops nothing; the miner then starts and outlives the service |
| `RigsMainWallet` | "disabled, using main wallet" (`MinerViewModel.kt:129`) | a start overwrites the stored wallet with the subaddress |

Other places where text and code part, found while modelling; the model does what
the code does:

* The receive thread is joined only after `m_job_mutex` and `m_current_job` are
  destroyed, and may run `on_new_job` meanwhile (`randomx_miner.cpp:22`; in
  `PoolSession` the step `StoreCrash`), against "Stop mining gracefully"
  (`MINING_IMPLEMENTATION.md:73`).
* Nobody reads `m_connected` (`stratum_client.cpp:122`): mining goes on with the
  last job, against "Mining stops if connection lost"
  (`MINING_IMPLEMENTATION.md:216`).
* After a rebuild that failed at a VM, `m_current_seed_hash` is still the seed
  before it, and "already up to date" (`randomx_miner.cpp:63`) then also covers the
  VMs made for the new seed: a thread whose job has the former one hashes it on a
  VM of another. The action `ReseedUpToDate` does this; `FullVectorCurrent` speaks
  of full vectors only, and `AssuredVm` not of a look that found VMs missing.
* A short target divides `UINT64_MAX` where the comment has
  `0xFFFFFFFF00000000` (`randomx_miner.cpp:152-167`), and of two the greater yields
  the smaller 64-bit one. No property says that either is right.
* The nonce in a share's text spells the bytes of the blob in the other order
  (`randomx_miner.cpp:271`); which of them the pool expects nothing in the
  repository says, and no property does.
* Removing "default", which the code does not refuse, leaves it selected and not
  listed; a name that was added twice stays listed after one removal and can be
  selected, and the main wallet is then mined for in its stead
  (`MinerViewModel.kt:149-179`; `dropped` and `doubled` in `RigsConsistent`).
* Nonces are drawn at random, so two threads may search the same ones, against
  the comment of `randomx_miner.cpp:209`; `NoncesFresh` holds for one thread.
* A device that jumps past 65 degrees is not throttled by the bridge, which logs
  that mining is stopped (`android_bridge.cpp:71`; the exception in
  `ThermalAgree`). The intensity is always 100, as nothing writes the globals it
  reads in `android_battery.cpp`; with a `long` of 32 bits the optimal thread
  count is 1 whatever the memory (`android_bridge.cpp:115`; `CountSound`).
* `is_initialized` is true after an `initialize` that threw with some VMs made
  (`randomx_wrapper.cpp:122`, `:162`).
* The pool that is checked is the one shown, the pool that is sent the one
  stored (`MinerViewModel.kt:233`, `:253`).

Several passing properties are the true remainder of a promise that does not
hold in full; the condition names the known hole.

| property | holds unless | what happens then |
|---|---|---|
| `SteadySeedSafe` | the seed changes | a rebuild destroys VMs that other threads hash on: hashing takes no lock (latent, as it needs VMs in the first place) |
| `AssuredVm` | a rebuild has begun since the thread looked, or the look found VMs missing (`checked`) | the thread hashes on a VM of another seed, of another thread, or on none |
| `NoJobMissed`, `JobUptake` | | one thread takes the flag down for all; the others find the new job at the end of their batch only |
| `WireSound` | a `send` times out half way | the rest of the message is never sent, and the next one continues its line |
| `IdsDistinct` | two increments overlapped (`raced`) | two shares carry one id |
| `CloseNoticed` | a timeout left `EAGAIN` in `errno` | the loop takes the closed connection for another timeout, and spins |
| `SettledTruth` | a stop has overlapped a start (`overtaken`) | see `ServiceStillMining`; the statistics may also be read while the miner goes |
| `LockAccounted` | a second start has overwritten the reference (`overwritten`) | the first lock stays until its ten minutes are over |
| `PageTruth` | the page is not the first, or appeared during a call (`carried`) and has stopped | a new page does not know of the running miner: Start is refused, Stop disabled; the older call may have started a miner since |
| `SentValid` | the shown pool was typed over (`typed`) | an unusable stored pool is sent after the shown one passed the check |
| `RigsConsistent` | a name was added while it was listed (`doubled`) | it is listed twice, and listed without a rig after one removal |
| | "default" was removed from the list (`dropped`) | it may be selected though it is not listed |
| `SignalEnds` | | a crash in the callback counts as an end: see above |
| `MonitorsEnd` | | a monitor does end, but if its delay was pending at the stop it shows "Mining" last |

## 5. Proofs

### The engine

`MiningEngineProofs` proves, for every number of threads, seeds, jobs and hashes
per batch, and for both starts:

| theorem | says | from |
|---|---|---|
| `TypeCorrect` | `[]TypeOK` | `TypeOK /\ LocalsOK` |
| `RebuildCorrect` | `[](RebuildAlone /\ RebuildSound)`, the latter being `Ownership`, `VectorBacked`, `FullVectorCurrent` and `TeardownQuiet` | `RxInv` |
| `AssuredVmsAreSafe` | `[]AssuredVm` | `CheckedInv` |
| `ColdStartNeverMines` | `[]ColdStartIdle` | the types |
| `SteadySeedIsSafe` | `[]SteadySeedSafe` | `SteadyInv` |

The only assumptions are `EngineAssumption` and `Init`. The argument:

* `LocalsOK` ties the locals of a thread to its place: in the main loop after the
  read of the job it has one, while hashing it has a VM and hashes left.
* `Ownership` is not inductive: while a rebuild is under way the objects are
  partly gone. `Stage` says, for each of the three places inside
  `initialize_randomx`, which objects exist and to which build they belong;
  `FullCurrent` says that a full vector is of `m_current_seed_hash` whenever
  `m_rx_mutex` is free. It says nothing of the short vector that a rebuild leaves
  when it fails at a VM, and nothing can be said: the early return of line 63
  takes those VMs for VMs of the former seed. Together with `RebuildAlone` they
  form `RxInv`.
* `AssuredVm` is about VMs taken under a lock of their own after a look under
  another. `CheckedInv` says what is known between the two: a thread that has
  looked, with no rebuild begun since, will find or holds its own place of the
  vector as it is, of its job's seed. No thread is `checked` while a rebuild runs.
  That no two such threads hold one VM needs `RxInv`, by which the addresses in
  the vector differ, and not how VMs are named.
* `SteadySeedSafe`: while only `warmSeed` has been received, no thread passes the
  early return of `initialize_randomx`, hence the first build stays and every
  VM a thread holds is of it (`SteadyInv`). The history variable `steady`
  bounds the seed of the current job and of every thread's job.

### The wrapper

`RandomXWrapperProofs` proves, for every number of wrappers, seeds, threads and
addresses: `TypeCorrect` (`[]TypeOK`), `NothingLeaks` (`[]Owned`) and
`SeedsAreServed` (`[]SeedServed`), from `WrapperAssumption` alone. All three rest
on one inductive invariant, `TypeOK /\ Owned /\ Progress /\ Served`:

* `Progress` says what an `initialize` under way has built so far; without it
  the dataset might be computed from a cache that is not there.
* `Served` extends `SeedServed` to caches and datasets that no VM uses yet, so
  that the next VM finds them right.
* An allocation happens at a free address, which `Owned` says nobody holds
  (`FreeIsUnheld`); hence nobody's objects change (`AllocKeeps`). A release frees
  exactly what one wrapper holds, which no other holds (`ReleaseServed`). That
  the release of the cache after a failed dataset equals `destroy()` on what is
  built (`AllocDatasetInv`) makes the third release in the code a case of the
  same lemma.

### The power policy

`AndroidProofs` proves, for any temperatures, charges, numbers of cores and
amounts of memory: `PolicyTypeCorrect`, `FlagsAreTruthful` (`[]FlagsTruthful`)
and `LimitsAreSound` (`[]LimitsSound`): from any last report, a device that is
hotter, emptier or both gets no more threads, in `android_thermal.cpp` and in
`initialize_android`. `ThermalAgree` is not inductive, as it
speaks only of equal temperatures: `ThermalInv` says of each module what its
flag says about its own temperature, and `ThermalAgree` follows.

### The pool session

`PoolSessionProofs` proves, for any number of messages and any way `recv` cuts
them, from `SessionAssumption`: `TypeCorrect`, `NoJobIsMissed` (`[]NoJobMissed`),
`SharesAreTallied` (`[]ShareTally`) and `LinesInOrder`, the refinement
`Spec => Channel!Spec`.

* The refinement needs to know what is in `m_buffer` when it holds a newline.
  `StreamInv` says that the lines handled, the buffer and the wire are the
  stream of all pieces the pool has sent, cut in three: the k-th piece of the
  buffer is the piece `2 * Len(handled) + k` of the stream, and so on; only a
  reset takes pieces away, from the end. The pieces of a message alternate, so
  the buffer always begins with the first half of the next message, and its first
  newline is that message's (`HeadOfBuffer`, `LineIsNext`). A step of
  `HandleLine` then is a step of `LineChannel!Deliver`, `PoolSend` is
  `LineChannel!Send`, all others stutter (`ChannelStep`).
* `TypeOK` needs the same: that a job is a whole message follows from `LineIsNext`.
* `NoJobMissed` has two parts. `FlagHeard`, that a flag which is down was taken
  down by a thread that goes on with the newest job, needs that the miner's job is
  the newest one whenever a thread copies it, which is `NewestHeld`, and that the
  flag goes up after the job is stored. `NewestHeld` and `ShareTally` are about
  the history `handled`, by the places of its lines: one line more is one place
  more in at most one of the sets `Handled(kind)`. Both fail if a line is handled
  while nobody is registered,
  hence `CallbackInv`: the receive thread starts after the callbacks are set
  (`randomx_miner.cpp:33-56`).

### Share submission

`ShareChannelProofs` proves, for any number of threads, shares, pieces of a
message and room in the socket, from `ShareAssumption`: `TypeCorrect`,
`WireIsSound` (`[]WireSound`) and `IdsAreDistinct` (`[]IdsDistinct`).

* `WireSound` is about lines at the pool, which are made of pieces of several
  sends. `MutexInv`: only the holder of `m_send_mutex` is in the send loop.
  `TailInv`: the last piece on the wire belongs to the sender that is half
  through its message; if there is none, it ends a message or its `send` has
  failed. So a piece is put behind its predecessor or behind a failure.
  `CountInv`: of the message of each active sender exactly the first pieces are
  on the wire, each once, as many as `left` says.
* Ids: `++m_message_id` only goes up from the id of the login (`IdsInv`). As long
  as no two increments have overlapped, the id of a message is its number, and
  the load that is under way belongs to the newest one (`UnracedInv`).

### The service

`AndroidProofs` proves, for any number of STARTs, PAUSEs and instances, from
`ServiceAssumption`: `TypeCorrect`, `ServiceIsTruthful` (`[]SettledTruth`),
`LocksAreAccounted` (`[]LockAccounted`) and `NativeMinerImplemented`, the
refinement `Spec => Native!Spec`.

* `BridgeInv` adds to the agreement of the globals what they are while someone
  holds `g_mutex`: a start has its callback reference and a miner in the making, a
  stop has no miner left.
* `SettledTruth` speaks of settled states only. `TruthInv` says what holds on the
  way, as long as no stop has overlapped a start: a stop finds `isMining` cleared
  and no start under way, every start belongs to the living instance, and
  `g_mining` is ahead of `isMining` only while a coroutine stands between
  `nativeStartMining` and `isMining = true`. With `BridgeInv` it follows that a
  service that says it mines has its miner (`MinerThere`), hence that a crash of
  `nativeGetStats` needs a stop.
* `LockInv`: as long as no reference was overwritten, the only lock held is the
  one the service refers to.
* The refinement (`MinerStep`) needs `BridgeInv` twice: a start that is not
  refused finds no running miner beneath, since with `g_mutex` free `g_mining`
  tells the truth; and one that fails finds `g_mining` still false, although the
  failing path does not write it. `NativeStart`, `NativeStarted`, `NativeStop` and
  `NativeStopped` are the four steps of `NativeMiner`; a refused start and
  everything else stutter.

### The web page

`WebPageProofs` proves, for any number of pages and shares, from
`WebAssumption`: `TypeCorrect`, `PageIsTruthful` (`[]PageTruth`), `StatsAreSafe`
(`[]StatsSafe`), `ShownSharesAreReal` (`[]SharesAreReal`) and
`NativeMinerImplemented`, the refinement of the same `NativeMiner` (`CallStep`,
`MinerStep`; it rests on `NativeInv` alone). For the others, the core is
`OwnerInv`: a page owns the miner from the return of its native start until it
has stopped it or is gone; at most one page owns it, and then it is there. The
page that polls owns it, so no other call can reset it between the test and the
use of `g_miner`. `ScriptInv` follows the script's variables through its own
calls, `StoppedInv` and `FirstPageInv` carry what a page knows of a miner it does
not own. The proof showed that two conclusions need no exception for calls of older
pages: `PageTruth` now says of every page that one that mines has a miner, and
`SharesAreReal` says of every page that its counts are its own miner's.

### The settings

`RigConfigProofs` proves, for any rigs and addresses and without the bounds on
edits and starts mattering, from `ConfigAssumption`, `DefaultAssumption` and
`ImportAssumption`:
`TypeCorrect`, `SentIsValid` (`[]SentValid`), `RigsAreConsistent`
(`[]RigsConsistent`) and `CopiesAgree` (`[]RigsAgree`, its first part).

* `SentValid` is not inductive: `validateConfig` looks at the stored address and
  the shown pool, while `startMining` sends what is stored, so a start is only safe
  because the two copies agree. The invariant is `CheckedInv`, which is `Shape`
  (the types), `RigsAgree` and `SentValid`.
* That the list of names has the rigs of the map needs `ListInv`: every rig that
  was not doubled is listed once at most (`Once`), for only then does removing the
  first of that name remove the name (`ListShrinks`). Only "default" may be listed
  more than once without having been doubled, since a map that is loaded may have
  a rig of that name too. The lemmas on lists say this of the operators of the
  model: appending (`ListAppended`), putting "default" in front
  (`ListConcatenated`), removing the first occurrence (`ListReduced`), and that a
  finite set has a list of its members each once (`ListOfSet`), which is why
  `RigMaps` holds finite maps only.

### The share search

`ShareSearchProofs` proves, for any number of values of a byte, any widths of
numbers, hash and blob, any place of the nonce and any long targets, from
`SearchAssumption`: `TypeCorrect` (`[]TypeOK`), `NoncesAreFresh`
(`[]NoncesFresh`) and `ConversionsAreExact` (`[]ConversionsExact`).

* The conversions are sums over bytes and powers, defined by recursive functions.
  That such a function exists, and what it computes, needs induction. The
  library's induction theorems have an operator for a parameter, so the module
  proves its own from sets: a nonempty set of naturals has a smallest member
  (`SmallestOf`, from the library's theorem that finite sets are well-founded),
  hence a set that holds 0 and with each number the next holds them all
  (`Induction`); hence a recursion over the naturals has a solution (`Iteration`,
  from solutions over 0 .. k that agree). `PowerSteps` and `LittleIsSum` are its two instances.
* From these follow the facts about positional numbers: `PowerAdds`,
  `LittleBounds` (k bytes spell less than `Power[k]`), `LittleSplit` (a number is
  its low bytes plus its high bytes moved up), `LittleInjective`, and
  `WrittenAndRead` / `ReadBack` / `WrittenBack`: what is written byte by byte is
  what is read.
* `LongTargetsExact` is `LittleSplit` at the last eight bytes of the hash: the
  rest is less than one unit of the target's last place. Since `target` is a
  local that keeps the value of the job copied last, the invariant is `TypeOK`
  with `TargetKept`: `target` is the conversion of the target of job `id`.
* `NoncesFresh` is not inductive. `Walk` says that what has been hashed is a run
  that ends before the present nonce: the next of each is hashed too, or is the
  present one. Once the present one is among them the set is closed under
  `NextNonce`, and by induction a closed set has all nonces (`ClosedIsAll`).

In every module each inductive step is one lemma or one named step per action
of `Next`; what an action leaves alone is said once.

### What stays with TLC

* Everything under fairness, and `ENABLED`, which the prover does not support:
  `StopCompletes`, `JobUptake`, `SignalEnds`, `CloseNoticed`, `StopReturns`,
  `SubmitReturns`, `RefusalEndsService`, `PressAnswered`, `MonitorsEnd`.

These are all the temporal properties of the runs but the two refinements. Every
safety property of the passing runs is a theorem.

## 6. Mutants

`PROJECT.json` lists, for each property of each passing run, an operator, mostly
called `Faulty...`: the mapped definition with a plausible slip (a guard dropped, a reset
forgotten, an order swapped), under which the property fails. They stand beside
the definitions they alter and nothing refers to them.

## 7. What is not modelled, and why

* **Job manager, worker pool, difficulty manager**
  (`src/job_handler.cpp`): compiled, used by nothing; each method is one
  assignment under one mutex, and nothing says which threads would call them.
  `difficulty_to_target` is one division of doubles.
  `JobManager` calls its callback under its own, non-recursive mutex
  (`job_handler.cpp:77`), so a callback that asks it for the job would never
  return; no callback is ever registered.
* **`android_bridge.h`, `android_battery.h`, `android_thermal.h`**: classes that
  are declared and implemented nowhere.
* **Build files**, packaging, resources.
* Details within modelled parts: hash rates; the build without the JSON library,
  in which no message is parsed; hexadecimal text that is malformed or of odd
  length; huge pages, NUMA and AES
  flags; the worker name and the thread count typed in the settings, which are
  shown and read by nobody; the two checks of an
  address's length that differ between screens;
  logs, toasts and notifications. No screen of the repository calls the view
  model or sends the service its intents, so the order of these calls is
  arbitrary in the models. A bridge call is assumed to run on a background
  thread of the WebView, as its documentation says.

## 8. Plan

Done: every component that has behaviour is modelled, every safety property of
the passing runs and each refinement is a theorem. What is left:

1. `MinerProcess`: engine and session in one specification, which would replace
   the table of assumptions in section 1 by checked ones; its state space is the
   product of the two largest, so it needs an engine reduced to what the session
   sees.
2. `MinerService` and `WebPage` over `NativeMiner` itself: now that both are shown
   to implement it, a service or page that uses the abstract miner in place of
   the globals could be checked with more starts and pages.
3. Action properties: that a rebuild never touches what another thread's
   `initialize_randomx` has made is proved for states (`RebuildSound`), not for
   steps; likewise that what was sent is never altered on the wire.
