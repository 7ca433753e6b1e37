---------------------------- MODULE MiningEngine ----------------------------
(***************************************************************************)
(* The mining engine of src/randomx_miner.cpp: the mining threads, the     *)
(* RandomX objects they share (m_rx_cache, m_rx_dataset, m_rx_vms and      *)
(* m_current_seed_hash, rebuilt under m_rx_mutex when a job brings another *)
(* seed), the job handed over by on_new_job with its single m_new_job      *)
(* flag, and stop_mining followed by the destructor.                       *)
(*                                                                         *)
(* The model starts in the state start_mining leaves: every thread has     *)
(* been spawned and stands at the top of its wait loop.  warmSeed = NoSeed *)
(* is the program as shipped, where nothing has called initialize_randomx  *)
(* yet.  With another warmSeed the model starts where the wait loop is     *)
(* meant to end, after one initialize_randomx(warmSeed): it asks what the  *)
(* loop body does once its own precondition holds.                         *)
(*                                                                         *)
(* A lock_guard that covers one access is one step; initialize_randomx,    *)
(* which destroys and allocates under its lock, is several.  A hash is two *)
(* steps, so that others can act while randomx_calculate_hash runs.        *)
(* VMs are known by their addresses, and an address that was released may  *)
(* be handed out again: a pointer kept over a rebuild may name no VM, the  *)
(* thread's own new one, or that of another thread.  Hashing on a VM that  *)
(* is gone, or on one on which another thread hashes, is undefined: it     *)
(* kills the process or returns.  Nonces, targets and hash counters are    *)
(* left out.                                                               *)
(***************************************************************************)
EXTENDS Integers, Sequences, Functions

CONSTANTS
  NumThreads,  \* m_config.num_threads
  Seeds,       \* the seed hashes a pool sends
  NoSeed,      \* the empty seed hash: a job without "seed_hash"
  WarmSeeds,   \* the starts examined: NoSeed is the shipped one, without VMs
  BatchSize,   \* BATCH_SIZE, hashes between two reads of the current job
  MaxJobs,     \* bound on the jobs the pool sends
  NoJob,       \* m_current_job before the first job (its blob is empty)
  Addresses,   \* where randomx_create_vm can put a VM
  Free,        \* no VM is at an address
  Builds,      \* names of caches, each with the dataset computed from it
  NoBuild,     \* a null m_rx_cache or m_rx_dataset
  NoVm,        \* a VM pointer that is null or read from past the end of m_rx_vms
  NoThread     \* m_rx_mutex is free

Threads == 0 .. NumThreads - 1

SeedHash == Seeds \cup {NoSeed}

\* A MiningJob: its order of arrival, its seed, and whether its blob is long
\* enough for construct_mining_blob.
Job == [id : Nat, seed : SeedHash, wellFormed : BOOLEAN]

\* What a pointer to a cache or a dataset says.
BuildPtr == Builds \cup {NoBuild}

\* A randomx_vm: the build of cache and dataset it reads, and its seed.
Vm == [build : BuildPtr, seed : SeedHash]

\* m_rx_vms as an initialize_randomx that succeeds leaves it.
FullVectors == {f \in [1 .. NumThreads -> Addresses] : IsInjective(f)}

ASSUME EngineAssumption ==
  /\ NumThreads \in Nat
  /\ BatchSize \in Nat \ {0}
  /\ MaxJobs \in Nat
  /\ NoSeed \notin Seeds
  /\ WarmSeeds \subseteq SeedHash
  /\ NoJob \notin Job
  /\ NoVm \notin Addresses
  /\ Free \notin Vm
  /\ Builds # {} /\ NoBuild \notin Builds
  /\ WarmSeeds \subseteq {NoSeed} \/ FullVectors # {}
  /\ NoThread \notin Threads

VARIABLES
  \* shared by the threads
  running,      \* m_running
  newJob,       \* m_new_job
  currentJob,   \* m_current_job, under m_job_mutex
  raising,      \* the receive thread has stored a job and not yet the flag
  rxMutex,      \* the thread that holds m_rx_mutex across several steps
  vms,          \* m_rx_vms
  currentSeed,  \* m_current_seed_hash
  rxCache,      \* m_rx_cache
  rxDataset,    \* m_rx_dataset, by the cache it was computed from
  \* the RandomX library: what it has allocated and not yet released, VMs by
  \* address
  vmHeap, cacheHeap, datasetHeap,
  warmSeed,     \* history: the seed the first VMs were built for, or NoSeed
  \* locals of mining_thread
  pc, job, vm, lastSeed, left,
  owner,        \* the thread that stops and destroys the miner
  steady,       \* history: every job received is for warmSeed
  checked       \* history: the threads since whose last look at m_rx_vms no
                \* rebuild has begun; a look that finds the seed in place but
                \* VMs missing does not count

rxVars == <<rxMutex, vms, currentSeed, rxCache, rxDataset, vmHeap, cacheHeap,
            datasetHeap, warmSeed>>
jobVars == <<currentJob, raising, steady>>
localVars == <<job, vm, lastSeed, left>>
vars == <<running, newJob, jobVars, rxVars, pc, localVars, checked, owner>>

Labels == {"wait", "take", "loop", "reseed", "cache", "dataset", "vms",
           "retake", "batch", "ack", "hash", "submit", "flush", "done"}

\* m_rx_vms as a set of addresses.
Pool == {vms[k] : k \in DOMAIN vms}

\* The addresses at which there is a VM.
Allocated == {a \in Addresses : vmHeap[a] # Free}

\* vmHeap after randomx_destroy_vm on each of m_rx_vms.
WithoutPool == [a \in Addresses |-> IF a \in Pool THEN Free ELSE vmHeap[a]]

\* The name of the next cache: one that nothing allocated uses.
BuildsInUse == cacheHeap \cup datasetHeap \cup {vmHeap[a].build : a \in Allocated}
NextBuild == CHOOSE b \in Builds : b \notin BuildsInUse

FirstBuild == CHOOSE b \in Builds : TRUE
WarmBuild == IF warmSeed = NoSeed THEN NoBuild ELSE FirstBuild

Init ==
  /\ warmSeed \in WarmSeeds
  /\ running = TRUE
  /\ newJob = FALSE
  /\ currentJob = NoJob
  /\ raising = FALSE
  /\ steady = TRUE
  /\ rxMutex = NoThread
  /\ vms = IF warmSeed = NoSeed THEN <<>> ELSE CHOOSE f \in FullVectors : TRUE
  /\ currentSeed = warmSeed
  /\ rxCache = WarmBuild
  /\ rxDataset = WarmBuild
  /\ vmHeap = [a \in Addresses |->
                  IF a \in Pool THEN [build |-> FirstBuild, seed |-> warmSeed] ELSE Free]
  /\ cacheHeap = {WarmBuild} \ {NoBuild}
  /\ datasetHeap = {WarmBuild} \ {NoBuild}
  /\ pc = [t \in Threads |-> "wait"]
  /\ job = [t \in Threads |-> NoJob]
  /\ vm = [t \in Threads |-> NoVm]
  /\ lastSeed = [t \in Threads |-> NoSeed]
  /\ left = [t \in Threads |-> 0]
  /\ checked = {}
  /\ owner = "up"

Goto(t, label) == pc' = [pc EXCEPT ![t] = label]

At(t, label) == owner # "crashed" /\ pc[t] = label

\* mining_thread returns, and with it go its locals.
Return(t) ==
  /\ Goto(t, "done")
  /\ job' = [job EXCEPT ![t] = NoJob]
  /\ vm' = [vm EXCEPT ![t] = NoVm]
  /\ lastSeed' = [lastSeed EXCEPT ![t] = NoSeed]
  /\ left' = [left EXCEPT ![t] = 0]

-----------------------------------------------------------------------------
(* Guards and effects of the actions below.  Where a definition is named   *)
(* Faulty..., it is the next definition with a plausible slip; no action   *)
(* uses it.                                                                *)

\* The thread can take m_rx_mutex.
MutexFree == rxMutex = NoThread

\* The wait loop's exit condition: the thread's VM exists.
FaultyVmReady(t) == TRUE
VmReady(t) == t < Len(vms)

\* The wait loop's own condition has become false.
FaultyStopSeen == FALSE
StopSeen == ~running

\* m_rx_vms[thread_id]: past the end it is some pointer that names no VM.
TakenVm(t) == IF t < Len(vms) THEN vms[t + 1] ELSE NoVm

\* initialize_randomx has nothing to do.
FaultyUpToDate(t) == FALSE
AnyVmsUpToDate(t) == job[t].seed = currentSeed \/ Len(vms) = NumThreads
UpToDate(t) == job[t].seed = currentSeed

\* The hash under way on the thread's VM has no defined outcome.
HashUndefined(t) ==
  \/ vm[t] \notin Allocated
  \/ \E u \in Threads \ {t} : pc[u] = "hash" /\ vm[u] = vm[t]

\* The job the thread reads under m_job_mutex.
FaultyJobCopy(t) == IF job[t] = NoJob THEN currentJob ELSE job[t]
JobCopy(t) == currentJob

\* The batch loop has run its course.
FaultyBatchOver(t) == left[t] = -1
BatchOver(t) == left[t] = 0

\* m_rx_vms after randomx_destroy_vm on each of them.
ClearedVms == <<>>

\* The cache released when the dataset cannot be allocated.
FaultyCacheAfterDatasetFailure == cacheHeap
CacheAfterDatasetFailure == cacheHeap \ {rxCache}

\* m_current_seed_hash once all VMs exist.
SeedBuilt(t) == job[t].seed

\* Every mining thread has returned, so stop_mining has joined them all.
AllJoined == \A t \in Threads : pc[t] = "done"

-----------------------------------------------------------------------------
(* mining_thread up to its main loop                                       *)

\* m_running has become false: the thread returns.
WaitStopped(t) ==
  /\ \/ At(t, "wait") /\ StopSeen
     \/ At(t, "take") /\ ~running
  /\ Return(t)
  /\ UNCHANGED <<running, newJob, jobVars, rxVars, checked, owner>>

\* The poll finds the thread's VM (a poll that does not changes nothing).
WaitOver(t) ==
  /\ At(t, "wait")
  /\ running
  /\ MutexFree
  /\ VmReady(t)
  /\ Goto(t, "take")
  /\ checked' = checked \cup {t}
  /\ UNCHANGED <<running, newJob, jobVars, rxVars, localVars, owner>>

\* The VM is read under a second lock, without looking at the size again.
Take(t) ==
  /\ At(t, "take")
  /\ running
  /\ MutexFree
  /\ vm' = [vm EXCEPT ![t] = TakenVm(t)]
  /\ Goto(t, "loop")
  /\ UNCHANGED <<running, newJob, jobVars, rxVars, job, lastSeed, left, checked, owner>>

-----------------------------------------------------------------------------
(* The main loop: copy the job, rebuild for another seed                   *)

StartBatch(t) ==
  /\ Goto(t, "batch")
  /\ left' = [left EXCEPT ![t] = BatchSize]

LoopStopped(t) ==
  /\ At(t, "loop")
  /\ ~running
  /\ Return(t)
  /\ UNCHANGED <<running, newJob, jobVars, rxVars, checked, owner>>

\* An empty blob, before the first job, makes the thread sleep and try again.
CopyJob(t) ==
  /\ At(t, "loop")
  /\ running
  /\ JobCopy(t) # NoJob
  /\ job' = [job EXCEPT ![t] = JobCopy(t)]
  /\ IF JobCopy(t).seed # lastSeed[t]
     THEN Goto(t, "reseed") /\ UNCHANGED left
     ELSE StartBatch(t)
  /\ UNCHANGED <<running, newJob, jobVars, rxVars, vm, lastSeed, checked, owner>>

\* initialize_randomx finds its seed in place.  It does not look at the VMs:
\* after a rebuild that failed, some are missing and the others are of another
\* seed than m_current_seed_hash.
ReseedUpToDate(t) ==
  /\ At(t, "reseed")
  /\ MutexFree
  /\ UpToDate(t)
  /\ checked' = IF Len(vms) = NumThreads THEN checked \cup {t} ELSE checked \ {t}
  /\ Goto(t, "retake")
  /\ UNCHANGED <<running, newJob, jobVars, rxVars, localVars, owner>>

\* It does not: the old VMs, dataset and cache go, whoever uses them.
ReseedDestroy(t) ==
  /\ At(t, "reseed")
  /\ MutexFree
  /\ ~UpToDate(t)
  /\ rxMutex' = t
  /\ vmHeap' = WithoutPool
  /\ vms' = ClearedVms
  /\ datasetHeap' = datasetHeap \ {rxDataset}
  /\ rxDataset' = NoBuild
  /\ cacheHeap' = cacheHeap \ {rxCache}
  /\ rxCache' = NoBuild
  /\ checked' = {}
  /\ Goto(t, "cache")
  /\ UNCHANGED <<running, newJob, jobVars, currentSeed, warmSeed, localVars,
                 owner>>

\* initialize_randomx returns false: the lock is released and the thread ends.
RebuildFails(t) ==
  /\ rxMutex' = NoThread
  /\ Return(t)

AllocCache(t) ==
  /\ At(t, "cache")
  /\ \/ /\ ~(Builds \subseteq BuildsInUse)
        /\ rxCache' = NextBuild
        /\ cacheHeap' = cacheHeap \cup {NextBuild}
        /\ Goto(t, "dataset")
        /\ UNCHANGED <<rxMutex, localVars>>
     \/ /\ RebuildFails(t)
        /\ UNCHANGED <<rxCache, cacheHeap>>
  /\ UNCHANGED <<running, newJob, jobVars, vms, currentSeed, rxDataset, vmHeap,
                 datasetHeap, warmSeed, checked, owner>>

AllocDataset(t) ==
  /\ At(t, "dataset")
  /\ \/ /\ rxDataset' = rxCache
        /\ datasetHeap' = datasetHeap \cup {rxCache}
        /\ Goto(t, "vms")
        /\ UNCHANGED <<rxMutex, rxCache, cacheHeap, localVars>>
     \/ /\ cacheHeap' = CacheAfterDatasetFailure
        /\ rxCache' = NoBuild
        /\ RebuildFails(t)
        /\ UNCHANGED <<rxDataset, datasetHeap>>
  /\ UNCHANGED <<running, newJob, jobVars, vms, currentSeed, vmHeap, warmSeed,
                 checked, owner>>

\* A VM is created wherever none is.  One that cannot be leaves those created
\* before it in m_rx_vms.
CreateVm(t) ==
  /\ At(t, "vms")
  /\ Len(vms) < NumThreads
  /\ \/ \E a \in Addresses \ Allocated :
          /\ vms' = Append(vms, a)
          /\ vmHeap' = [vmHeap EXCEPT ![a] = [build |-> rxCache, seed |-> job[t].seed]]
          /\ UNCHANGED <<rxMutex, pc, localVars>>
     \/ RebuildFails(t) /\ UNCHANGED <<vms, vmHeap>>
  /\ UNCHANGED <<running, newJob, jobVars, currentSeed, rxCache, rxDataset,
                 cacheHeap, datasetHeap, warmSeed, checked, owner>>

RebuildDone(t) ==
  /\ At(t, "vms")
  /\ Len(vms) = NumThreads
  /\ currentSeed' = SeedBuilt(t)
  /\ rxMutex' = NoThread
  /\ checked' = checked \cup {t}
  /\ Goto(t, "retake")
  /\ UNCHANGED <<running, newJob, jobVars, vms, rxCache, rxDataset, vmHeap,
                 cacheHeap, datasetHeap, warmSeed, localVars, owner>>

\* Back in the loop the lock is taken anew: another rebuild may have come
\* between.  Here the size is checked.
Retake(t) ==
  /\ At(t, "retake")
  /\ MutexFree
  /\ IF t >= Len(vms)
     THEN Return(t)
     ELSE /\ UNCHANGED job
          /\ vm' = [vm EXCEPT ![t] = TakenVm(t)]
          /\ lastSeed' = [lastSeed EXCEPT ![t] = job[t].seed]
          /\ StartBatch(t)
  /\ UNCHANGED <<running, newJob, jobVars, rxVars, checked, owner>>

-----------------------------------------------------------------------------
(* The batch loop                                                          *)

\* m_new_job is read; it is cleared in a step of its own.
SeeFlag(t) ==
  /\ At(t, "batch")
  /\ ~BatchOver(t)
  /\ newJob
  /\ Goto(t, "ack")
  /\ UNCHANGED <<running, newJob, jobVars, rxVars, localVars, checked, owner>>

AckFlag(t) ==
  /\ At(t, "ack")
  /\ newJob' = FALSE
  /\ Goto(t, "loop")
  /\ UNCHANGED <<running, jobVars, rxVars, localVars, checked, owner>>

\* The batch is complete, or the blob is too short.
EndBatch(t) ==
  /\ At(t, "batch")
  /\ \/ BatchOver(t)
     \/ ~BatchOver(t) /\ ~newJob /\ ~job[t].wellFormed
  /\ Goto(t, "flush")
  /\ UNCHANGED <<running, newJob, jobVars, rxVars, localVars, checked, owner>>

HashBegin(t) ==
  /\ At(t, "batch")
  /\ ~BatchOver(t)
  /\ ~newJob
  /\ job[t].wellFormed
  /\ Goto(t, "hash")
  /\ UNCHANGED <<running, newJob, jobVars, rxVars, localVars, checked, owner>>

\* randomx_calculate_hash returns; the hash meets the target or not.
HashEnd(t) ==
  /\ At(t, "hash")
  /\ \/ Goto(t, "submit") /\ UNCHANGED left
     \/ Goto(t, "batch") /\ left' = [left EXCEPT ![t] = @ - 1]
  /\ UNCHANGED <<running, newJob, jobVars, rxVars, job, vm, lastSeed, checked, owner>>

\* Or it takes the process with it.
HashCrash(t) ==
  /\ At(t, "hash")
  /\ HashUndefined(t)
  /\ owner' = "crashed"
  /\ UNCHANGED <<running, newJob, jobVars, rxVars, pc, localVars, checked>>

\* submit_share has returned.
Submit(t) ==
  /\ At(t, "submit")
  /\ Goto(t, "batch")
  /\ left' = [left EXCEPT ![t] = @ - 1]
  /\ UNCHANGED <<running, newJob, jobVars, rxVars, job, vm, lastSeed, checked, owner>>

\* "clear stale flag": whatever on_new_job has raised meanwhile is lost.
Flush(t) ==
  /\ At(t, "flush")
  /\ newJob' = FALSE
  /\ Goto(t, "loop")
  /\ UNCHANGED <<running, jobVars, rxVars, localVars, checked, owner>>

MiningThread(t) ==
  \/ WaitStopped(t) \/ WaitOver(t) \/ Take(t)
  \/ LoopStopped(t) \/ CopyJob(t)
  \/ ReseedUpToDate(t) \/ ReseedDestroy(t)
  \/ AllocCache(t) \/ AllocDataset(t) \/ CreateVm(t) \/ RebuildDone(t)
  \/ Retake(t)
  \/ SeeFlag(t) \/ AckFlag(t) \/ EndBatch(t)
  \/ HashBegin(t) \/ HashEnd(t) \/ HashCrash(t) \/ Submit(t) \/ Flush(t)

-----------------------------------------------------------------------------
(* The receive thread and the owner of the miner                           *)

\* on_new_job stores the job ...
StoreJob(s, w) ==
  LET id == IF currentJob = NoJob THEN 1 ELSE currentJob.id + 1 IN
  /\ owner \in {"up", "joining"}
  /\ ~raising
  /\ id <= MaxJobs
  /\ currentJob' = [id |-> id, seed |-> s, wellFormed |-> w]
  /\ raising' = TRUE
  /\ steady' = (steady /\ s = warmSeed)
  /\ UNCHANGED <<running, newJob, rxVars, pc, localVars, checked, owner>>

\* ... and then raises the flag.
RaiseFlag ==
  /\ owner \in {"up", "joining"}
  /\ raising
  /\ newJob' = TRUE
  /\ raising' = FALSE
  /\ UNCHANGED <<running, currentJob, steady, rxVars, pc, localVars, checked, owner>>

\* stop_mining, from the destructor.
StopRequest ==
  /\ owner = "up"
  /\ running' = FALSE
  /\ owner' = "joining"
  /\ UNCHANGED <<newJob, jobVars, rxVars, pc, localVars, checked>>

\* All threads joined, the destructor releases what is left.
Destroy ==
  /\ owner = "joining"
  /\ AllJoined
  /\ owner' = "destroyed"
  /\ vmHeap' = WithoutPool
  /\ datasetHeap' = datasetHeap \ {rxDataset}
  /\ cacheHeap' = cacheHeap \ {rxCache}
  /\ UNCHANGED <<running, newJob, jobVars, rxMutex, vms, currentSeed, rxCache,
                 rxDataset, warmSeed, pc, localVars, checked>>

\* Nothing is left to do.
Terminated == owner \in {"destroyed", "crashed"} /\ UNCHANGED vars

Next ==
  \/ \E t \in Threads : MiningThread(t)
  \/ \E s \in SeedHash, w \in BOOLEAN : StoreJob(s, w)
  \/ RaiseFlag
  \/ StopRequest
  \/ Destroy
  \/ Terminated

\* Threads, the receive thread inside on_new_job and a destructor that has
\* begun keep being scheduled.  Nobody has to send a job or to stop.
Fairness ==
  /\ \A t \in Threads : WF_vars(MiningThread(t))
  /\ WF_vars(RaiseFlag)
  /\ WF_vars(Destroy)

Spec == Init /\ [][Next]_vars /\ Fairness

-----------------------------------------------------------------------------
(* Properties                                                              *)

JobTypeOK ==
  /\ running \in BOOLEAN
  /\ newJob \in BOOLEAN
  /\ currentJob \in Job \cup {NoJob}
  /\ raising \in BOOLEAN
  /\ steady \in BOOLEAN
  /\ checked \subseteq Threads
  /\ owner \in {"up", "joining", "destroyed", "crashed"}

RxTypeOK ==
  /\ rxMutex \in Threads \cup {NoThread}
  /\ vms \in Seq(Addresses)
  /\ currentSeed \in SeedHash
  /\ rxCache \in BuildPtr
  /\ rxDataset \in BuildPtr
  /\ warmSeed \in SeedHash
  /\ vmHeap \in [Addresses -> Vm \cup {Free}]
  /\ cacheHeap \subseteq BuildPtr
  /\ datasetHeap \subseteq BuildPtr

ThreadTypeOK ==
  /\ pc \in [Threads -> Labels]
  /\ job \in [Threads -> Job \cup {NoJob}]
  /\ vm \in [Threads -> Addresses \cup {NoVm}]
  /\ lastSeed \in [Threads -> SeedHash]
  /\ left \in [Threads -> 0 .. BatchSize]

\* Every variable has its type; the batch counter stays within the batch,
\* although it is counted down in two places (randomx_miner.cpp:249-289).
TypeOK == JobTypeOK /\ RxTypeOK /\ ThreadTypeOK

\* What the library has allocated is exactly what the members point to, after
\* every rebuild, failed or not, and nothing is left after the destructor:
\* no leak and no member that dangles (randomx_miner.cpp:22-30, 68-118).
Ownership ==
  IF owner = "destroyed"
  THEN Allocated = {} /\ cacheHeap = {} /\ datasetHeap = {}
  ELSE /\ Allocated = Pool
       /\ cacheHeap = {rxCache} \ {NoBuild}
       /\ datasetHeap = {rxDataset} \ {NoBuild}

\* Every VM in m_rx_vms reads the cache and the dataset the members point
\* to, and both exist, in the middle of a rebuild too and after one that
\* stopped half way (randomx_miner.cpp:68-118).
VectorBacked ==
  owner # "destroyed" =>
    \A k \in DOMAIN vms : /\ vmHeap[vms[k]].build = rxCache
                          /\ rxCache = rxDataset
                          /\ rxDataset \in datasetHeap
                          /\ rxCache \in cacheHeap

\* Whenever m_rx_mutex can be taken and no VM is missing, all the VMs belong
\* to m_current_seed_hash.  This is about full vectors only: a rebuild that
\* fails at a VM leaves those of its own seed under the old m_current_seed_hash,
\* and line 63 then vouches for them (randomx_miner.cpp:63, 111-120).
FullVectorCurrent ==
  (owner # "destroyed" /\ rxMutex = NoThread /\ Len(vms) = NumThreads) =>
    \A k \in DOMAIN vms : vmHeap[vms[k]].seed = currentSeed

\* The destructor releases nothing while a mining thread still runs
\* (randomx_miner.cpp:22-30, 324-331).
TeardownQuiet ==
  owner = "destroyed" => \A t \in Threads : pc[t] = "done"

\* Rebuilding under m_rx_mutex, with any of its allocations failing, and the
\* destructor leave the members and the heap consistent, and the seed too as
\* long as no VM is missing (randomx_miner.cpp:22-30, 60-124).
RebuildSound == Ownership /\ VectorBacked /\ FullVectorCurrent /\ TeardownQuiet

\* As long as the pool keeps to the seed the VMs were built for, every hash
\* runs on a VM of that seed that exists, whichever threads pass through
\* initialize_randomx meanwhile (randomx_miner.cpp:231-242, 266).
SteadySeedSafe ==
  (warmSeed # NoSeed /\ steady) =>
    \A t \in Threads : pc[t] = "hash" => /\ vm[t] \in Allocated
                                         /\ vmHeap[vm[t]].seed = warmSeed

\* The thread holds the VM it took after its last look at m_rx_vms, and no
\* rebuild has begun since that look.
Assured(t) ==
  t \in checked /\ pc[t] \in {"loop", "reseed", "batch", "ack", "hash", "submit", "flush"}

\* A rebuild is all that can come between a thread and its VM.  As long as none
\* has begun since the thread looked, the index of line 202 was in range though
\* the size was read under another lock; the VM exists, at an address no other
\* such thread holds; and it works for the seed of the thread's job, if that has
\* one, though line 239 takes it under another lock than the one it was built or
\* found up to date under.  Not so if the look found VMs missing after a failed
\* rebuild (randomx_miner.cpp:63, 190-203, 231-242).
AssuredVm ==
  \A t \in Threads : Assured(t) =>
    /\ vm[t] \in Allocated
    /\ \A u \in Threads \ {t} : Assured(u) => vm[u] # vm[t]
    /\ pc[t] \notin {"loop", "reseed"} /\ job[t].seed # NoSeed =>
         vmHeap[vm[t]].seed = job[t].seed

\* The shipped start: nothing but the main loop calls initialize_randomx and
\* no thread gets there, so no job ever leads to a VM or to a hash
\* (randomx_miner.cpp:189-197).
ColdStartIdle ==
  warmSeed = NoSeed =>
    vms = <<>> /\ \A t \in Threads : pc[t] \in {"wait", "done"}

\* A stop that has begun ends, whatever the threads were doing: every thread
\* sees m_running and no thread keeps m_rx_mutex (randomx_miner.cpp:324-331).
StopCompletes ==
  owner = "joining" ~> owner \in {"destroyed", "crashed"}

\* The thread is in its main loop with a job that has been replaced.
Behind(t) ==
  /\ owner = "up"
  /\ pc[t] \notin {"wait", "take", "done"}
  /\ currentJob # NoJob
  /\ job[t] # currentJob

\* No thread of the main loop stays on a replaced job for ever, although one
\* flag serves all threads and any of them clears it, even at the moment the
\* next job raises it (randomx_miner.cpp:251-255, 291-296, 302-308).
JobUptake == \A t \in Threads : []<>~Behind(t)

-----------------------------------------------------------------------------
(* What the comments of the source say and the code does not do            *)

\* "Wait until RandomX is initialised (job arrives and triggers init)"
\* (randomx_miner.cpp:189): once a job has arrived, the VMs come to exist or
\* the threads end.
JobTriggersInit ==
  currentJob # NoJob ~> (vms # <<>> \/ AllJoined)

=============================================================================
