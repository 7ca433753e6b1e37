-------------------------- MODULE MiningEngineProofs --------------------------
(***************************************************************************)
(* Theorems about MiningEngine, for every number of threads, set of seeds, *)
(* batch size and bound on the jobs.                                       *)
(***************************************************************************)
EXTENDS MiningEngine, SequenceTheorems, TLAPS

\* The thread has copied a job.
WithJob == Labels \ {"wait", "take", "loop", "done"}

\* What TypeOK needs of the locals to be inductive.
LocalsOK ==
  \A t \in Threads : /\ pc[t] \in WithJob => job[t] \in Job
                     /\ pc[t] \in {"hash", "submit"} => left[t] # 0

LEMMA TypeInit == Init => TypeOK /\ LocalsOK
<1> SUFFICES ASSUME Init PROVE TypeOK /\ LocalsOK
  OBVIOUS
<1>1. warmSeed # NoSeed => vms \in FullVectors
  BY EngineAssumption DEF Init
<1>2. vms \in Seq(Addresses)
  <2>1. CASE warmSeed = NoSeed
    BY <2>1, EmptySeq DEF Init
  <2>2. CASE warmSeed # NoSeed
    <3>1. vms \in [1 .. NumThreads -> Addresses]
      BY <1>1, <2>2 DEF FullVectors
    <3> QED
      BY <3>1, EngineAssumption, SeqDef
  <2> QED
    BY <2>1, <2>2
<1>3. FirstBuild \in Builds /\ warmSeed \in SeedHash
  BY EngineAssumption DEF Init, FirstBuild
<1>7. vmHeap \in [Addresses -> Vm \cup {Free}]
  BY <1>3 DEF Init, Vm, BuildPtr
<1>4. RxTypeOK
  <2>1. WarmBuild \in BuildPtr
    BY <1>3 DEF WarmBuild, BuildPtr
  <2> QED
    BY <1>2, <1>3, <1>7, <2>1, EngineAssumption DEF Init, RxTypeOK
<1>5. ThreadTypeOK
  BY EngineAssumption DEF Init, ThreadTypeOK, Labels, SeedHash
<1>6. JobTypeOK /\ LocalsOK
  BY DEF Init, JobTypeOK, LocalsOK, WithJob
<1> QED
  BY <1>4, <1>5, <1>6 DEF TypeOK

LEMMA JobTypeStep ==
  ASSUME TypeOK, [Next]_vars
  PROVE  JobTypeOK'
<1> USE DEF TypeOK, JobTypeOK
<1>1. ASSUME NEW t \in Threads, MiningThread(t) PROVE JobTypeOK'
  BY <1>1 DEF MiningThread, WaitStopped, WaitOver, Take, LoopStopped, CopyJob,
     ReseedUpToDate, ReseedDestroy, AllocCache, AllocDataset, CreateVm,
     RebuildDone, Retake, SeeFlag, AckFlag, EndBatch, HashBegin, HashEnd,
     HashCrash, Submit, Flush, jobVars
<1>2. ASSUME NEW s \in SeedHash, NEW w \in BOOLEAN, StoreJob(s, w)
      PROVE  JobTypeOK'
  BY <1>2 DEF StoreJob, Job
<1>3. CASE RaiseFlag \/ StopRequest \/ Destroy \/ Terminated \/ UNCHANGED vars
  BY <1>3 DEF RaiseFlag, StopRequest, Destroy, Terminated, vars, jobVars
<1> QED
  BY <1>1, <1>2, <1>3 DEF Next

\* The steps that leave the RandomX objects and their lock alone.
LEMMA LocalSteps ==
  ASSUME NEW t \in Threads,
         \/ WaitStopped(t) \/ WaitOver(t) \/ Take(t) \/ LoopStopped(t)
         \/ CopyJob(t) \/ ReseedUpToDate(t) \/ Retake(t) \/ SeeFlag(t)
         \/ AckFlag(t) \/ EndBatch(t) \/ HashBegin(t) \/ HashEnd(t)
         \/ HashCrash(t) \/ Submit(t) \/ Flush(t)
  PROVE  UNCHANGED rxVars
BY DEF WaitStopped, WaitOver, Take, LoopStopped, CopyJob, ReseedUpToDate, Retake,
   SeeFlag, AckFlag, EndBatch, HashBegin, HashEnd, HashCrash, Submit, Flush

LEMMA RxTypeStep ==
  ASSUME TypeOK, LocalsOK, [Next]_vars
  PROVE  RxTypeOK'
<1> USE EngineAssumption DEF TypeOK, RxTypeOK, BuildPtr
<1>1. ASSUME UNCHANGED rxVars PROVE RxTypeOK'
  BY <1>1 DEF rxVars
<1>2. ASSUME NEW t \in Threads, ReseedDestroy(t) PROVE RxTypeOK'
  BY <1>2, EmptySeq DEF ReseedDestroy, ClearedVms, WithoutPool
<1>3. ASSUME NEW t \in Threads, AllocCache(t) PROVE RxTypeOK'
  <2>1. CASE ~(Builds \subseteq BuildsInUse)
    <3>1. NextBuild \in Builds
      BY <2>1 DEF NextBuild
    <3> QED
      BY <1>3, <3>1 DEF AllocCache, RebuildFails
  <2>3. CASE Builds \subseteq BuildsInUse
    BY <1>3, <2>3 DEF AllocCache, RebuildFails
  <2> QED
    BY <2>1, <2>3
<1>4. ASSUME NEW t \in Threads, AllocDataset(t) PROVE RxTypeOK'
  <2>1. rxDataset' \in BuildPtr /\ datasetHeap' \subseteq BuildPtr
    BY <1>4 DEF AllocDataset
  <2>2. rxCache' \in BuildPtr /\ cacheHeap' \subseteq BuildPtr
    BY <1>4 DEF AllocDataset, CacheAfterDatasetFailure, BuildPtr
  <2>3. rxMutex' \in Threads \cup {NoThread}
    BY <1>4 DEF AllocDataset, RebuildFails
  <2> QED
    BY <1>4, <2>1, <2>2, <2>3 DEF AllocDataset
<1>5. ASSUME NEW t \in Threads, CreateVm(t) PROVE RxTypeOK'
  <2>1. job[t].seed \in SeedHash
    BY <1>5 DEF CreateVm, At, LocalsOK, WithJob, Labels, Job
  <2>2. [build |-> rxCache, seed |-> job[t].seed] \in Vm
    BY <2>1 DEF Vm
  <2>3. CASE UNCHANGED <<vms, vmHeap>>
    BY <1>5, <2>3 DEF CreateVm, RebuildFails
  <2>4. CASE ~UNCHANGED <<vms, vmHeap>>
    <3>1. PICK a \in Addresses :
            /\ vms' = Append(vms, a)
            /\ vmHeap' = [vmHeap EXCEPT ![a] = [build |-> rxCache, seed |-> job[t].seed]]
            /\ UNCHANGED rxMutex
      BY <1>5, <2>4 DEF CreateVm
    <3> QED
      BY <1>5, <2>2, <3>1 DEF CreateVm
  <2> QED
    BY <2>3, <2>4
<1>6. ASSUME NEW t \in Threads, RebuildDone(t) PROVE RxTypeOK'
  BY <1>6 DEF RebuildDone, SeedBuilt, At, LocalsOK, WithJob, Labels, Job
<1>7. CASE Destroy
  BY <1>7 DEF Destroy, WithoutPool
<1>8. ASSUME NEW s \in SeedHash, NEW w \in BOOLEAN, StoreJob(s, w)
      PROVE  RxTypeOK'
  BY <1>8, <1>1 DEF StoreJob
<1>9. CASE RaiseFlag \/ StopRequest \/ Terminated \/ UNCHANGED vars
  BY <1>9, <1>1 DEF RaiseFlag, StopRequest, Terminated, vars
<1> QED
  BY <1>1, <1>2, <1>3, <1>4, <1>5, <1>6, <1>7, <1>8, <1>9, LocalSteps
     DEF Next, MiningThread

\* Which locals a step of one thread may touch: its own.
LEMMA ThreadTypeStep ==
  ASSUME TypeOK, LocalsOK, [Next]_vars
  PROVE  ThreadTypeOK' /\ LocalsOK'
<1> USE EngineAssumption DEF TypeOK, ThreadTypeOK, LocalsOK, Labels, WithJob, Goto, At
<1>0. ASSUME NEW t \in Threads, Return(t) PROVE ThreadTypeOK' /\ LocalsOK'
  <2>1. NoSeed \in SeedHash
    BY DEF SeedHash
  <2>2. ThreadTypeOK'
    BY <1>0, <2>1 DEF Return
  <2> QED
    BY <1>0, <2>2 DEF Return
<1>1. ASSUME NEW t \in Threads,
             WaitStopped(t) \/ WaitOver(t) \/ LoopStopped(t) \/ ReseedUpToDate(t)
      PROVE  ThreadTypeOK' /\ LocalsOK'
  <2>1. Return(t) \/ WaitOver(t) \/ ReseedUpToDate(t)
    BY <1>1 DEF WaitStopped, LoopStopped
  <2>2. CASE WaitOver(t) \/ ReseedUpToDate(t)
    BY <2>2 DEF WaitOver, ReseedUpToDate, localVars
  <2> QED
    BY <1>0, <2>1, <2>2
<1>2. ASSUME NEW t \in Threads,
             SeeFlag(t) \/ AckFlag(t) \/ EndBatch(t) \/ HashBegin(t) \/ Flush(t)
      PROVE  ThreadTypeOK' /\ LocalsOK'
  BY <1>2 DEF SeeFlag, AckFlag, EndBatch, HashBegin, Flush, BatchOver, localVars
<1>3. ASSUME NEW t \in Threads,
             \/ ReseedDestroy(t) \/ AllocCache(t) \/ AllocDataset(t) \/ CreateVm(t)
             \/ RebuildDone(t)
      PROVE  ThreadTypeOK' /\ LocalsOK'
  <2>1. \/ Return(t)
        \/ /\ UNCHANGED localVars
           /\ pc[t] \in WithJob \ {"hash", "submit"}
           /\ \/ pc' = pc
              \/ \E l \in {"cache", "dataset", "vms", "retake"} :
                   pc' = [pc EXCEPT ![t] = l]
    BY <1>3 DEF ReseedDestroy, AllocCache, AllocDataset, CreateVm, RebuildDone,
       RebuildFails
  <2>2. CASE /\ UNCHANGED localVars
             /\ pc[t] \in WithJob \ {"hash", "submit"}
             /\ \/ pc' = pc
                \/ \E l \in {"cache", "dataset", "vms", "retake"} :
                     pc' = [pc EXCEPT ![t] = l]
    BY <2>2 DEF localVars
  <2> QED
    BY <1>0, <2>1, <2>2
<1>5. ASSUME NEW t \in Threads, HashEnd(t) \/ HashCrash(t) \/ Submit(t)
      PROVE  ThreadTypeOK' /\ LocalsOK'
  BY <1>5 DEF HashEnd, HashCrash, Submit, localVars
<1>6. ASSUME NEW t \in Threads PROVE TakenVm(t) \in Addresses \cup {NoVm}
  BY LenProperties, ElementOfSeq DEF TakenVm, Threads, RxTypeOK
<1>7. ASSUME NEW t \in Threads, Take(t) PROVE ThreadTypeOK' /\ LocalsOK'
  BY <1>6, <1>7 DEF Take
<1>8. ASSUME NEW t \in Threads, Retake(t) PROVE ThreadTypeOK' /\ LocalsOK'
  <2>1. CASE t >= Len(vms)
    BY <1>0, <1>8, <2>1 DEF Retake
  <2>2. CASE ~(t >= Len(vms))
    <3>1. job[t].seed \in SeedHash
      BY <1>8 DEF Retake, Job
    <3>2. /\ vm' = [vm EXCEPT ![t] = TakenVm(t)]
          /\ lastSeed' = [lastSeed EXCEPT ![t] = job[t].seed]
          /\ left' = [left EXCEPT ![t] = BatchSize]
          /\ pc' = [pc EXCEPT ![t] = "batch"] /\ job' = job
      BY <1>8, <2>2 DEF Retake, StartBatch
    <3>3. ThreadTypeOK'
      BY <1>6, <3>1, <3>2
    <3>4. job[t] \in Job
      BY <1>8 DEF Retake
    <3>5. LocalsOK'
      BY <3>2, <3>4
    <3> QED
      BY <3>3, <3>5
  <2> QED
    BY <2>1, <2>2
<1>9. ASSUME NEW t \in Threads, CopyJob(t) PROVE ThreadTypeOK' /\ LocalsOK'
  <2>1. JobCopy(t) \in Job
    BY <1>9 DEF CopyJob, JobCopy, JobTypeOK
  <2>2. job' \in [Threads -> Job \cup {NoJob}]
    BY <1>9, <2>1 DEF CopyJob
  <2>3. left' \in [Threads -> 0 .. BatchSize] /\ pc' \in [Threads -> Labels]
    BY <1>9 DEF CopyJob, StartBatch
  <2>4. LocalsOK'
    BY <1>9, <2>1 DEF CopyJob, StartBatch
  <2> QED
    BY <1>9, <2>2, <2>3, <2>4 DEF CopyJob
<1>10. ASSUME NEW s \in SeedHash, NEW w \in BOOLEAN, StoreJob(s, w)
       PROVE  ThreadTypeOK' /\ LocalsOK'
  BY <1>10 DEF StoreJob, localVars
<1>11. CASE RaiseFlag \/ StopRequest \/ Destroy \/ Terminated \/ UNCHANGED vars
  BY <1>11 DEF RaiseFlag, StopRequest, Destroy, Terminated, vars, localVars
<1> QED
  BY <1>1, <1>2, <1>3, <1>5, <1>7, <1>8, <1>9, <1>10, <1>11
     DEF Next, MiningThread

\* TypeOK holds in every reachable state of every instance: in particular the
\* batch counter never leaves the batch.
THEOREM TypeCorrect == Spec => [](TypeOK /\ LocalsOK)
<1>1. TypeOK /\ LocalsOK /\ [Next]_vars => (TypeOK /\ LocalsOK)'
  BY JobTypeStep, RxTypeStep, ThreadTypeStep DEF TypeOK
<1> QED
  BY TypeInit, <1>1, PTL DEF Spec

-----------------------------------------------------------------------------
(* The RandomX objects.  RebuildAlone, Ownership and FullVectorCurrent are *)
(* not inductive: Stage says what the members hold at each point of        *)
(* initialize_randomx and between two calls of it.                         *)

Rebuilding == {"cache", "dataset", "vms"}

\* Only the thread that holds m_rx_mutex is inside initialize_randomx, and
\* it is held across steps by no other (randomx_miner.cpp:61).
RebuildAlone ==
  \A t \in Threads : pc[t] \in Rebuilding <=> rxMutex = t

Stage ==
  /\ Len(vms) <= NumThreads
  /\ \A i, j \in 1 .. Len(vms) : vms[i] = vms[j] => i = j
  /\ owner # "destroyed" => \A k \in 1 .. Len(vms) : vmHeap[vms[k]].build = rxCache
  /\ vms # <<>> => rxCache # NoBuild /\ rxDataset = rxCache
  /\ rxMutex = NoThread => rxDataset = rxCache
  /\ \A t \in Threads :
       /\ pc[t] = "cache" => vms = <<>> /\ rxCache = NoBuild /\ rxDataset = NoBuild
       /\ pc[t] = "dataset" => vms = <<>> /\ rxCache # NoBuild /\ rxDataset = NoBuild
       /\ pc[t] = "vms" =>
            /\ rxCache # NoBuild /\ rxDataset = rxCache
            /\ \A k \in 1 .. Len(vms) : vmHeap[vms[k]].seed = job[t].seed

FullCurrent ==
  owner # "destroyed" /\ rxMutex = NoThread /\ Len(vms) = NumThreads =>
    \A k \in 1 .. Len(vms) : vmHeap[vms[k]].seed = currentSeed

RxInv == RebuildAlone /\ Ownership /\ TeardownQuiet /\ Stage /\ FullCurrent

\* m_rx_vms as a set of addresses, by its places.
LEMMA PoolByPlaces ==
  ASSUME TypeOK
  PROVE  /\ Len(vms) \in Nat /\ DOMAIN vms = 1 .. Len(vms)
         /\ Pool = {vms[k] : k \in 1 .. Len(vms)}
         /\ \A k \in 1 .. Len(vms) : vms[k] \in Addresses
  BY LenProperties, ElementOfSeq DEF Pool, TypeOK, RxTypeOK

LEMMA RxInit == Init => RxInv
<1> SUFFICES ASSUME Init PROVE RxInv
  OBVIOUS
<1>1. RebuildAlone /\ TeardownQuiet
  BY EngineAssumption DEF Init, RebuildAlone, Rebuilding, TeardownQuiet
<1>2. TypeOK
  BY TypeInit
<1>3. Allocated = Pool
  <2>1. Pool \subseteq Addresses
    BY <1>2, PoolByPlaces
  <2>2. FirstBuild \in Builds /\ warmSeed \in SeedHash
    BY EngineAssumption DEF Init, FirstBuild
  <2>3. [build |-> FirstBuild, seed |-> warmSeed] # Free
    BY <2>2, EngineAssumption DEF Vm, BuildPtr
  <2> QED
    BY <2>1, <2>3 DEF Init, Allocated
<1>4. Ownership
  BY <1>3 DEF Init, Ownership
<1>5. ASSUME warmSeed = NoSeed PROVE Stage /\ FullCurrent
  <2>1. vms = <<>> /\ rxCache = NoBuild /\ rxDataset = NoBuild
    BY <1>5 DEF Init, WarmBuild
  <2>2. \A u \in Threads : pc[u] = "wait"
    BY DEF Init
  <2>3. \A k \in 1 .. Len(vms) : FALSE
    BY <2>1
  <2>4. Len(vms) <= NumThreads
    BY <2>1, EngineAssumption
  <2> QED
    BY <2>1, <2>2, <2>3, <2>4 DEF Stage, FullCurrent
<1>6. ASSUME warmSeed # NoSeed PROVE Stage /\ FullCurrent
  <2>1. vms \in FullVectors
    BY <1>6, EngineAssumption DEF Init
  <2>2. vms \in [1 .. NumThreads -> Addresses] /\ IsInjective(vms)
    BY <2>1 DEF FullVectors
  <2>3. Len(vms) = NumThreads
    BY <2>2, <1>2, PoolByPlaces, EngineAssumption
  <2>4. \A i, j \in 1 .. Len(vms) : vms[i] = vms[j] => i = j
    BY <2>2, <2>3 DEF IsInjective
  <2>5. \A k \in 1 .. Len(vms) :
          vmHeap[vms[k]] = [build |-> FirstBuild, seed |-> warmSeed]
    BY <1>2, PoolByPlaces DEF Init
  <2>6. rxCache = FirstBuild /\ rxDataset = FirstBuild /\ currentSeed = warmSeed
    BY <1>6 DEF Init, WarmBuild
  <2>7. FirstBuild # NoBuild
    BY EngineAssumption DEF FirstBuild
  <2>8. \A u \in Threads : pc[u] = "wait"
    BY DEF Init
  <2>9. Len(vms) <= NumThreads
    BY <2>3, EngineAssumption
  <2>10. Stage
    BY <2>4, <2>5, <2>6, <2>7, <2>8, <2>9 DEF Stage
  <2>11. FullCurrent
    BY <2>5, <2>6 DEF FullCurrent
  <2> QED
    BY <2>10, <2>11
<1> QED
  BY <1>1, <1>4, <1>5, <1>6 DEF RxInv

\* A step of a thread outside initialize_randomx disturbs none of it.
LEMMA RxQuietStep ==
  ASSUME TypeOK, RxInv, NEW t \in Threads, UNCHANGED rxVars,
         pc[t] \notin Rebuilding, pc[t] # "done", pc'[t] \notin Rebuilding,
         \A u \in Threads \ {t} : pc'[u] = pc[u] /\ job'[u] = job[u],
         owner' \in {owner, "crashed"}
  PROVE  RxInv'
<1>1. owner # "destroyed" /\ owner' # "destroyed"
  BY DEF RxInv, TeardownQuiet
<1>2. RebuildAlone' /\ TeardownQuiet'
  BY <1>1 DEF RxInv, RebuildAlone, TeardownQuiet, rxVars
<1>3. Ownership'
  BY <1>1 DEF RxInv, Ownership, Pool, Allocated, rxVars
<1>4. Stage' /\ FullCurrent'
  BY <1>1 DEF RxInv, Stage, FullCurrent, rxVars, Rebuilding
<1> QED
  BY <1>2, <1>3, <1>4 DEF RxInv

\* Neither does a step that leaves the threads where they are.
LEMMA RxIdleStep ==
  ASSUME TypeOK, RxInv, UNCHANGED <<rxVars, pc, job>>,
         owner' = owner \/ (owner = "up" /\ owner' = "joining")
  PROVE  RxInv'
<1>1. RebuildAlone' /\ TeardownQuiet' /\ Ownership'
  BY DEF RxInv, RebuildAlone, TeardownQuiet, Ownership, Pool, Allocated, rxVars
<1>2. Stage' /\ FullCurrent'
  BY DEF RxInv, Stage, FullCurrent, rxVars
<1> QED
  BY <1>1, <1>2 DEF RxInv

\* At one thread at a time, each step of initialize_randomx leaves what Stage
\* says of the next one.
LEMMA RxRebuildStep ==
  ASSUME TypeOK, LocalsOK, RxInv, NEW t \in Threads,
         \/ ReseedDestroy(t) \/ AllocCache(t) \/ AllocDataset(t)
         \/ CreateVm(t) \/ RebuildDone(t)
  PROVE  RxInv'
<1> USE EngineAssumption DEF Rebuilding, Goto, At
<1>1. pc[t] # "done" /\ owner' = owner
  BY DEF ReseedDestroy, AllocCache, AllocDataset, CreateVm, RebuildDone
<1>2. owner # "destroyed" /\ owner' # "destroyed"
  BY <1>1 DEF RxInv, TeardownQuiet
<1>3. /\ Allocated = Pool
      /\ cacheHeap = {rxCache} \ {NoBuild}
      /\ datasetHeap = {rxDataset} \ {NoBuild}
  BY <1>2 DEF RxInv, Ownership
<1>4. ASSUME Allocated' = Pool', cacheHeap' = {rxCache'} \ {NoBuild},
             datasetHeap' = {rxDataset'} \ {NoBuild}
      PROVE  Ownership' /\ TeardownQuiet'
  BY <1>2, <1>4 DEF Ownership, TeardownQuiet
<1>5. \A u \in Threads : pc[u] \in Rebuilding <=> rxMutex = u
  BY DEF RxInv, RebuildAlone
<1>6. \A u \in Threads \ {t} : pc'[u] = pc[u]
  BY DEF ReseedDestroy, AllocCache, AllocDataset, CreateVm, RebuildDone,
     RebuildFails, Return, TypeOK, ThreadTypeOK
<1>7. CASE ReseedDestroy(t)
  <2>1. rxMutex = NoThread /\ rxMutex' = t /\ pc'[t] = "cache"
    BY <1>7 DEF ReseedDestroy, MutexFree, TypeOK, ThreadTypeOK
  <2>2. vms' = <<>> /\ rxCache' = NoBuild /\ rxDataset' = NoBuild
    BY <1>7 DEF ReseedDestroy, ClearedVms
  <2>3. RebuildAlone'
    BY <1>5, <1>6, <2>1 DEF RebuildAlone
  <2>4. \A k \in 1 .. Len(vms') : FALSE
    BY <2>2
  <2>5. Len(vms') <= NumThreads
    BY <2>2
  <2>6. Stage' /\ FullCurrent'
    BY <1>5, <1>6, <2>1, <2>2, <2>4, <2>5 DEF Stage, FullCurrent
  <2>7. vmHeap' = [a \in Addresses |-> IF a \in Pool THEN Free ELSE vmHeap[a]]
    BY <1>7 DEF ReseedDestroy, WithoutPool
  <2>8. Allocated' = {} /\ Pool' = {}
    BY <1>3, <2>2, <2>7 DEF Allocated, Pool
  <2>9. cacheHeap' = {} /\ datasetHeap' = {}
    BY <1>3, <1>7 DEF ReseedDestroy
  <2> QED
    BY <1>4, <2>2, <2>3, <2>6, <2>8, <2>9 DEF RxInv
<1>8. CASE AllocCache(t)
  <2>1. /\ pc[t] = "cache" /\ rxMutex = t /\ vms = <<>>
        /\ rxCache = NoBuild /\ rxDataset = NoBuild
    BY <1>5, <1>8 DEF AllocCache, RxInv, Stage
  <2>2. UNCHANGED <<vms, vmHeap, rxDataset, datasetHeap>>
    BY <1>8 DEF AllocCache
  <2>3. \/ /\ pc'[t] = "dataset" /\ rxMutex' = t /\ rxCache' \in Builds
           /\ cacheHeap' = cacheHeap \cup {rxCache'}
        \/ /\ pc'[t] = "done" /\ rxMutex' = NoThread
           /\ UNCHANGED <<rxCache, cacheHeap>>
    <3>1. CASE ~(Builds \subseteq BuildsInUse)
      <4>1. NextBuild \in Builds
        BY <3>1 DEF NextBuild
      <4> QED
        BY <1>8, <2>1, <4>1 DEF AllocCache, RebuildFails, Return, TypeOK, ThreadTypeOK
    <3>2. CASE Builds \subseteq BuildsInUse
      BY <1>8, <3>2 DEF AllocCache, RebuildFails, Return, TypeOK, ThreadTypeOK
    <3> QED
      BY <3>1, <3>2
  <2>4. RebuildAlone'
    BY <1>5, <1>6, <2>1, <2>3 DEF RebuildAlone
  <2>5. \A k \in 1 .. Len(vms') : FALSE
    BY <2>1, <2>2
  <2>6. Stage' /\ FullCurrent'
    BY <1>5, <1>6, <2>1, <2>2, <2>3, <2>5 DEF Stage, FullCurrent
  <2>7. /\ Allocated' = Pool'
        /\ cacheHeap' = {rxCache'} \ {NoBuild}
        /\ datasetHeap' = {rxDataset'} \ {NoBuild}
    BY <1>3, <2>1, <2>2, <2>3 DEF Pool, Allocated
  <2> QED
    BY <1>4, <2>4, <2>6, <2>7 DEF RxInv
<1>9. CASE AllocDataset(t)
  <2>1. /\ pc[t] = "dataset" /\ rxMutex = t /\ vms = <<>>
        /\ rxCache # NoBuild /\ rxDataset = NoBuild
    BY <1>5, <1>9 DEF AllocDataset, RxInv, Stage
  <2>2. UNCHANGED <<vms, vmHeap>>
    BY <1>9 DEF AllocDataset
  <2>3. \/ /\ pc'[t] = "vms" /\ rxMutex' = t
           /\ rxDataset' = rxCache /\ datasetHeap' = datasetHeap \cup {rxCache}
           /\ UNCHANGED <<rxCache, cacheHeap>>
        \/ /\ pc'[t] = "done" /\ rxMutex' = NoThread
           /\ rxCache' = NoBuild /\ cacheHeap' = cacheHeap \ {rxCache}
           /\ UNCHANGED <<rxDataset, datasetHeap>>
    BY <1>9, <2>1 DEF AllocDataset, RebuildFails, Return, CacheAfterDatasetFailure,
       TypeOK, ThreadTypeOK
  <2>4. RebuildAlone'
    BY <1>5, <1>6, <2>1, <2>3 DEF RebuildAlone
  <2>5. \A k \in 1 .. Len(vms') : FALSE
    BY <2>1, <2>2
  <2>6. Stage' /\ FullCurrent'
    BY <1>5, <1>6, <2>1, <2>2, <2>3, <2>5 DEF Stage, FullCurrent
  <2>7. /\ Allocated' = Pool'
        /\ cacheHeap' = {rxCache'} \ {NoBuild}
        /\ datasetHeap' = {rxDataset'} \ {NoBuild}
    BY <1>3, <2>1, <2>2, <2>3 DEF Pool, Allocated
  <2> QED
    BY <1>4, <2>4, <2>6, <2>7 DEF RxInv
<1>10. CASE CreateVm(t)
  <2>1. /\ pc[t] = "vms" /\ rxMutex = t /\ Len(vms) < NumThreads
        /\ rxCache # NoBuild /\ rxDataset = rxCache
    BY <1>5, <1>10 DEF CreateVm, RxInv, Stage
  <2>2. UNCHANGED <<rxCache, cacheHeap, rxDataset, datasetHeap>>
    BY <1>10 DEF CreateVm
  <2>3. RebuildAlone'
    BY <1>5, <1>6, <1>10, <2>1 DEF RebuildAlone, CreateVm, RebuildFails, Return, TypeOK,
       ThreadTypeOK
  <2>4. CASE RebuildFails(t) /\ UNCHANGED <<vms, vmHeap>>
    <3>1. rxMutex' = NoThread /\ pc'[t] = "done" /\ UNCHANGED <<vms, vmHeap>>
      BY <2>4 DEF RebuildFails, Return, TypeOK, ThreadTypeOK
    <3>2. Stage' /\ FullCurrent'
      BY <1>2, <1>5, <1>6, <2>1, <2>2, <3>1 DEF RxInv, Stage, FullCurrent
    <3> QED
      BY <1>3, <1>4, <2>2, <2>3, <3>1, <3>2 DEF RxInv, Pool, Allocated
  <2>5. CASE \E a \in Addresses \ Allocated :
               /\ vms' = Append(vms, a)
               /\ vmHeap' = [vmHeap EXCEPT ![a] =
                               [build |-> rxCache, seed |-> job[t].seed]]
               /\ UNCHANGED <<rxMutex, pc, localVars>>
    <3>1. PICK a \in Addresses \ Allocated :
               /\ vms' = Append(vms, a)
               /\ vmHeap' = [vmHeap EXCEPT ![a] =
                               [build |-> rxCache, seed |-> job[t].seed]]
               /\ UNCHANGED <<rxMutex, pc, localVars>>
      BY <2>5
    <3>2. /\ Len(vms') = Len(vms) + 1 /\ Len(vms) \in Nat
          /\ \A k \in 1 .. Len(vms) : vms'[k] = vms[k]
          /\ vms'[Len(vms) + 1] = a
      BY <3>1, LenProperties DEF TypeOK, RxTypeOK
    <3>3. \A k \in 1 .. Len(vms') : k \in 1 .. Len(vms) \/ k = Len(vms) + 1
      BY <3>2
    <3>4. \A k \in 1 .. Len(vms) : vms[k] \in Addresses /\ vms[k] \in Allocated
      BY <1>3, PoolByPlaces
    <3>5. \A k \in 1 .. Len(vms) : vmHeap'[vms'[k]] = vmHeap[vms[k]]
      BY <3>1, <3>2, <3>4 DEF TypeOK, RxTypeOK
    <3>6. vmHeap'[a] = [build |-> rxCache, seed |-> job[t].seed]
      BY <3>1 DEF TypeOK, RxTypeOK
    <3>7. \A k \in 1 .. Len(vms') : /\ vmHeap'[vms'[k]].build = rxCache'
                                    /\ vmHeap'[vms'[k]].seed = job'[t].seed
      <4>1. job' = job
        BY <3>1 DEF localVars
      <4>2. \A k \in 1 .. Len(vms) : /\ vmHeap[vms[k]].build = rxCache
                                     /\ vmHeap[vms[k]].seed = job[t].seed
        BY <1>2, <2>1 DEF RxInv, Stage
      <4> QED
        BY <2>2, <3>2, <3>3, <3>5, <3>6, <4>1, <4>2
    <3>8. \A i, j \in 1 .. Len(vms') : vms'[i] = vms'[j] => i = j
      BY <3>2, <3>3, <3>4 DEF RxInv, Stage
    <3>9. Stage' /\ FullCurrent'
      <4>1. \A u \in Threads : pc'[u] \in Rebuilding => u = t /\ pc'[u] = "vms"
        BY <1>5, <2>1, <3>1
      <4>2. Len(vms') <= NumThreads /\ rxMutex' # NoThread
        BY <2>1, <3>1, <3>2
      <4> QED
        BY <2>1, <2>2, <3>7, <3>8, <4>1, <4>2 DEF Stage, FullCurrent
    <3>10. Pool' = Pool \cup {a}
      <4>1. DOMAIN vms = 1 .. Len(vms) /\ DOMAIN vms' = 1 .. Len(vms')
        BY <3>1, <3>2, LenProperties DEF TypeOK, RxTypeOK
      <4> QED
        BY <3>2, <3>3, <4>1 DEF Pool
    <3>11. Allocated' = Allocated \cup {a}
      <4>1. [build |-> rxCache, seed |-> job[t].seed] # Free
        <5>1. job[t].seed \in SeedHash
          BY <2>1 DEF LocalsOK, WithJob, Labels, Job
        <5> QED
          BY <5>1 DEF Vm, TypeOK, RxTypeOK
      <4>2. \A b \in Addresses \ {a} : vmHeap'[b] = vmHeap[b]
        BY <3>1 DEF TypeOK, RxTypeOK
      <4> QED
        BY <3>1, <3>6, <4>1, <4>2 DEF Allocated
    <3> QED
      BY <1>3, <1>4, <2>2, <2>3, <3>9, <3>10, <3>11 DEF RxInv
  <2> QED
    BY <1>10, <2>4, <2>5 DEF CreateVm
<1>11. CASE RebuildDone(t)
  <2>1. /\ pc[t] = "vms" /\ rxMutex = t /\ rxCache # NoBuild /\ rxDataset = rxCache
        /\ \A k \in 1 .. Len(vms) : vmHeap[vms[k]].seed = job[t].seed
    BY <1>5, <1>11 DEF RebuildDone, RxInv, Stage
  <2>2. /\ UNCHANGED <<vms, vmHeap, rxCache, cacheHeap, rxDataset, datasetHeap, job>>
        /\ currentSeed' = job[t].seed /\ rxMutex' = NoThread /\ pc'[t] = "retake"
    BY <1>11 DEF RebuildDone, SeedBuilt, localVars, TypeOK, ThreadTypeOK
  <2>3. RebuildAlone'
    BY <1>5, <1>6, <2>1, <2>2 DEF RebuildAlone
  <2>4. Stage' /\ FullCurrent'
    BY <1>2, <1>5, <1>6, <2>1, <2>2 DEF RxInv, Stage, FullCurrent
  <2> QED
    BY <1>3, <1>4, <2>2, <2>3, <2>4 DEF RxInv, Pool, Allocated
<1> QED
  BY <1>7, <1>8, <1>9, <1>10, <1>11

LEMMA RxStep ==
  ASSUME TypeOK, LocalsOK, RxInv, [Next]_vars
  PROVE  RxInv'
<1> USE DEF Goto, At, Rebuilding
<1>1. ASSUME NEW t \in Threads,
             WaitStopped(t) \/ WaitOver(t) \/ Take(t) \/ LoopStopped(t) \/ CopyJob(t)
      PROVE  RxInv'
  <2>1. UNCHANGED rxVars /\ owner' = owner
    BY <1>1, LocalSteps DEF WaitStopped, WaitOver, Take, LoopStopped, CopyJob
  <2>2. pc[t] \in {"wait", "take", "loop"}
    BY <1>1 DEF WaitStopped, WaitOver, Take, LoopStopped, CopyJob
  <2>3. /\ pc'[t] \in {"done", "take", "loop", "reseed", "batch"}
        /\ \A u \in Threads \ {t} : pc'[u] = pc[u] /\ job'[u] = job[u]
    BY <1>1 DEF WaitStopped, WaitOver, Take, LoopStopped, CopyJob, StartBatch,
       Return, localVars, TypeOK, ThreadTypeOK
  <2> QED
    BY <2>1, <2>2, <2>3, RxQuietStep
<1>2. ASSUME NEW t \in Threads, ReseedUpToDate(t) \/ Retake(t)
      PROVE  RxInv'
  <2>1. UNCHANGED rxVars /\ owner' = owner
    BY <1>2, LocalSteps DEF ReseedUpToDate, Retake
  <2>2. pc[t] \in {"reseed", "retake"}
    BY <1>2 DEF ReseedUpToDate, Retake
  <2>3. /\ pc'[t] \in {"retake", "done", "batch"}
        /\ \A u \in Threads \ {t} : pc'[u] = pc[u] /\ job'[u] = job[u]
    BY <1>2 DEF ReseedUpToDate, Retake, StartBatch, Return, localVars, TypeOK,
       ThreadTypeOK
  <2> QED
    BY <2>1, <2>2, <2>3, RxQuietStep
<1>3. ASSUME NEW t \in Threads,
             \/ SeeFlag(t) \/ AckFlag(t) \/ EndBatch(t) \/ HashBegin(t)
             \/ HashEnd(t) \/ HashCrash(t) \/ Submit(t) \/ Flush(t)
      PROVE  RxInv'
  <2>1. UNCHANGED rxVars /\ owner' \in {owner, "crashed"} /\ job' = job
    BY <1>3, LocalSteps DEF SeeFlag, AckFlag, EndBatch, HashBegin, HashEnd,
       HashCrash, Submit, Flush, localVars
  <2>2. pc[t] \in {"batch", "ack", "hash", "submit", "flush"}
    BY <1>3 DEF SeeFlag, AckFlag, EndBatch, HashBegin, HashEnd, HashCrash,
       Submit, Flush
  <2>3. /\ pc'[t] \in {"batch", "ack", "hash", "submit", "flush", "loop"}
        /\ \A u \in Threads \ {t} : pc'[u] = pc[u]
    BY <1>3 DEF SeeFlag, AckFlag, EndBatch, HashBegin, HashEnd, HashCrash,
       Submit, Flush, TypeOK, ThreadTypeOK
  <2> QED
    BY <2>1, <2>2, <2>3, RxQuietStep
<1>4. CASE Destroy
  <2>1. \A t \in Threads : pc[t] = "done"
    BY <1>4 DEF Destroy, AllJoined
  <2>2. rxMutex = NoThread
    BY <2>1 DEF RxInv, RebuildAlone, TypeOK, RxTypeOK
  <2>3. /\ owner = "joining" /\ owner' = "destroyed"
        /\ UNCHANGED <<pc, job, rxMutex, vms, currentSeed, rxCache, rxDataset>>
    BY <1>4 DEF Destroy, localVars
  <2>4. Allocated' = {} /\ cacheHeap' = {} /\ datasetHeap' = {}
    BY <1>4, <2>3 DEF Destroy, WithoutPool, RxInv, Ownership, Allocated
  <2>5. Ownership' /\ TeardownQuiet' /\ RebuildAlone'
    BY <2>1, <2>3, <2>4 DEF RxInv, Ownership, TeardownQuiet, RebuildAlone
  <2>6. Stage' /\ FullCurrent'
    BY <2>1, <2>3 DEF RxInv, Stage, FullCurrent
  <2> QED
    BY <2>5, <2>6 DEF RxInv
<1>5. ASSUME NEW s \in SeedHash, NEW w \in BOOLEAN, StoreJob(s, w)
      PROVE  RxInv'
  BY <1>5, RxIdleStep DEF StoreJob, localVars
<1>6. CASE RaiseFlag \/ StopRequest \/ Terminated \/ UNCHANGED vars
  BY <1>6, RxIdleStep DEF RaiseFlag, StopRequest, Terminated, vars, localVars
<1> QED
  BY <1>1, <1>2, <1>3, <1>4, <1>5, <1>6, RxRebuildStep DEF Next, MiningThread

\* The state invariants of the RandomX objects hold in every reachable state:
\* one thread rebuilds at a time, nothing leaks or dangles in a member,
\* the VMs of m_rx_vms have their cache and dataset, a full vector (and only a
\* full one) belongs to m_current_seed_hash, and the destructor runs after the
\* last thread.
THEOREM RebuildCorrect ==
  Spec => [](RebuildAlone /\ RebuildSound)
<1>1. TypeOK /\ LocalsOK /\ RxInv /\ [Next]_vars => RxInv'
  BY RxStep
<1>2. TypeOK /\ RxInv => VectorBacked /\ FullVectorCurrent
  <2> SUFFICES ASSUME TypeOK, RxInv PROVE VectorBacked /\ FullVectorCurrent
    OBVIOUS
  <2>1. DOMAIN vms = 1 .. Len(vms) /\ Len(vms) \in Nat
    BY LenProperties DEF TypeOK, RxTypeOK
  <2>2. FullVectorCurrent
    BY <2>1 DEF RxInv, FullCurrent, FullVectorCurrent
  <2>3. ASSUME owner # "destroyed", NEW k \in DOMAIN vms
        PROVE  /\ vmHeap[vms[k]].build = rxCache /\ rxCache = rxDataset
               /\ rxDataset \in datasetHeap /\ rxCache \in cacheHeap
    <3>1. vms # <<>>
      BY <2>1, <2>3, EmptySeq
    <3> QED
      BY <2>1, <2>3, <3>1 DEF RxInv, Stage, Ownership
  <2> QED
    BY <2>2, <2>3 DEF VectorBacked
<1>3. RxInv => RebuildAlone /\ Ownership /\ TeardownQuiet
  BY DEF RxInv
<1> QED
  BY RxInit, TypeCorrect, <1>1, <1>2, <1>3, PTL DEF Spec, RebuildSound

\* A full m_rx_vms that can be seen is of m_current_seed_hash, for any number of
\* threads and any failures of allocations.
THEOREM FullVectorsAreCurrent == Spec => []FullVectorCurrent
  BY RebuildCorrect, PTL DEF RebuildSound

\* Every VM of m_rx_vms reads a cache and a dataset that exist.
THEOREM VmsAreBacked == Spec => []VectorBacked
  BY RebuildCorrect, PTL DEF RebuildSound

\* The destructor releases RandomX only after the last thread has returned.
THEOREM TeardownIsQuiet == Spec => []TeardownQuiet
  BY RebuildCorrect, PTL DEF RebuildSound

-----------------------------------------------------------------------------
(* What the threads hold                                                   *)

\* The places at which a thread of the main loop has a VM.
Holding == {"loop", "reseed", "batch", "ack", "hash", "submit", "flush"}

\* What the thread holds is still its place in m_rx_vms, and of its seed.
Taken(t) ==
  /\ t < Len(vms)
  /\ vm[t] = vms[t + 1]
  /\ lastSeed[t] # NoSeed => vmHeap[vms[t + 1]].seed = lastSeed[t]

\* AssuredVm is not inductive: nobody is assured while a rebuild runs, and a
\* thread between its look and its taking of the VM must find what it saw.
CheckedInv ==
  /\ rxMutex # NoThread => checked = {}
  /\ \A t \in Threads :
       /\ pc[t] \in {"wait", "take"} => lastSeed[t] = NoSeed
       /\ pc[t] \in Holding \ {"loop", "reseed"} => job[t].seed = lastSeed[t]
       /\ t \in checked =>
            /\ pc[t] = "take" => t < Len(vms)
            /\ pc[t] = "retake" => Len(vms) = NumThreads /\ currentSeed = job[t].seed
            /\ pc[t] \in Holding => Taken(t)

\* A step of one thread that leaves the RandomX objects and the other threads
\* alone only has to do right by that thread.
LEMMA CheckedLocalStep ==
  ASSUME TypeOK, CheckedInv, NEW t \in Threads, UNCHANGED rxVars,
         checked' = checked \/ rxMutex = NoThread,
         checked' \ {t} \subseteq checked,
         \A u \in Threads \ {t} : /\ pc'[u] = pc[u] /\ job'[u] = job[u]
                                  /\ vm'[u] = vm[u] /\ lastSeed'[u] = lastSeed[u],
         pc'[t] \in {"wait", "take"} => lastSeed'[t] = NoSeed,
         pc'[t] \in Holding \ {"loop", "reseed"} => job'[t].seed = lastSeed'[t],
         t \in checked' =>
           /\ pc'[t] = "take" => t < Len(vms)
           /\ pc'[t] = "retake" => Len(vms) = NumThreads /\ currentSeed = job'[t].seed
           /\ pc'[t] \in Holding => Taken(t)'
  PROVE  CheckedInv'
<1>1. (rxMutex # NoThread => checked = {})'
  BY DEF CheckedInv, rxVars
<1>2. ASSUME NEW u \in Threads \ {t}, u \in checked', pc'[u] \in Holding
      PROVE  Taken(u)'
  <2>1. u \in checked /\ pc[u] \in Holding
    BY <1>2
  <2>2. Taken(u)
    BY <2>1 DEF CheckedInv
  <2> QED
    BY <2>2 DEF Taken, rxVars
<1> QED
  BY <1>1, <1>2 DEF CheckedInv, rxVars

LEMMA CheckedRebuildStep ==
  ASSUME TypeOK, LocalsOK, RxInv, CheckedInv, NEW t \in Threads,
         \/ ReseedDestroy(t) \/ AllocCache(t) \/ AllocDataset(t)
         \/ CreateVm(t) \/ RebuildDone(t)
  PROVE  CheckedInv'
<1> USE DEF At, Goto, TypeOK, ThreadTypeOK, Rebuilding
<1>1. CASE ReseedDestroy(t)
  BY <1>1 DEF ReseedDestroy, CheckedInv, Holding, localVars
<1>2. ASSUME AllocCache(t) \/ AllocDataset(t) \/ CreateVm(t) \/ RebuildDone(t)
      PROVE  checked = {}
  <2>1. rxMutex = t
    BY <1>2 DEF AllocCache, AllocDataset, CreateVm, RebuildDone, RxInv, RebuildAlone
  <2> QED
    BY <2>1, EngineAssumption DEF CheckedInv
<1>3. CASE AllocCache(t) \/ AllocDataset(t) \/ CreateVm(t)
  <2>1. checked' = {}
    BY <1>2, <1>3 DEF AllocCache, AllocDataset, CreateVm
  <2>2. \/ Return(t)
        \/ /\ UNCHANGED localVars
           /\ pc' = pc \/ \E l \in {"dataset", "vms"} : pc' = [pc EXCEPT ![t] = l]
    BY <1>3 DEF AllocCache, AllocDataset, CreateVm, RebuildFails
  <2>3. CASE Return(t)
    BY <2>1, <2>3 DEF CheckedInv, Return, Holding
  <2>4. CASE /\ UNCHANGED localVars
             /\ pc' = pc \/ \E l \in {"dataset", "vms"} : pc' = [pc EXCEPT ![t] = l]
    BY <2>1, <2>4 DEF CheckedInv, localVars, Holding
  <2> QED
    BY <2>2, <2>3, <2>4
<1>4. CASE RebuildDone(t)
  <2>1. checked' = {t} /\ rxMutex' = NoThread /\ UNCHANGED localVars
    BY <1>2, <1>4 DEF RebuildDone
  <2>2. /\ pc' = [pc EXCEPT ![t] = "retake"]
        /\ Len(vms') = NumThreads /\ currentSeed' = job[t].seed
    BY <1>4 DEF RebuildDone, SeedBuilt
  <2> QED
    BY <2>1, <2>2 DEF CheckedInv, localVars, Holding
<1> QED
  BY <1>1, <1>3, <1>4

LEMMA CheckedThreadStep ==
  ASSUME TypeOK, LocalsOK, RxInv, CheckedInv, NEW t \in Threads, MiningThread(t)
  PROVE  CheckedInv'
<1> USE DEF At, Goto, TypeOK, ThreadTypeOK
<1>1. CASE WaitStopped(t) \/ LoopStopped(t)
  <2>1. Return(t) /\ UNCHANGED <<rxVars, checked>>
    BY <1>1 DEF WaitStopped, LoopStopped
  <2> QED
    BY <2>1, CheckedLocalStep DEF Return, Holding
<1>2. CASE WaitOver(t)
  <2>1. /\ pc[t] = "wait" /\ pc' = [pc EXCEPT ![t] = "take"]
        /\ UNCHANGED <<rxVars, localVars>>
        /\ checked' = checked \cup {t} /\ rxMutex = NoThread /\ t < Len(vms)
    BY <1>2 DEF WaitOver, MutexFree, VmReady
  <2>2. lastSeed[t] = NoSeed
    BY <2>1 DEF CheckedInv
  <2> QED
    BY <2>1, <2>2, CheckedLocalStep DEF localVars, Holding
<1>3. CASE Take(t)
  <2>1. /\ pc[t] = "take" /\ pc' = [pc EXCEPT ![t] = "loop"]
        /\ vm' = [vm EXCEPT ![t] = TakenVm(t)]
        /\ UNCHANGED <<rxVars, job, lastSeed, checked>>
    BY <1>3 DEF Take
  <2>2. lastSeed[t] = NoSeed /\ (t \in checked => t < Len(vms))
    BY <2>1 DEF CheckedInv
  <2>3. t \in checked => Taken(t)'
    BY <2>1, <2>2 DEF Taken, TakenVm, rxVars
  <2> QED
    BY <2>1, <2>2, <2>3, CheckedLocalStep DEF Holding
<1>4. CASE CopyJob(t)
  <2>1. /\ pc[t] = "loop" /\ UNCHANGED <<rxVars, vm, lastSeed, checked>>
        /\ job' = [job EXCEPT ![t] = currentJob]
    BY <1>4 DEF CopyJob, JobCopy
  <2>2. \/ pc' = [pc EXCEPT ![t] = "reseed"]
        \/ pc' = [pc EXCEPT ![t] = "batch"] /\ currentJob.seed = lastSeed[t]
    BY <1>4 DEF CopyJob, JobCopy, StartBatch
  <2>3. t \in checked => Taken(t)
    BY <2>1 DEF CheckedInv, Holding
  <2>4. t \in checked => Taken(t)'
    BY <2>1, <2>3 DEF Taken, rxVars
  <2> QED
    BY <2>1, <2>2, <2>4, CheckedLocalStep DEF Holding
<1>5. CASE ReseedUpToDate(t)
  <2>1. /\ pc[t] = "reseed" /\ pc' = [pc EXCEPT ![t] = "retake"]
        /\ rxMutex = NoThread /\ UNCHANGED <<rxVars, localVars>>
        /\ job[t].seed = currentSeed
        /\ checked' = IF Len(vms) = NumThreads THEN checked \cup {t} ELSE checked \ {t}
    BY <1>5 DEF ReseedUpToDate, MutexFree, UpToDate
  <2> QED
    BY <2>1, CheckedLocalStep DEF Holding, localVars
<1>6. CASE Retake(t)
  <2>1. CASE t >= Len(vms)
    <3>1. Return(t) /\ UNCHANGED <<rxVars, checked>>
      BY <1>6, <2>1 DEF Retake
    <3> QED
      BY <3>1, CheckedLocalStep DEF Return, Holding
  <2>2. CASE ~(t >= Len(vms))
    <3>1. /\ pc[t] = "retake" /\ pc' = [pc EXCEPT ![t] = "batch"]
          /\ vm' = [vm EXCEPT ![t] = TakenVm(t)]
          /\ lastSeed' = [lastSeed EXCEPT ![t] = job[t].seed]
          /\ rxMutex = NoThread
          /\ UNCHANGED <<rxVars, job, checked>>
      BY <1>6, <2>2 DEF Retake, StartBatch, MutexFree
    <3>2. t \in Int /\ Len(vms) \in Nat
      BY PoolByPlaces, EngineAssumption DEF Threads
    <3>3. t < Len(vms) /\ t + 1 \in 1 .. Len(vms)
      BY <2>2, <3>2, EngineAssumption DEF Threads
    <3>4. owner # "destroyed"
      BY <3>1 DEF RxInv, TeardownQuiet
    <3>5. t \in checked => vmHeap[vms[t + 1]].seed = job[t].seed
      BY <3>1, <3>3, <3>4 DEF CheckedInv, RxInv, FullCurrent
    <3>6. t \in checked => Taken(t)'
      BY <3>1, <3>3, <3>5 DEF Taken, TakenVm, rxVars
    <3> QED
      BY <3>1, <3>6, CheckedLocalStep DEF Holding
  <2> QED
    BY <2>1, <2>2
<1>7. CASE \/ SeeFlag(t) \/ AckFlag(t) \/ EndBatch(t) \/ HashBegin(t)
           \/ HashEnd(t) \/ HashCrash(t) \/ Submit(t) \/ Flush(t)
  <2>1. /\ pc[t] \in Holding \ {"loop", "reseed"}
        /\ UNCHANGED <<rxVars, vm, job, lastSeed, checked>>
        /\ pc' = pc \/ \E l \in Holding \ {"reseed"} : pc' = [pc EXCEPT ![t] = l]
    BY <1>7 DEF SeeFlag, AckFlag, EndBatch, HashBegin, HashEnd, HashCrash, Submit,
       Flush, localVars, Holding
  <2>2. job[t].seed = lastSeed[t] /\ (t \in checked => Taken(t))
    BY <2>1 DEF CheckedInv
  <2>3. t \in checked => Taken(t)'
    BY <2>1, <2>2 DEF Taken, rxVars
  <2> QED
    BY <2>1, <2>2, <2>3, CheckedLocalStep DEF Holding
<1> QED
  BY <1>1, <1>2, <1>3, <1>4, <1>5, <1>6, <1>7, CheckedRebuildStep DEF MiningThread

LEMMA CheckedStep ==
  ASSUME TypeOK, LocalsOK, RxInv, CheckedInv, [Next]_vars
  PROVE  CheckedInv'
<1>1. ASSUME UNCHANGED <<rxVars, pc, localVars, checked>> PROVE CheckedInv'
  BY <1>1 DEF CheckedInv, Taken, rxVars, localVars
<1>2. ASSUME NEW s \in SeedHash, NEW w \in BOOLEAN, StoreJob(s, w)
      PROVE  CheckedInv'
  BY <1>1, <1>2 DEF StoreJob
<1>3. CASE Destroy
  <2>1. \A t \in Threads : pc[t] = "done"
    BY <1>3 DEF Destroy, AllJoined
  <2>2. UNCHANGED <<rxMutex, pc, localVars, checked>>
    BY <1>3 DEF Destroy
  <2> QED
    BY <2>1, <2>2 DEF CheckedInv, Holding
<1>4. CASE RaiseFlag \/ StopRequest \/ Terminated \/ UNCHANGED vars
  BY <1>1, <1>4 DEF RaiseFlag, StopRequest, Terminated, vars
<1> QED
  BY <1>2, <1>3, <1>4, CheckedThreadStep DEF Next

\* For any number of threads, whatever allocations fail and whatever addresses
\* come back: until a rebuild begins, a thread that has looked has a VM of its
\* own, which exists and works for the seed of its job.
THEOREM AssuredVmsAreSafe == Spec => []AssuredVm
<1>1. Init => CheckedInv
  BY DEF Init, CheckedInv, Holding
<1>2. TypeOK /\ RxInv /\ CheckedInv => AssuredVm
  <2> SUFFICES ASSUME TypeOK, RxInv, CheckedInv, NEW t \in Threads, Assured(t)
               PROVE  /\ vm[t] \in Allocated
                      /\ \A u \in Threads \ {t} : Assured(u) => vm[u] # vm[t]
                      /\ pc[t] \notin {"loop", "reseed"} /\ job[t].seed # NoSeed =>
                           vmHeap[vm[t]].seed = job[t].seed
    BY DEF AssuredVm
  <2>1. ASSUME NEW u \in Threads, Assured(u)
        PROVE  Taken(u) /\ u + 1 \in 1 .. Len(vms) /\ pc[u] # "done" /\ pc[u] \in Holding
    <3>1. Taken(u) /\ pc[u] # "done" /\ pc[u] \in Holding
      BY <2>1 DEF Assured, CheckedInv, Holding
    <3>2. u \in Nat /\ Len(vms) \in Nat
      BY PoolByPlaces, EngineAssumption DEF Threads
    <3> QED
      BY <3>1, <3>2 DEF Taken
  <2>2. Taken(t) /\ t + 1 \in 1 .. Len(vms) /\ pc[t] # "done" /\ pc[t] \in Holding
    BY <2>1
  <2>3. Allocated = Pool
    BY <2>2 DEF RxInv, TeardownQuiet, Ownership
  <2>4. vm[t] \in Allocated
    BY <2>2, <2>3, PoolByPlaces DEF Taken
  <2>5. ASSUME NEW u \in Threads \ {t}, Assured(u) PROVE vm[u] # vm[t]
    <3>1. Taken(u) /\ u + 1 \in 1 .. Len(vms)
      BY <2>1, <2>5
    <3>2. u + 1 # t + 1
      BY <2>5, EngineAssumption DEF Threads
    <3> QED
      BY <2>2, <3>1, <3>2 DEF Taken, RxInv, Stage
  <2>6. pc[t] \notin {"loop", "reseed"} => job[t].seed = lastSeed[t]
    BY <2>2 DEF CheckedInv
  <2>7. pc[t] \notin {"loop", "reseed"} /\ job[t].seed # NoSeed =>
          vmHeap[vm[t]].seed = job[t].seed
    BY <2>2, <2>6 DEF Taken
  <2> QED
    BY <2>4, <2>5, <2>7
<1>3. TypeOK /\ LocalsOK /\ RxInv /\ CheckedInv /\ [Next]_vars => (RxInv /\ CheckedInv)'
  BY RxStep, CheckedStep
<1> QED
  BY RxInit, <1>1, <1>2, <1>3, TypeCorrect, PTL DEF Spec

\* The start a behaviour began from stays what it was.
LEMMA WarmSeedKept == ASSUME [Next]_vars PROVE warmSeed' = warmSeed
<1>1. ASSUME NEW t \in Threads, MiningThread(t) PROVE warmSeed' = warmSeed
  BY <1>1 DEF MiningThread, WaitStopped, WaitOver, Take, LoopStopped, CopyJob,
     ReseedUpToDate, ReseedDestroy, AllocCache, AllocDataset, CreateVm,
     RebuildDone, Retake, SeeFlag, AckFlag, EndBatch, HashBegin, HashEnd,
     HashCrash, Submit, Flush, rxVars
<1>2. ASSUME NEW s \in SeedHash, NEW w \in BOOLEAN, StoreJob(s, w)
      PROVE  warmSeed' = warmSeed
  BY <1>2 DEF StoreJob, rxVars
<1> QED
  BY <1>1, <1>2 DEF Next, RaiseFlag, StopRequest, Destroy, Terminated, vars, rxVars

\* The shipped start never leads to a VM, whatever the pool sends and however
\* many threads there are.
THEOREM ColdStartNeverMines == Spec => []ColdStartIdle
<1>1. Init => ColdStartIdle
  BY DEF Init, ColdStartIdle
<1>2. TypeOK /\ ColdStartIdle /\ [Next]_vars => ColdStartIdle'
  <2> SUFFICES ASSUME TypeOK, ColdStartIdle, [Next]_vars, warmSeed = NoSeed
               PROVE  vms' = <<>> /\ \A t \in Threads : pc'[t] \in {"wait", "done"}
    BY WarmSeedKept DEF ColdStartIdle
  <2> USE DEF At, Goto, TypeOK, ThreadTypeOK
  <2>1. vms = <<>> /\ \A t \in Threads : pc[t] \in {"wait", "done"}
    BY DEF ColdStartIdle
  <2>2. ASSUME NEW t \in Threads, MiningThread(t) PROVE WaitStopped(t)
    <3>1. ~WaitOver(t)
      BY <2>1, EngineAssumption DEF WaitOver, VmReady, Threads
    <3> QED
      BY <2>1, <2>2, <3>1 DEF MiningThread, Take, LoopStopped, CopyJob,
         ReseedUpToDate, ReseedDestroy, AllocCache, AllocDataset, CreateVm,
         RebuildDone, Retake, SeeFlag, AckFlag, EndBatch, HashBegin, HashEnd,
         HashCrash, Submit, Flush
  <2>3. ASSUME NEW t \in Threads, WaitStopped(t)
        PROVE  vms' = <<>> /\ \A u \in Threads : pc'[u] \in {"wait", "done"}
    BY <2>1, <2>3 DEF WaitStopped, Return, rxVars
  <2>4. ASSUME NEW s \in SeedHash, NEW w \in BOOLEAN, StoreJob(s, w)
        PROVE  vms' = <<>> /\ pc' = pc
    BY <2>1, <2>4 DEF StoreJob, rxVars
  <2>5. ASSUME RaiseFlag \/ StopRequest \/ Destroy \/ Terminated \/ UNCHANGED vars
        PROVE  vms' = <<>> /\ pc' = pc
    BY <2>1, <2>5 DEF RaiseFlag, StopRequest, Destroy, Terminated, vars, rxVars
  <2> QED
    BY <2>1, <2>2, <2>3, <2>4, <2>5 DEF Next
<1> QED
  BY <1>1, <1>2, TypeCorrect, PTL DEF Spec

\* While the pool keeps to warmSeed nobody rebuilds, so what a thread has
\* taken stays in m_rx_vms.
SteadyInv ==
  warmSeed # NoSeed /\ steady =>
    /\ rxMutex = NoThread
    /\ Len(vms) = NumThreads
    /\ currentSeed = warmSeed
    /\ currentJob # NoJob => currentJob.seed = warmSeed
    /\ \A t \in Threads : /\ job[t] # NoJob => job[t].seed = warmSeed
                          /\ vm[t] # NoVm => vm[t] \in Pool
                          /\ vm[t] = NoVm => pc[t] \in {"wait", "take", "done"}

LEMMA SteadyInit == Init => SteadyInv
<1> SUFFICES ASSUME Init, warmSeed # NoSeed PROVE SteadyInv
  BY DEF SteadyInv
<1>1. Len(vms) = NumThreads
  <2>1. vms \in FullVectors
    BY EngineAssumption DEF Init
  <2>2. DOMAIN vms = 1 .. NumThreads
    BY <2>1 DEF FullVectors
  <2>3. DOMAIN vms = 1 .. Len(vms) /\ Len(vms) \in Nat
    BY TypeInit, LenProperties DEF TypeOK, RxTypeOK
  <2> QED
    BY <2>2, <2>3, EngineAssumption
<1> QED
  BY <1>1 DEF Init, SteadyInv

LEMMA SteadyStep ==
  ASSUME TypeOK, LocalsOK, RxInv, SteadyInv, [Next]_vars
  PROVE  SteadyInv'
<1> SUFFICES ASSUME warmSeed # NoSeed, steady'
             PROVE  SteadyInv'
  BY WarmSeedKept DEF SteadyInv
<1> USE DEF At, Goto, TypeOK, ThreadTypeOK
<1>1. steady
  <2>1. ASSUME NEW t \in Threads, MiningThread(t) PROVE steady' = steady
    BY <2>1 DEF MiningThread, WaitStopped, WaitOver, Take, LoopStopped, CopyJob,
       ReseedUpToDate, ReseedDestroy, AllocCache, AllocDataset, CreateVm,
       RebuildDone, Retake, SeeFlag, AckFlag, EndBatch, HashBegin, HashEnd,
       HashCrash, Submit, Flush, jobVars
  <2>2. ASSUME NEW s \in SeedHash, NEW w \in BOOLEAN, StoreJob(s, w)
        PROVE  steady
    BY <2>2 DEF StoreJob
  <2> QED
    BY <2>1, <2>2 DEF Next, RaiseFlag, StopRequest, Destroy, Terminated, vars, jobVars
<1>2. /\ rxMutex = NoThread /\ Len(vms) = NumThreads /\ currentSeed = warmSeed
      /\ currentJob # NoJob => currentJob.seed = warmSeed
      /\ \A t \in Threads : /\ job[t] # NoJob => job[t].seed = warmSeed
                            /\ vm[t] # NoVm => vm[t] \in Pool
                            /\ vm[t] = NoVm => pc[t] \in {"wait", "take", "done"}
  BY <1>1 DEF SteadyInv
<1>3. \A t \in Threads : pc[t] \notin Rebuilding
  BY <1>2, EngineAssumption DEF RxInv, RebuildAlone
<1>4. ASSUME NEW t \in Threads PROVE ~(t >= Len(vms)) /\ TakenVm(t) \in Pool /\ TakenVm(t) # NoVm
  <2>1. t < Len(vms) /\ ~(t >= Len(vms)) /\ t + 1 \in DOMAIN vms
    BY <1>2, LenProperties, EngineAssumption DEF Threads, RxTypeOK
  <2>2. vms[t + 1] \in Addresses
    BY <2>1, ElementOfSeq, LenProperties DEF RxTypeOK
  <2> QED
    BY <2>1, <2>2, EngineAssumption DEF TakenVm, Pool
<1>5. ASSUME NEW t \in Threads, Take(t) PROVE SteadyInv'
  BY <1>2, <1>4, <1>5 DEF Take, SteadyInv, rxVars, jobVars, Pool
<1>6. ASSUME NEW t \in Threads, Retake(t) PROVE SteadyInv'
  <2>1. UNCHANGED <<rxVars, currentJob, job>> /\ vm' = [vm EXCEPT ![t] = TakenVm(t)]
    BY <1>4, <1>6 DEF Retake, jobVars
  <2>2. \A u \in Threads \ {t} : pc'[u] = pc[u] /\ vm'[u] = vm[u]
    BY <1>4, <1>6, <2>1 DEF Retake, StartBatch
  <2>3. vm'[t] \in Pool' /\ vm'[t] # NoVm
    BY <1>4, <2>1 DEF rxVars, Pool
  <2> QED
    BY <1>2, <2>1, <2>2, <2>3 DEF SteadyInv, rxVars, Pool
<1>7. ASSUME NEW t \in Threads, CopyJob(t) PROVE SteadyInv'
  <2>1. UNCHANGED <<rxVars, currentJob, vm>> /\ job' = [job EXCEPT ![t] = currentJob]
    BY <1>7 DEF CopyJob, JobCopy, jobVars
  <2>2. pc[t] = "loop" /\ currentJob # NoJob
    BY <1>7 DEF CopyJob, JobCopy
  <2>3. \A u \in Threads \ {t} : pc'[u] = pc[u] /\ job'[u] = job[u]
    BY <1>7, <2>1 DEF CopyJob, StartBatch
  <2>4. job'[t].seed = warmSeed /\ vm[t] # NoVm
    BY <1>2, <2>1, <2>2
  <2> QED
    BY <1>2, <2>1, <2>3, <2>4 DEF SteadyInv, rxVars, Pool
<1>8. ASSUME UNCHANGED <<rxVars, jobVars, job, vm>>,
             \A u \in Threads : vm[u] = NoVm => pc'[u] \in {"wait", "take", "done"}
      PROVE  SteadyInv'
  BY <1>2, <1>8 DEF SteadyInv, rxVars, jobVars, Pool
<1>9. ASSUME NEW t \in Threads, WaitStopped(t) \/ LoopStopped(t) PROVE SteadyInv'
  <2>1. Return(t) /\ UNCHANGED <<rxVars, jobVars>>
    BY <1>9 DEF WaitStopped, LoopStopped
  <2> QED
    BY <1>2, <2>1 DEF Return, SteadyInv, rxVars, jobVars, Pool
<1>10. ASSUME NEW t \in Threads, MiningThread(t),
             ~Take(t), ~Retake(t), ~CopyJob(t), ~WaitStopped(t), ~LoopStopped(t),
             ~(ReseedDestroy(t) \/ AllocCache(t) \/ AllocDataset(t)
               \/ CreateVm(t) \/ RebuildDone(t))
      PROVE  SteadyInv'
  <2>1. UNCHANGED <<rxVars, jobVars, job, vm>>
    BY <1>10 DEF MiningThread, WaitOver, ReseedUpToDate, SeeFlag, AckFlag,
       EndBatch, HashBegin, HashEnd, HashCrash, Submit, Flush, localVars
  <2>2. CASE WaitOver(t) \/ ReseedUpToDate(t)
    <3>1. \A u \in Threads : vm[u] = NoVm => pc'[u] \in {"wait", "take", "done"}
      BY <1>2, <2>2 DEF WaitOver, ReseedUpToDate
    <3> QED
      BY <1>8, <2>1, <3>1
  <2>3. CASE \/ SeeFlag(t) \/ AckFlag(t) \/ EndBatch(t) \/ HashBegin(t)
             \/ HashEnd(t) \/ HashCrash(t) \/ Submit(t) \/ Flush(t)
    <3>1. /\ pc[t] \in {"batch", "ack", "hash", "submit", "flush"}
          /\ \A u \in Threads \ {t} : pc'[u] = pc[u]
      BY <2>3 DEF SeeFlag, AckFlag, EndBatch, HashBegin, HashEnd, HashCrash,
         Submit, Flush
    <3>2. \A u \in Threads : vm[u] = NoVm => pc'[u] \in {"wait", "take", "done"}
      BY <1>2, <3>1
    <3> QED
      BY <1>8, <2>1, <3>2
  <2> QED
    BY <1>10, <2>2, <2>3 DEF MiningThread
<1>11. ASSUME NEW t \in Threads PROVE ~ReseedDestroy(t)
  BY <1>2, EngineAssumption DEF ReseedDestroy, UpToDate, LocalsOK, WithJob, Labels
<1>12. ASSUME NEW t \in Threads
       PROVE  ~AllocCache(t) /\ ~AllocDataset(t) /\ ~CreateVm(t) /\ ~RebuildDone(t)
  BY <1>3 DEF AllocCache, AllocDataset, CreateVm, RebuildDone, Rebuilding
<1>13. ASSUME NEW s \in SeedHash, NEW w \in BOOLEAN, StoreJob(s, w)
       PROVE  SteadyInv'
  BY <1>2, <1>13 DEF StoreJob, SteadyInv, rxVars, localVars, Pool
<1>14. CASE RaiseFlag \/ StopRequest \/ Destroy \/ Terminated \/ UNCHANGED vars
  BY <1>2, <1>14 DEF RaiseFlag, StopRequest, Destroy, Terminated, vars, SteadyInv,
     rxVars, jobVars, localVars, Pool
<1> QED
  BY <1>5, <1>6, <1>7, <1>9, <1>10, <1>11, <1>12, <1>13, <1>14 DEF Next

\* With the VMs built and a pool that keeps to their seed, no hash ever runs
\* on a destroyed VM or on one of another seed.
THEOREM SteadySeedIsSafe == Spec => []SteadySeedSafe
<1>1. TypeOK /\ LocalsOK /\ RxInv /\ SteadyInv => SteadySeedSafe
  <2> SUFFICES ASSUME TypeOK, RxInv, SteadyInv, warmSeed # NoSeed,
                      steady, NEW t \in Threads, pc[t] = "hash"
               PROVE  vm[t] \in Allocated /\ vmHeap[vm[t]].seed = warmSeed
    BY DEF SteadySeedSafe
  <2>1. vm[t] \in Pool
    BY DEF SteadyInv
  <2>2. Allocated = Pool /\ owner # "destroyed"
    BY DEF RxInv, TeardownQuiet, Ownership
  <2>3. \A k \in DOMAIN vms : vmHeap[vms[k]].seed = warmSeed
    BY <2>2, LenProperties DEF SteadyInv, RxInv, FullCurrent, TypeOK, RxTypeOK
  <2> QED
    BY <2>1, <2>2, <2>3 DEF Pool
<1>2. TypeOK /\ LocalsOK /\ RxInv /\ SteadyInv /\ [Next]_vars => (RxInv /\ SteadyInv)'
  BY RxStep, SteadyStep
<1> QED
  BY RxInit, SteadyInit, <1>1, <1>2, TypeCorrect, PTL DEF Spec

=============================================================================
