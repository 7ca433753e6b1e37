--------------------------- MODULE RandomXWrapper ---------------------------
(***************************************************************************)
(* RandomXWrapper of libs/randomx_wrapper.cpp: objects that own a RandomX  *)
(* cache, a dataset and one VM per thread, can be moved, and build and     *)
(* release what they own.  The class has no lock: its user makes one call  *)
(* at a time.  initialize is several steps because it can stop with an     *)
(* exception after each of them; every other call is one step.             *)
(*                                                                         *)
(* The RandomX library hands out addresses; an address that was released   *)
(* is handed out again, so a pointer that dangles may name a new object.   *)
(* Huge pages, NUMA and AES flags are left out, the JIT flag is kept.      *)
(***************************************************************************)
EXTENDS PowerLimits, Sequences

CONSTANTS
  Wrappers,     \* places that can hold a RandomXWrapper
  Seeds,
  Addr,         \* addresses the library can hand out
  Null,         \* nullptr; Null as a seed: none was asked for
  Free,         \* nothing is allocated at an address
  NoCall,       \* no initialize is under way
  Counts,       \* the numbers of threads asked for
  Levels,       \* battery_level of initialize_android
  Temperatures  \* temperature of initialize_android

\* What the library allocates: a VM reads the cache and the dataset it was made with.
Object ==
  [kind : {"cache", "dataset"}, seed : Seeds]
    \cup [kind : {"vm"}, cache : Addr, dataset : Addr, jit : BOOLEAN]

\* The members of a wrapper, and the locals of initialize.
Members == [cache : Addr \cup {Null}, dataset : Addr \cup {Null}, vms : Seq(Addr)]

Call == [on : Wrappers, step : {"cache", "dataset", "vms"}, seed : Seeds, left : Nat,
         jit : BOOLEAN]

ASSUME WrapperAssumption ==
  /\ Null \notin Addr /\ Null \notin Seeds
  /\ Free \notin Object
  /\ Counts \subseteq Nat
  /\ Levels \subseteq Int
  /\ Temperatures \subseteq Int

VARIABLES
  heap,    \* what the library has allocated where
  alive,   \* the wrappers that are constructed and not yet destroyed
  wr,      \* m_cache, m_dataset and m_vms of each wrapper
  call,    \* the locals of initialize
  result,  \* how the last call ended: "true", "false", "threw", or the object hashed on
  asked    \* history: the seed of the last initialize that ran on what a wrapper holds

vars == <<heap, alive, wr, call, result, asked>>

\* How a call ended, when it did not hash.
Ended(how) == [kind |-> how]

Empty == [cache |-> Null, dataset |-> Null, vms |-> <<>>]

\* What the members m of a wrapper point to.
Pointers(m) == ({m.cache, m.dataset} \cup {m.vms[k] : k \in DOMAIN m.vms}) \ {Null}

Held(w) == Pointers(wr[w])

Init ==
  /\ heap = [a \in Addr |-> Free]
  /\ alive = {}
  /\ wr = [w \in Wrappers |-> Empty]
  /\ call = NoCall
  /\ result = Ended("none")
  /\ asked = [w \in Wrappers |-> Null]

-----------------------------------------------------------------------------
(* Guards and effects.  A definition named Faulty... is the next one with  *)
(* a plausible slip; no action uses it.                                    *)

Idle == call = NoCall

InStep(step) == call # NoCall /\ call.step = step

HasRoom == \E a \in Addr : heap[a] = Free

NextAddr == CHOOSE a \in Addr : heap[a] = Free

\* heap after destroy().
HeapWithout(w) == [a \in Addr |-> IF a \in Held(w) THEN Free ELSE heap[a]]

\* The wrapper after destroy().
FaultyDestroyed(w) == [Empty EXCEPT !.vms = wr[w].vms]
Destroyed(w) == Empty

\* The wrapper another one has been moved from: its pointers are nulled, and a
\* moved-from std::vector is empty.
FaultyMovedFrom(w) == [wr[w] EXCEPT !.vms = <<>>]
MovedFrom(w) == Empty

\* The loop of initialize goes on.
FaultyMoreVms == call.left >= 0
MoreVms == call.left > 0

Throw ==
  /\ call' = NoCall
  /\ result' = Ended("threw")

-----------------------------------------------------------------------------
(* Life of a wrapper                                                       *)

Construct(w) ==
  /\ Idle
  /\ w \notin alive
  /\ alive' = alive \cup {w}
  /\ asked' = [asked EXCEPT ![w] = Null]
  /\ UNCHANGED <<heap, wr, call, result>>

Destruct(w) ==
  /\ Idle
  /\ w \in alive
  /\ alive' = alive \ {w}
  /\ heap' = HeapWithout(w)
  /\ wr' = [wr EXCEPT ![w] = Destroyed(w)]
  /\ UNCHANGED <<call, result, asked>>

\* The move constructor (w is not alive) and the move assignment (w is alive
\* and releases what it held first; onto itself it does nothing).
Move(v, w) ==
  /\ Idle
  /\ v \in alive
  /\ v # w
  /\ alive' = alive \cup {w}
  /\ heap' = HeapWithout(w)
  /\ wr' = [wr EXCEPT ![w] = wr[v], ![v] = MovedFrom(v)]
  /\ asked' = [asked EXCEPT ![w] = asked[v], ![v] = Null]
  /\ UNCHANGED <<call, result>>

-----------------------------------------------------------------------------
(* initialize                                                              *)

Initialize(w, seed, n) ==
  /\ Idle
  /\ w \in alive
  /\ heap' = HeapWithout(w)
  /\ wr' = [wr EXCEPT ![w] = Destroyed(w)]
  /\ call' = [on |-> w, step |-> "cache", seed |-> seed, left |-> n, jit |-> TRUE]
  /\ asked' = [asked EXCEPT ![w] = seed]
  /\ UNCHANGED <<alive, result>>

\* initialize_android asks for fewer threads when the battery is low or the
\* device hot ...
InitializeAndroid(w, seed, n) ==
  \E level \in Levels, temp \in Temperatures :
    ~TooHot(temp) /\ Initialize(w, seed, WrapperThreads(n, level, temp))

\* ... and refuses a device that is too hot, before anything is released.
RefuseAndroid(w) ==
  /\ Idle
  /\ w \in alive
  /\ \E temp \in Temperatures : TooHot(temp)
  /\ result' = Ended("false")
  /\ UNCHANGED <<heap, alive, wr, call, asked>>

AllocCache ==
  /\ InStep("cache")
  /\ \/ /\ HasRoom
        /\ heap' = [heap EXCEPT ![NextAddr] = [kind |-> "cache", seed |-> call.seed]]
        /\ wr' = [wr EXCEPT ![call.on].cache = NextAddr]
        /\ call' = [call EXCEPT !.step = "dataset"]
        /\ UNCHANGED result
     \/ Throw /\ UNCHANGED <<heap, wr>>
  /\ UNCHANGED <<alive, asked>>

\* The dataset is computed from the cache, which goes if there is no dataset.
AllocDataset ==
  LET cache == wr[call.on].cache IN
  /\ InStep("dataset")
  /\ \/ /\ HasRoom
        /\ heap' = [heap EXCEPT ![NextAddr] = [kind |-> "dataset", seed |-> heap[cache].seed]]
        /\ wr' = [wr EXCEPT ![call.on].dataset = NextAddr]
        /\ call' = [call EXCEPT !.step = "vms"]
        /\ UNCHANGED result
     \/ /\ heap' = [heap EXCEPT ![cache] = Free]
        /\ wr' = [wr EXCEPT ![call.on].cache = Null]
        /\ Throw
  /\ UNCHANGED <<alive, asked>>

\* With the JIT as long as it has never failed; otherwise, or on the second
\* attempt, without.  What exists when both fail stays in the wrapper.
CreateVm ==
  /\ InStep("vms")
  /\ MoreVms
  /\ \/ \E jit \in {call.jit, FALSE} :
          /\ HasRoom
          /\ heap' = [heap EXCEPT ![NextAddr] =
               [kind |-> "vm", cache |-> wr[call.on].cache, dataset |-> wr[call.on].dataset,
                jit |-> jit]]
          /\ wr' = [wr EXCEPT ![call.on].vms = Append(@, NextAddr)]
          /\ call' = [call EXCEPT !.left = @ - 1, !.jit = jit]
          /\ UNCHANGED result
     \/ Throw /\ UNCHANGED <<heap, wr>>
  /\ UNCHANGED <<alive, asked>>

InitializeDone ==
  /\ InStep("vms")
  /\ ~MoreVms
  /\ call' = NoCall
  /\ result' = Ended("true")
  /\ UNCHANGED <<heap, alive, wr, asked>>

-----------------------------------------------------------------------------
\* hash for a thread; hash_first is hash for thread 0.  A null buffer or a
\* thread without a VM throws.
Hash(w, thread) ==
  /\ Idle
  /\ w \in alive
  /\ \/ /\ thread < Len(wr[w].vms)
        /\ result' = heap[wr[w].vms[thread + 1]]
     \/ result' = Ended("threw")
  /\ UNCHANGED <<heap, alive, wr, call, asked>>

Next ==
  \/ \E w \in Wrappers : Construct(w) \/ Destruct(w) \/ RefuseAndroid(w)
  \/ \E v, w \in Wrappers : Move(v, w)
  \/ \E w \in Wrappers, seed \in Seeds, n \in Counts :
       Initialize(w, seed, n) \/ InitializeAndroid(w, seed, n)
  \/ AllocCache \/ AllocDataset \/ CreateVm \/ InitializeDone
  \/ \E w \in Wrappers, thread \in Counts : Hash(w, thread)

Spec == Init /\ [][Next]_vars

-----------------------------------------------------------------------------
(* Properties                                                              *)

\* Every variable has its type; the count of VMs still to be made does not run
\* past the number asked for (randomx_wrapper.cpp:113-132).
TypeOK ==
  /\ heap \in [Addr -> Object \cup {Free}]
  /\ alive \subseteq Wrappers
  /\ wr \in [Wrappers -> Members]
  /\ call # NoCall => call \in Call /\ call.on \in alive
  /\ result \in Object \cup [kind : {"none", "true", "false", "threw"}]
  /\ asked \in [Wrappers -> Seeds \cup {Null}]

\* What the library has allocated is held by exactly one wrapper that exists, in
\* one member, and every pointer held names something allocated: nothing leaks
\* and nothing is released twice, whatever was moved onto what and wherever an
\* exception ended initialize (randomx_wrapper.cpp:24-51, 58-135, 171-180).
Owned ==
  /\ \A a \in Addr : heap[a] # Free <=> \E w \in alive : a \in Held(w)
  /\ \A w \in Wrappers \ alive : Held(w) = {}
  /\ \A v, w \in Wrappers : v # w => Held(v) \cap Held(w) = {}
  /\ \A w \in Wrappers : \A j, k \in DOMAIN wr[w].vms :
       j # k => wr[w].vms[j] # wr[w].vms[k]

\* A VM runs on the cache and the dataset of the wrapper it is in, both made for
\* the seed of the last initialize that ran: also after one that threw with some
\* of the VMs made, which is_initialized() takes for success, and after an
\* initialize_android that refused, which leaves the former seed in place.  The
\* VMs with JIT are those of the first threads, for once it failed it is not
\* tried again (randomx_wrapper.cpp:58-135, 167-169, 184).
SeedServed ==
  \A w \in Wrappers : \A k \in DOMAIN wr[w].vms :
    LET vm == heap[wr[w].vms[k]] IN
    /\ vm # Free
    /\ vm.kind = "vm"
    /\ vm.cache = wr[w].cache /\ vm.dataset = wr[w].dataset
    /\ heap[vm.cache] = [kind |-> "cache", seed |-> asked[w]]
    /\ heap[vm.dataset] = [kind |-> "dataset", seed |-> asked[w]]
    /\ vm.jit => \A j \in 1 .. k : heap[wr[w].vms[j]].jit

=============================================================================
