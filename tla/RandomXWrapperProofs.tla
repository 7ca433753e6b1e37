------------------------- MODULE RandomXWrapperProofs -------------------------
(***************************************************************************)
(* Ownership in RandomXWrapper, for any number of wrappers, seeds, threads *)
(* and addresses.                                                          *)
(***************************************************************************)
EXTENDS RandomXWrapper, SequenceTheorems, TLAPS

-----------------------------------------------------------------------------
(* Types                                                                   *)

\* An address that is free is found.
LEMMA NextIsFree ==
  ASSUME HasRoom
  PROVE  NextAddr \in Addr /\ heap[NextAddr] = Free
<1>1. \E a \in Addr : heap[a] = Free
  BY DEF HasRoom
<1> QED
  BY <1>1 DEF NextAddr

\* The empty wrapper has no pointers.
LEMMA EmptyHolds == Empty \in Members /\ Pointers(Empty) = {} /\ Empty.vms = <<>>
  BY EmptySeq DEF Empty, Members, Pointers

\* destroy() leaves a heap.
LEMMA ReleaseType ==
  ASSUME TypeOK, NEW w \in Wrappers
  PROVE  HeapWithout(w) \in [Addr -> Object \cup {Free}]
  BY DEF HeapWithout, TypeOK

\* The number of threads initialize_android asks for is a number.
LEMMA ThreadsType ==
  ASSUME NEW n \in Nat, NEW level \in Int, NEW temp \in Int
  PROVE  WrapperThreads(n, level, temp) \in Nat
  BY DEF WrapperThreads, AtMost

\* Both ways into initialize release the wrapper and set the locals.
LEMMA InitializeType ==
  ASSUME TypeOK, NEW w \in Wrappers, NEW seed \in Seeds, NEW n \in Nat,
         Initialize(w, seed, n)
  PROVE  TypeOK'
<1>1. heap' \in [Addr -> Object \cup {Free}]
  BY ReleaseType DEF Initialize
<1>2. wr' \in [Wrappers -> Members]
  BY EmptyHolds DEF Initialize, Destroyed, TypeOK
<1>3. call' \in Call /\ call'.on \in alive'
  BY DEF Initialize, Call
<1> QED
  BY <1>1, <1>2, <1>3 DEF Initialize, TypeOK

\* A step of initialize that throws and leaves the wrapper with some members.
LEMMA ThrowType ==
  ASSUME TypeOK, Throw, UNCHANGED <<alive, asked>>,
         heap' \in [Addr -> Object \cup {Free}], wr' \in [Wrappers -> Members]
  PROVE  TypeOK'
  BY DEF Throw, Ended, TypeOK

\* The library puts an object at the free address, for a wrapper whose members
\* become m.
Places(on, object, m) ==
  /\ HasRoom
  /\ heap' = [heap EXCEPT ![NextAddr] = object]
  /\ wr' = [wr EXCEPT ![on] = m]
  /\ UNCHANGED <<alive, asked>>

\* It leaves the types, if initialize goes on for the same wrapper.
LEMMA AllocType ==
  ASSUME TypeOK, NEW object \in Object, NEW m \in Members,
         Places(call.on, object, m),
         call' \in Call, call'.on = call.on, call.on \in alive,
         UNCHANGED result
  PROVE  TypeOK'
<1>1. heap' \in [Addr -> Object \cup {Free}]
  BY NextIsFree DEF Places, TypeOK
<1>2. wr' \in [Wrappers -> Members]
  BY DEF Places, TypeOK
<1> QED
  BY <1>1, <1>2 DEF Places, TypeOK

\* What an initialize that is under way has done to its wrapper so far.
Progress ==
  call # NoCall =>
    /\ call.seed = asked[call.on]
    /\ call.step = "cache" => wr[call.on] = Empty
    /\ call.step # "cache" => wr[call.on].cache # Null
    /\ call.step = "dataset" => wr[call.on].dataset = Null /\ wr[call.on].vms = <<>>
    /\ call.step = "vms" => wr[call.on].dataset # Null
    /\ call.step = "vms" /\ call.jit =>
         \A k \in DOMAIN wr[call.on].vms : heap[wr[call.on].vms[k]].jit

CacheOf(seed) == [kind |-> "cache", seed |-> seed]

DatasetOf(seed) == [kind |-> "dataset", seed |-> seed]

\* In the heap h the VM at address a runs on the cache and dataset of m.
Runs(h, m, a) ==
  h[a] # Free /\ h[a].kind = "vm" /\ h[a].cache = m.cache /\ h[a].dataset = m.dataset

\* In the heap h the members m are made for a seed, whether or not VMs use them:
\* SeedServed alone says nothing of a cache that has no VM yet.
Serves(h, m, seed) ==
  /\ m.cache # Null => h[m.cache] = CacheOf(seed)
  /\ m.dataset # Null => h[m.dataset] = DatasetOf(seed)
  /\ m.vms # <<>> => m.cache # Null /\ m.dataset # Null
  /\ \A k \in DOMAIN m.vms : Runs(h, m, m.vms[k])
  /\ \A k \in DOMAIN m.vms : h[m.vms[k]].jit => \A j \in 1 .. k : h[m.vms[j]].jit

Served == \A w \in Wrappers : Serves(heap, wr[w], asked[w])

IInv == TypeOK /\ Owned /\ Progress /\ Served

-----------------------------------------------------------------------------
(* What the release of a wrapper leaves                                    *)

\* Members serve a seed in every heap that agrees on what they point to.
LEMMA ServesInBoth ==
  ASSUME NEW m \in Members, NEW seed, NEW g, NEW h,
         \A a \in Pointers(m) : g[a] = h[a],
         Serves(g, m, seed)
  PROVE  Serves(h, m, seed)
<1>1. \A k \in DOMAIN m.vms : m.vms[k] \in Pointers(m)
  BY WrapperAssumption DEF Pointers, Members
<1>2. \A k \in DOMAIN m.vms : \A j \in 1 .. k : j \in DOMAIN m.vms
  BY DEF Members
<1>3. \A a \in {m.cache, m.dataset} \ {Null} : g[a] = h[a]
  BY DEF Pointers
<1>4. \A k \in DOMAIN m.vms : g[m.vms[k]] = h[m.vms[k]]
  BY <1>1
<1> QED
  BY <1>2, <1>3, <1>4 DEF Serves, Runs

\* The empty wrapper serves any seed.
LEMMA EmptyServes == \A h, seed : Serves(h, Empty, seed)
  BY EmptyHolds DEF Serves, Empty

\* A wrapper that exists is released: what it held is free, the rest stays.
LEMMA ReleaseOwned ==
  ASSUME TypeOK, Owned, NEW w \in alive,
         heap' = HeapWithout(w), wr' = [wr EXCEPT ![w] = Empty],
         alive' = alive \/ alive' = alive \ {w}
  PROVE  Owned'
<1>1. w \in Wrappers /\ alive \subseteq Wrappers
  BY DEF TypeOK
<1>2. \A u \in Wrappers : Held(u)' = IF u = w THEN {} ELSE Held(u)
  BY <1>1, EmptyHolds DEF Held, TypeOK
<1>3. \A u \in Wrappers : wr'[u].vms = IF u = w THEN <<>> ELSE wr[u].vms
  BY <1>1, EmptyHolds DEF TypeOK
<1>4. ASSUME NEW a \in Addr
      PROVE  heap'[a] # Free <=> \E u \in alive' : a \in Held(u)'
  <2>1. heap'[a] = IF a \in Held(w) THEN Free ELSE heap[a]
    BY DEF HeapWithout
  <2>2. \A u \in Wrappers : u # w /\ a \in Held(u) => a \notin Held(w)
    BY <1>1 DEF Owned
  <2> QED
    BY <1>1, <1>2, <2>1, <2>2 DEF Owned
<1>5. \A u \in Wrappers \ alive' : Held(u)' = {}
  BY <1>1, <1>2 DEF Owned
<1>6. \A u, x \in Wrappers : u # x => Held(u)' \cap Held(x)' = {}
  BY <1>2 DEF Owned
<1>7. \A u \in Wrappers : \A j, k \in DOMAIN wr'[u].vms :
        j # k => wr'[u].vms[j] # wr'[u].vms[k]
  BY <1>3 DEF Owned
<1> QED
  BY <1>4, <1>5, <1>6, <1>7 DEF Owned

\* The other wrappers serve what they served.
LEMMA ReleaseServed ==
  ASSUME TypeOK, Owned, Served, NEW w \in Wrappers,
         heap' = HeapWithout(w), wr' = [wr EXCEPT ![w] = Empty],
         \A u \in Wrappers \ {w} : asked'[u] = asked[u]
  PROVE  Served'
<1> SUFFICES ASSUME NEW u \in Wrappers PROVE Serves(heap', wr'[u], asked'[u])
  BY DEF Served
<1>1. CASE u = w
  BY <1>1, EmptyServes DEF TypeOK
<1>2. CASE u # w
  <2>1. wr'[u] = wr[u] /\ wr[u] \in Members /\ Held(u) \cap Held(w) = {}
    BY <1>2 DEF TypeOK, Owned
  <2>2. \A a \in Pointers(wr[u]) : a \in Addr /\ heap'[a] = heap[a]
    <3>1. Pointers(wr[u]) \subseteq Addr
      BY <2>1, WrapperAssumption DEF Pointers, Members
    <3> QED
      BY <2>1, <3>1 DEF Held, HeapWithout
  <2>3. Serves(heap, wr[u], asked[u])
    BY DEF Served
  <2> QED
    BY <1>2, <2>1, <2>2, <2>3, ServesInBoth
<1> QED
  BY <1>1, <1>2

-----------------------------------------------------------------------------
(* What a move leaves                                                      *)

LEMMA MoveInv ==
  ASSUME IInv, NEW v \in Wrappers, NEW w \in Wrappers, Move(v, w)
  PROVE  IInv'
<1>1. v \in alive /\ v # w /\ alive \subseteq Wrappers
  BY DEF Move, IInv, TypeOK
<1>2. wr' = [wr EXCEPT ![w] = wr[v], ![v] = Empty]
  BY DEF Move, MovedFrom
<1>3. \A u \in Wrappers : wr'[u] = IF u = v THEN Empty ELSE IF u = w THEN wr[v] ELSE wr[u]
  BY <1>1, <1>2 DEF IInv, TypeOK
<1>4. \A u \in Wrappers : wr[u] \in Members /\ Held(u) \subseteq Addr
  BY WrapperAssumption DEF IInv, TypeOK, Held, Pointers, Members
<1>5. TypeOK'
  <2>1. heap' \in [Addr -> Object \cup {Free}]
    BY ReleaseType DEF Move, IInv
  <2>2. wr' \in [Wrappers -> Members]
    BY <1>2, EmptyHolds DEF IInv, TypeOK
  <2>3. asked' \in [Wrappers -> Seeds \cup {Null}]
    BY DEF Move, IInv, TypeOK
  <2> QED
    BY <2>1, <2>2, <2>3 DEF Move, Idle, IInv, TypeOK
<1>6. Owned'
  <2>1. \A u \in Wrappers :
          Held(u)' = IF u = v THEN {} ELSE IF u = w THEN Held(v) ELSE Held(u)
    BY <1>3, EmptyHolds DEF Held
  <2>2. ASSUME NEW a \in Addr
        PROVE  heap'[a] # Free <=> \E u \in alive' : a \in Held(u)'
    <3>1. heap'[a] = IF a \in Held(w) THEN Free ELSE heap[a]
      BY DEF Move, HeapWithout
    <3>2. \A u \in Wrappers : u # w /\ a \in Held(u) => a \notin Held(w)
      BY DEF IInv, Owned
    <3>3. heap[a] # Free <=> \E u \in alive : a \in Held(u)
      BY DEF IInv, Owned
    <3>4. CASE a \in Held(w)
      BY <1>1, <2>1, <3>1, <3>2, <3>4 DEF Move
    <3>5. CASE a \notin Held(w)
      BY <1>1, <2>1, <3>1, <3>3, <3>5 DEF Move
    <3> QED
      BY <3>4, <3>5
  <2>3. \A u \in Wrappers \ alive' : Held(u)' = {}
    BY <1>1, <2>1 DEF Move, IInv, Owned
  <2>4. \A u, x \in Wrappers : u # x => Held(u)' \cap Held(x)' = {}
    BY <2>1 DEF IInv, Owned
  <2>5. \A u \in Wrappers : \A j, k \in DOMAIN wr'[u].vms :
          j # k => wr'[u].vms[j] # wr'[u].vms[k]
    <3> SUFFICES ASSUME NEW u \in Wrappers
                 PROVE  \A j, k \in DOMAIN wr'[u].vms :
                          j # k => wr'[u].vms[j] # wr'[u].vms[k]
      OBVIOUS
    <3>1. wr'[u].vms = <<>> \/ \E x \in Wrappers : wr'[u].vms = wr[x].vms
      BY <1>3, EmptyHolds
    <3> QED
      BY <3>1 DEF IInv, Owned
  <2> QED
    BY <2>2, <2>3, <2>4, <2>5 DEF Owned
<1>7. Served'
  <2> SUFFICES ASSUME NEW u \in Wrappers PROVE Serves(heap', wr'[u], asked'[u])
    BY DEF Served
  <2>1. CASE u = v
    BY <1>3, <2>1, EmptyServes
  <2>2. CASE u # v
    <3> DEFINE x == IF u = w THEN v ELSE u
    <3>1. x \in Wrappers /\ x # w /\ wr'[u] = wr[x] /\ asked'[u] = asked[x]
      BY <1>1, <1>3, <2>2 DEF Move, IInv, TypeOK
    <3>2. Held(x) \cap Held(w) = {}
      BY <3>1 DEF IInv, Owned
    <3>3. \A a \in Held(x) : heap'[a] = heap[a]
      BY <1>4, <3>1, <3>2 DEF Move, HeapWithout
    <3>4. Serves(heap, wr[x], asked[x])
      BY <3>1 DEF IInv, Served
    <3> QED
      BY <1>4, <3>1, <3>3, <3>4, ServesInBoth DEF Held
  <2> QED
    BY <2>1, <2>2
<1>8. Progress'
  BY DEF Move, Idle, Progress
<1> QED
  BY <1>5, <1>6, <1>7, <1>8 DEF IInv

-----------------------------------------------------------------------------
(* What an allocation leaves                                               *)

\* A free address is held by nobody, so nobody loses what it held there.
LEMMA FreeIsUnheld ==
  ASSUME TypeOK, Owned, HasRoom, NEW u \in Wrappers
  PROVE  NextAddr \notin Held(u)
  BY NextIsFree DEF Owned, TypeOK

\* What happens at the free address leaves what a wrapper points to.
LEMMA AllocKeeps ==
  ASSUME TypeOK, Owned, HasRoom, NEW object, NEW u \in Wrappers, NEW seed,
         heap' = [heap EXCEPT ![NextAddr] = object],
         Serves(heap, wr[u], seed)
  PROVE  Serves(heap', wr[u], seed)
<1>1. wr[u] \in Members /\ Pointers(wr[u]) \subseteq Addr
  BY WrapperAssumption DEF TypeOK, Pointers, Members
<1>2. \A a \in Pointers(wr[u]) : heap[a] = heap'[a]
  BY <1>1, FreeIsUnheld DEF Held, TypeOK
<1> QED
  BY <1>1, <1>2, ServesInBoth

\* The new object becomes one more pointer of the wrapper it was made for.
LEMMA AllocOwned ==
  ASSUME TypeOK, Owned, NEW on \in alive, NEW object \in Object, NEW m \in Members,
         Places(on, object, m),
         Pointers(m) = Held(on) \cup {NextAddr},
         \A j, k \in DOMAIN m.vms : j # k => m.vms[j] # m.vms[k]
  PROVE  Owned'
<1>1. on \in Wrappers /\ alive \subseteq Wrappers
  BY DEF TypeOK
<1>2. \A u \in Wrappers : wr'[u] = IF u = on THEN m ELSE wr[u]
  BY <1>1 DEF Places, TypeOK
<1>3. \A u \in Wrappers :
        Held(u)' = IF u = on THEN Held(on) \cup {NextAddr} ELSE Held(u)
  BY <1>2 DEF Held
<1>4. ASSUME NEW a \in Addr
      PROVE  heap'[a] # Free <=> \E u \in alive' : a \in Held(u)'
  <2>1. object # Free
    BY WrapperAssumption
  <2>2. heap[a] # Free <=> \E u \in alive : a \in Held(u)
    BY DEF Owned
  <2>3. CASE a = NextAddr
    BY <1>1, <1>3, <2>1, <2>3, NextIsFree DEF Places, TypeOK
  <2>4. CASE a # NextAddr
    BY <1>1, <1>3, <2>2, <2>4 DEF Places, TypeOK
  <2> QED
    BY <2>3, <2>4
<1>5. \A u \in Wrappers \ alive' : Held(u)' = {}
  BY <1>1, <1>3 DEF Places, Owned
<1>6. \A u, x \in Wrappers : u # x => Held(u)' \cap Held(x)' = {}
  BY <1>3, FreeIsUnheld DEF Places, Owned
<1>7. \A u \in Wrappers : \A j, k \in DOMAIN wr'[u].vms :
        j # k => wr'[u].vms[j] # wr'[u].vms[k]
  BY <1>2 DEF Owned
<1> QED
  BY <1>4, <1>5, <1>6, <1>7 DEF Owned

\* The other wrappers serve what they served.
LEMMA AllocServed ==
  ASSUME TypeOK, Owned, Served, NEW on \in Wrappers, NEW object, NEW m \in Members,
         Places(on, object, m),
         Serves(heap', m, asked[on])
  PROVE  Served'
<1> SUFFICES ASSUME NEW u \in Wrappers PROVE Serves(heap', wr'[u], asked'[u])
  BY DEF Served
<1>1. CASE u = on
  BY <1>1 DEF Places, TypeOK
<1>2. CASE u # on
  <2>1. wr'[u] = wr[u] /\ Serves(heap, wr[u], asked[u])
    BY <1>2 DEF Places, TypeOK, Served
  <2> QED
    BY <2>1, AllocKeeps DEF Places
<1> QED
  BY <1>1, <1>2

\* A step that allocates and releases nothing.
LEMMA FrameKeeps ==
  ASSUME Owned, Served, UNCHANGED <<heap, alive, wr, asked>>
  PROVE  Owned' /\ Served'
<1>1. \A w \in Wrappers : Held(w)' = Held(w)
  BY DEF Held
<1>2. Owned'
  <2>1. \A a \in Addr : heap'[a] # Free <=> \E w \in alive' : a \in Held(w)'
    BY DEF Owned, Held
  <2>2. \A w \in Wrappers \ alive' : Held(w)' = {}
    BY <1>1 DEF Owned
  <2>3. \A v, w \in Wrappers : v # w => Held(v)' \cap Held(w)' = {}
    BY <1>1 DEF Owned
  <2>4. \A w \in Wrappers : \A j, k \in DOMAIN wr'[w].vms :
          j # k => wr'[w].vms[j] # wr'[w].vms[k]
    BY DEF Owned
  <2> QED
    BY <2>1, <2>2, <2>3, <2>4 DEF Owned
<1>3. Served'
  BY DEF Served
<1> QED
  BY <1>2, <1>3

-----------------------------------------------------------------------------
(* The steps of initialize                                                 *)

\* Where an initialize is under way.
LEMMA CallType ==
  ASSUME TypeOK, call # NoCall
  PROVE  /\ call \in Call /\ call.on \in alive /\ call.on \in Wrappers
         /\ wr[call.on] \in Members
  BY DEF TypeOK, Call

LEMMA AllocCacheInv ==
  ASSUME IInv, AllocCache
  PROVE  IInv'
<1> DEFINE m == [Empty EXCEPT !.cache = NextAddr]
<1>1. /\ call # NoCall /\ call.step = "cache" /\ TypeOK /\ Owned /\ Served
      /\ wr[call.on] = Empty /\ call.seed = asked[call.on]
  BY DEF AllocCache, InStep, IInv, Progress
<1>2. call \in Call /\ call.on \in alive /\ call.on \in Wrappers
  BY <1>1, CallType
<1>3. CASE Throw /\ UNCHANGED <<heap, wr>>
  <2>1. TypeOK'
    BY <1>1, <1>3, ThrowType DEF AllocCache, TypeOK
  <2>2. Owned' /\ Served' /\ Progress'
    BY <1>1, <1>3 DEF AllocCache, Throw, Owned, Held, Served, Progress
  <2> QED
    BY <2>1, <2>2 DEF IInv
<1>4. CASE /\ HasRoom
           /\ heap' = [heap EXCEPT ![NextAddr] = [kind |-> "cache", seed |-> call.seed]]
           /\ wr' = [wr EXCEPT ![call.on].cache = NextAddr]
           /\ call' = [call EXCEPT !.step = "dataset"]
           /\ UNCHANGED result
  <2>1. CacheOf(call.seed) \in Object
    BY <1>2 DEF Object, Call, CacheOf
  <2>2. call' \in Call /\ call'.on = call.on /\ call'.seed = call.seed /\ call'.step = "dataset"
    BY <1>2, <1>4 DEF Call
  <2>3. heap' = [heap EXCEPT ![NextAddr] = CacheOf(call.seed)]
    BY <1>4 DEF CacheOf
  <2>4. wr' = [wr EXCEPT ![call.on] = m] /\ Places(call.on, CacheOf(call.seed), m)
    BY <1>1, <1>4, <2>3 DEF Empty, AllocCache, Places
  <2>5. NextAddr \in Addr /\ NextAddr # Null
    BY <1>4, NextIsFree, WrapperAssumption
  <2>6. /\ m \in Members /\ m.cache = NextAddr /\ m.dataset = Null /\ m.vms = <<>>
        /\ Pointers(m) = {NextAddr}
    <3>1. m = [cache |-> NextAddr, dataset |-> Null, vms |-> <<>>]
      BY DEF Empty
    <3>2. <<>> \in Seq(Addr) /\ {m.vms[k] : k \in DOMAIN m.vms} = {}
      BY <3>1, EmptySeq
    <3>3. m \in Members
      BY <2>5, <3>1, <3>2 DEF Members
    <3>4. Pointers(m) = ({m.cache, m.dataset} \cup {}) \ {Null}
      BY <3>2 DEF Pointers
    <3> QED
      BY <2>5, <3>1, <3>3, <3>4
  <2>7. TypeOK'
    BY <1>1, <1>2, <1>4, <2>1, <2>2, <2>4, <2>6, AllocType
  <2>8. Owned'
    <3>1. Pointers(m) = Held(call.on) \cup {NextAddr}
      BY <1>1, <2>6, EmptyHolds DEF Held
    <3>2. \A j, k \in DOMAIN m.vms : j # k => m.vms[j] # m.vms[k]
      BY <2>6
    <3> HIDE DEF m
    <3> QED
      BY <1>1, <1>2, <2>1, <2>4, <2>6, <3>1, <3>2, AllocOwned
  <2>9. Served'
    <3>1. heap'[NextAddr] = CacheOf(asked[call.on])
      BY <1>1, <2>3, <2>5 DEF TypeOK
    <3>2. Serves(heap', m, asked[call.on])
      BY <2>6, <3>1 DEF Serves
    <3> HIDE DEF m
    <3> QED
      BY <1>1, <1>2, <2>4, <2>6, <3>2, AllocServed
  <2>10. Progress'
    <3>1. wr'[call.on] = m /\ asked' = asked
      BY <1>1, <1>2, <2>4 DEF TypeOK, AllocCache
    <3> QED
      BY <1>1, <2>2, <2>5, <2>6, <3>1 DEF Progress
  <2> QED
    BY <2>7, <2>8, <2>9, <2>10 DEF IInv
<1> QED
  BY <1>3, <1>4 DEF AllocCache

\* When there is no dataset, the release of the cache is destroy() on what
\* initialize has built.
LEMMA AllocDatasetInv ==
  ASSUME IInv, AllocDataset
  PROVE  IInv'
<1> DEFINE w == call.on
           m == [wr[w] EXCEPT !.dataset = NextAddr]
<1>1. /\ call # NoCall /\ call.step = "dataset" /\ TypeOK /\ Owned /\ Served
      /\ wr[w].cache # Null /\ wr[w].dataset = Null /\ wr[w].vms = <<>>
      /\ call.seed = asked[w] /\ alive' = alive /\ asked' = asked
  BY DEF AllocDataset, InStep, IInv, Progress
<1>2. call \in Call /\ w \in alive /\ w \in Wrappers /\ wr[w] \in Members
  BY <1>1, CallType
<1>3. /\ wr[w].cache \in Addr
      /\ wr[w] = [cache |-> wr[w].cache, dataset |-> Null, vms |-> <<>>]
      /\ Held(w) = {wr[w].cache}
  <2>1. wr[w].cache \in Addr /\ wr[w] = [cache |-> wr[w].cache, dataset |-> Null, vms |-> <<>>]
    BY <1>1, <1>2 DEF Members
  <2>2. {wr[w].vms[k] : k \in DOMAIN wr[w].vms} = {}
    BY <1>1
  <2>3. Held(w) = ({wr[w].cache, wr[w].dataset} \cup {}) \ {Null}
    BY <2>2 DEF Held, Pointers
  <2> QED
    BY <1>1, <2>1, <2>3
<1>4. heap[wr[w].cache] = CacheOf(call.seed)
  BY <1>1, <1>2 DEF Served, Serves
<1>5. CASE /\ heap' = [heap EXCEPT ![wr[w].cache] = Free]
           /\ wr' = [wr EXCEPT ![w].cache = Null]
           /\ Throw
  <2>1. heap' = HeapWithout(w)
    BY <1>1, <1>3, <1>5 DEF HeapWithout, TypeOK
  <2>2. wr' = [wr EXCEPT ![w] = Empty]
    <3>1. [wr[w] EXCEPT !.cache = Null] = Empty
      BY <1>3 DEF Empty
    <3> QED
      BY <1>5, <3>1
  <2>3. TypeOK'
    <3>1. heap' \in [Addr -> Object \cup {Free}]
      BY <1>1, <1>2, <2>1, ReleaseType
    <3>2. wr' \in [Wrappers -> Members]
      BY <1>1, <2>2, EmptyHolds DEF TypeOK
    <3> QED
      BY <1>1, <1>5, <3>1, <3>2, ThrowType
  <2>4. Owned' /\ Served'
    BY <1>1, <1>2, <2>1, <2>2, ReleaseOwned, ReleaseServed
  <2>5. Progress'
    BY <1>5 DEF Throw, Progress
  <2> QED
    BY <2>3, <2>4, <2>5 DEF IInv
<1>6. CASE /\ HasRoom
           /\ heap' = [heap EXCEPT ![NextAddr] =
                [kind |-> "dataset", seed |-> heap[wr[w].cache].seed]]
           /\ wr' = [wr EXCEPT ![w].dataset = NextAddr]
           /\ call' = [call EXCEPT !.step = "vms"]
           /\ UNCHANGED result
  <2>1. DatasetOf(call.seed) \in Object
    BY <1>2 DEF Object, Call, DatasetOf
  <2>2. call' \in Call /\ call'.on = w /\ call'.seed = call.seed /\ call'.step = "vms"
    BY <1>2, <1>6 DEF Call
  <2>3. heap' = [heap EXCEPT ![NextAddr] = DatasetOf(call.seed)]
    BY <1>4, <1>6 DEF CacheOf, DatasetOf
  <2>4. Places(w, DatasetOf(call.seed), m) /\ wr' = [wr EXCEPT ![w] = m]
    BY <1>1, <1>6, <2>3 DEF Places
  <2>5. NextAddr \in Addr /\ NextAddr # Null /\ NextAddr # wr[w].cache
    BY <1>4, <1>6, <2>1, NextIsFree, WrapperAssumption, FreeIsUnheld, <1>1, <1>2, <1>3
  <2>6. /\ m = [cache |-> wr[w].cache, dataset |-> NextAddr, vms |-> <<>>]
        /\ m \in Members /\ Pointers(m) = Held(w) \cup {NextAddr}
    <3>1. m = [cache |-> wr[w].cache, dataset |-> NextAddr, vms |-> <<>>]
      BY <1>3
    <3>2. <<>> \in Seq(Addr) /\ {m.vms[k] : k \in DOMAIN m.vms} = {}
      BY <3>1, EmptySeq
    <3>3. m \in Members
      BY <1>3, <2>5, <3>1, <3>2 DEF Members
    <3>4. Pointers(m) = ({m.cache, m.dataset} \cup {}) \ {Null}
      BY <3>2 DEF Pointers
    <3> QED
      BY <1>1, <1>3, <2>5, <3>1, <3>3, <3>4
  <2>7. m.cache = wr[w].cache /\ m.dataset = NextAddr /\ m.vms = <<>>
    BY <2>6
  <2>8. heap'[NextAddr] = DatasetOf(asked[w]) /\ heap'[m.cache] = CacheOf(asked[w])
    BY <1>1, <1>3, <1>4, <2>3, <2>5, <2>7 DEF TypeOK
  <2>9. Serves(heap', m, asked[w])
    BY <2>7, <2>8 DEF Serves
  <2>10. \A j, k \in DOMAIN m.vms : j # k => m.vms[j] # m.vms[k]
    BY <2>7
  <2>11. wr'[w] = m
    BY <1>1, <1>2, <2>4 DEF TypeOK
  <2>12. TypeOK' /\ Owned' /\ Served'
    <3> HIDE DEF m
    <3>1. TypeOK'
      BY <1>1, <1>2, <1>6, <2>1, <2>2, <2>4, <2>6, AllocType
    <3>2. Owned'
      BY <1>1, <1>2, <2>1, <2>4, <2>6, <2>10, AllocOwned
    <3>3. Served'
      BY <1>1, <1>2, <2>4, <2>6, <2>9, AllocServed
    <3> QED
      BY <3>1, <3>2, <3>3
  <2>13. Progress'
    BY <1>1, <2>2, <2>5, <2>7, <2>11 DEF Progress
  <2> QED
    BY <2>12, <2>13 DEF IInv
<1> QED
  BY <1>5, <1>6 DEF AllocDataset

\* A VM made for the cache and the dataset of the wrapper, with JIT only if all
\* the earlier ones have it.
LEMMA VmInv ==
  ASSUME IInv, CreateVm, HasRoom, NEW jit \in {call.jit, FALSE}, jit \in BOOLEAN,
         heap' = [heap EXCEPT ![NextAddr] =
           [kind |-> "vm", cache |-> wr[call.on].cache, dataset |-> wr[call.on].dataset,
            jit |-> jit]],
         wr' = [wr EXCEPT ![call.on].vms = Append(@, NextAddr)],
         call' = [call EXCEPT !.left = @ - 1, !.jit = jit],
         UNCHANGED result
  PROVE  IInv'
<1> DEFINE w == call.on
           vm == [kind |-> "vm", cache |-> wr[w].cache, dataset |-> wr[w].dataset, jit |-> jit]
           vms == Append(wr[w].vms, NextAddr)
           m == [wr[w] EXCEPT !.vms = vms]
           n == Len(wr[w].vms)
<1>1. /\ call # NoCall /\ call.step = "vms" /\ call.left > 0 /\ TypeOK /\ Owned /\ Served
      /\ wr[w].cache # Null /\ wr[w].dataset # Null
      /\ call.seed = asked[w] /\ alive' = alive /\ asked' = asked
  BY DEF CreateVm, InStep, MoreVms, IInv, Progress
<1>2. call \in Call /\ w \in alive /\ w \in Wrappers /\ wr[w] \in Members
  BY <1>1, CallType
<1>3. wr[w].cache \in Addr /\ wr[w].dataset \in Addr /\ wr[w].vms \in Seq(Addr)
  BY <1>1, <1>2 DEF Members
<1>4. NextAddr \in Addr /\ NextAddr # Null /\ NextAddr \notin Held(w)
  BY <1>1, <1>2, NextIsFree, WrapperAssumption, FreeIsUnheld
<1>5. /\ vms \in Seq(Addr) /\ n \in Nat /\ DOMAIN vms = 1 .. n + 1
      /\ DOMAIN wr[w].vms = 1 .. n /\ vms[n + 1] = NextAddr
      /\ \A k \in 1 .. n : vms[k] = wr[w].vms[k] /\ wr[w].vms[k] \in Held(w)
      /\ \A k \in 1 .. n + 1 : k \in 1 .. n \/ k = n + 1
  <2>1. vms \in Seq(Addr) /\ Len(vms) = n + 1 /\ n \in Nat
    BY <1>3, <1>4, AppendProperties
  <2>2. \A k \in 1 .. n : vms[k] = wr[w].vms[k]
    BY <1>3, <1>4, AppendProperties
  <2>3. vms[n + 1] = NextAddr
    BY <1>3, <1>4, AppendProperties
  <2>4. \A k \in 1 .. n : wr[w].vms[k] \in Held(w)
    BY <1>3, WrapperAssumption DEF Held, Pointers
  <2>5. DOMAIN vms = 1 .. n + 1 /\ DOMAIN wr[w].vms = 1 .. n
    BY <1>3, <2>1, LenProperties
  <2>6. \A k \in 1 .. n + 1 : k \in 1 .. n \/ k = n + 1
    BY <2>1
  <2> QED
    BY <2>1, <2>2, <2>3, <2>4, <2>5, <2>6
<1>6. vm \in Object
  BY <1>3 DEF Object
<1>7. m \in Members /\ m.cache = wr[w].cache /\ m.dataset = wr[w].dataset /\ m.vms = vms
  BY <1>2, <1>5 DEF Members
<1>8. Places(w, vm, m) /\ wr' = [wr EXCEPT ![w] = m] /\ heap' = [heap EXCEPT ![NextAddr] = vm]
  BY <1>1 DEF Places
<1>9. /\ call' \in Call /\ call'.on = w /\ call'.seed = call.seed /\ call'.step = "vms"
      /\ call'.jit = jit
  <2>1. call.left - 1 \in Nat
    BY <1>1, <1>2 DEF Call
  <2>2. /\ call' = [call EXCEPT !.left = call.left - 1, !.jit = jit]
        /\ call = [on |-> call.on, step |-> call.step, seed |-> call.seed,
                   left |-> call.left, jit |-> call.jit]
    BY <1>2 DEF Call
  <2>3. call' = [on |-> call.on, step |-> call.step, seed |-> call.seed,
                 left |-> call.left - 1, jit |-> jit]
    BY <2>2
  <2> QED
    BY <1>1, <1>2, <2>1, <2>3 DEF Call
<1> HIDE DEF vm, vms, m, n
<1>10. wr'[w] = m
  <2>1. wr' = [wr EXCEPT ![w] = m] /\ w \in DOMAIN wr
    BY <1>1, <1>2, <1>8 DEF TypeOK
  <2> QED
    BY <2>1
<1>11. Pointers(m) = Held(w) \cup {NextAddr}
  <2>1. {vms[k] : k \in 1 .. n + 1} = {wr[w].vms[k] : k \in 1 .. n} \cup {NextAddr}
    BY <1>5
  <2> DEFINE Base == {wr[w].cache, wr[w].dataset}
             Old == {wr[w].vms[k] : k \in 1 .. n}
  <2>2. Pointers(m) = (Base \cup {vms[k] : k \in 1 .. n + 1}) \ {Null}
    BY <1>5, <1>7 DEF Pointers
  <2>3. Held(w) = (Base \cup Old) \ {Null}
    BY <1>5 DEF Held, Pointers
  <2>4. Pointers(m) = (Base \cup (Old \cup {NextAddr})) \ {Null}
    BY <2>1, <2>2
  <2> HIDE DEF Base, Old
  <2> QED
    BY <1>4, <2>3, <2>4
<1>12. \A j, k \in DOMAIN m.vms : j # k => m.vms[j] # m.vms[k]
  <2>1. \A j, k \in 1 .. n : j # k => vms[j] # vms[k]
    <3>1. \A j, k \in DOMAIN wr[w].vms : j # k => wr[w].vms[j] # wr[w].vms[k]
      BY <1>1, <1>2 DEF Owned
    <3> QED
      BY <1>5, <3>1
  <2>2. \A k \in 1 .. n : vms[k] # vms[n + 1]
    BY <1>4, <1>5
  <2> QED
    BY <1>5, <1>7, <2>1, <2>2
<1>13. heap'[NextAddr] = vm /\ \A a \in Held(w) : heap'[a] = heap[a]
  BY <1>1, <1>4, <1>8 DEF TypeOK, Held
<1>14. Serves(heap, wr[w], asked[w])
  BY <1>1, <1>2 DEF Served
<1>15. Serves(heap', wr[w], asked[w])
  BY <1>1, <1>2, <1>8, <1>14, AllocKeeps DEF Places
<1>16. \A k \in 1 .. n + 1 : Runs(heap', m, vms[k])
  <2>1. \A k \in 1 .. n : Runs(heap', m, vms[k])
    <3>1. \A k \in DOMAIN wr[w].vms : Runs(heap', wr[w], wr[w].vms[k])
      BY <1>15 DEF Serves
    <3>2. \A a : Runs(heap', wr[w], a) => Runs(heap', m, a)
      BY <1>7 DEF Runs
    <3>3. ASSUME NEW k \in 1 .. n PROVE vms[k] = wr[w].vms[k] /\ k \in DOMAIN wr[w].vms
      BY <1>5
    <3> QED
      BY <3>1, <3>2, <3>3
  <2>2. Runs(heap', m, vms[n + 1])
    <3>1. vm # Free /\ vm.kind = "vm" /\ vm.cache = m.cache /\ vm.dataset = m.dataset
      BY <1>6, <1>7, WrapperAssumption DEF vm
    <3> QED
      BY <1>5, <1>13, <3>1 DEF Runs
  <2> QED
    BY <1>5, <2>1, <2>2
<1>17. jit => \A k \in 1 .. n : heap'[vms[k]].jit
  <2>1. jit => \A k \in 1 .. n : heap[wr[w].vms[k]].jit
    <3>1. Progress /\ call # NoCall /\ call.step = "vms"
      BY <1>1 DEF IInv
    <3>2. call.jit => \A k \in DOMAIN wr[w].vms : heap[wr[w].vms[k]].jit
      BY <3>1 DEF Progress
    <3>3. jit => call.jit
      OBVIOUS
    <3> QED
      BY <1>5, <3>2, <3>3
  <2> QED
    BY <1>5, <1>13, <2>1
<1>18. heap'[vms[n + 1]].jit = jit
  BY <1>5, <1>13 DEF vm
<1>19. \A k \in 1 .. n + 1 : heap'[vms[k]].jit => \A j \in 1 .. k : heap'[vms[j]].jit
  <2>1. ASSUME NEW k \in 1 .. n, heap'[vms[k]].jit
        PROVE  \A j \in 1 .. k : heap'[vms[j]].jit
    <3>1. \A j \in 1 .. k : j \in 1 .. n /\ vms[j] = wr[w].vms[j]
      BY <1>5
    <3> QED
      BY <1>5, <1>15, <2>1, <3>1 DEF Serves
  <2>2. ASSUME heap'[vms[n + 1]].jit
        PROVE  \A j \in 1 .. n + 1 : heap'[vms[j]].jit
    <3>1. jit
      BY <1>18, <2>2
    <3>2. \A j \in 1 .. n : heap'[vms[j]].jit
      BY <1>17, <3>1
    <3> QED
      BY <1>5, <2>2, <3>2
  <2> QED
    BY <1>5, <2>1, <2>2
<1>20. Serves(heap', m, asked[w])
  BY <1>1, <1>5, <1>7, <1>15, <1>16, <1>19 DEF Serves
<1>21. TypeOK'
  BY <1>1, <1>2, <1>6, <1>7, <1>8, <1>9, AllocType
<1>22. Owned'
  BY <1>1, <1>2, <1>6, <1>7, <1>8, <1>11, <1>12, AllocOwned
<1>23. Served'
  BY <1>1, <1>2, <1>7, <1>8, <1>20, AllocServed
<1>24. Progress'
  <2>1. jit => \A k \in DOMAIN m.vms : heap'[m.vms[k]].jit
    <3>1. ASSUME jit PROVE \A k \in 1 .. n + 1 : heap'[vms[k]].jit
      <4>1. \A k \in 1 .. n : heap'[vms[k]].jit
        BY <1>17, <3>1
      <4>2. heap'[vms[n + 1]].jit
        BY <1>18, <3>1
      <4> QED
        BY <1>5, <4>1, <4>2
    <3> QED
      BY <1>5, <1>7, <3>1
  <2> QED
    BY <1>1, <1>7, <1>9, <1>10, <2>1 DEF Progress
<1> QED
  BY <1>21, <1>22, <1>23, <1>24 DEF IInv

LEMMA CreateVmInv ==
  ASSUME IInv, CreateVm
  PROVE  IInv'
<1>1. TypeOK /\ call # NoCall
  BY DEF CreateVm, InStep, IInv
<1>2. call.jit \in BOOLEAN
  BY <1>1, CallType DEF Call
<1>3. CASE Throw /\ UNCHANGED <<heap, wr>>
  <2>1. TypeOK'
    BY <1>1, <1>3, ThrowType DEF CreateVm, TypeOK
  <2>2. Owned' /\ Served'
    BY <1>3, FrameKeeps DEF CreateVm, IInv
  <2>3. Progress'
    BY <1>3 DEF Throw, Progress
  <2> QED
    BY <2>1, <2>2, <2>3 DEF IInv
<1>4. CASE \E jit \in {call.jit, FALSE} :
             /\ HasRoom
             /\ heap' = [heap EXCEPT ![NextAddr] =
                  [kind |-> "vm", cache |-> wr[call.on].cache,
                   dataset |-> wr[call.on].dataset, jit |-> jit]]
             /\ wr' = [wr EXCEPT ![call.on].vms = Append(@, NextAddr)]
             /\ call' = [call EXCEPT !.left = @ - 1, !.jit = jit]
             /\ UNCHANGED result
  <2>1. PICK jit \in {call.jit, FALSE} :
             /\ HasRoom
             /\ heap' = [heap EXCEPT ![NextAddr] =
                  [kind |-> "vm", cache |-> wr[call.on].cache,
                   dataset |-> wr[call.on].dataset, jit |-> jit]]
             /\ wr' = [wr EXCEPT ![call.on].vms = Append(@, NextAddr)]
             /\ call' = [call EXCEPT !.left = @ - 1, !.jit = jit]
             /\ UNCHANGED result
    BY <1>4
  <2>2. jit \in BOOLEAN
    BY <1>2
  <2> QED
    BY <2>1, <2>2, VmInv
<1> QED
  BY <1>3, <1>4 DEF CreateVm

LEMMA InitializeDoneInv ==
  ASSUME IInv, InitializeDone
  PROVE  IInv'
<1>1. TypeOK'
  BY DEF InitializeDone, IInv, TypeOK, Ended
<1>2. Owned' /\ Served'
  BY FrameKeeps DEF InitializeDone, IInv
<1>3. Progress'
  BY DEF InitializeDone, Progress
<1> QED
  BY <1>1, <1>2, <1>3 DEF IInv

\* Both ways into initialize, which begins with destroy().
LEMMA InitializeInv ==
  ASSUME IInv, NEW w \in Wrappers, NEW seed \in Seeds, NEW n \in Nat, Initialize(w, seed, n)
  PROVE  IInv'
<1>1. /\ TypeOK /\ Owned /\ Served /\ w \in alive /\ alive' = alive
      /\ heap' = HeapWithout(w) /\ wr' = [wr EXCEPT ![w] = Empty]
      /\ asked' = [asked EXCEPT ![w] = seed]
      /\ call' = [on |-> w, step |-> "cache", seed |-> seed, left |-> n, jit |-> TRUE]
  BY DEF Initialize, Destroyed, IInv
<1>2. TypeOK'
  BY <1>1, InitializeType
<1>3. Owned'
  BY <1>1, ReleaseOwned
<1>4. \A u \in Wrappers \ {w} : asked'[u] = asked[u]
  BY <1>1 DEF TypeOK
<1>5. Served'
  BY <1>1, <1>4, ReleaseServed
<1>6. call'.on = w /\ call'.step = "cache" /\ call'.seed = seed
  BY <1>1
<1>7. asked'[w] = seed /\ wr'[w] = Empty
  BY <1>1 DEF TypeOK
<1>8. Progress'
  BY <1>6, <1>7 DEF Progress
<1> QED
  BY <1>2, <1>3, <1>5, <1>8 DEF IInv

-----------------------------------------------------------------------------
(* The other calls                                                         *)

LEMMA DestructInv ==
  ASSUME IInv, NEW w \in Wrappers, Destruct(w)
  PROVE  IInv'
<1>1. /\ TypeOK /\ Owned /\ Served /\ w \in alive /\ alive' = alive \ {w}
      /\ heap' = HeapWithout(w) /\ wr' = [wr EXCEPT ![w] = Empty]
      /\ asked' = asked /\ call = NoCall /\ call' = call /\ result' = result
  BY DEF Destruct, Destroyed, Idle, IInv
<1>2. wr' \in [Wrappers -> Members]
  BY <1>1, EmptyHolds DEF TypeOK
<1>3. TypeOK'
  BY <1>1, <1>2, ReleaseType DEF TypeOK
<1>4. Owned' /\ Served'
  BY <1>1, ReleaseOwned, ReleaseServed
<1> QED
  BY <1>1, <1>3, <1>4 DEF IInv, Progress

LEMMA ConstructInv ==
  ASSUME IInv, NEW w \in Wrappers, Construct(w)
  PROVE  IInv'
<1>1. /\ TypeOK /\ Owned /\ Served /\ w \notin alive /\ alive' = alive \cup {w}
      /\ asked' = [asked EXCEPT ![w] = Null] /\ call = NoCall
      /\ heap' = heap /\ wr' = wr /\ call' = call /\ result' = result
  BY DEF Construct, Idle, IInv
<1>2. TypeOK'
  BY <1>1 DEF TypeOK
<1>3. Held(w) = {}
  BY <1>1 DEF Owned
<1>4. Owned'
  BY <1>1, <1>3 DEF Owned, Held
<1>5. wr[w].cache = Null /\ wr[w].dataset = Null
  BY <1>3 DEF Held, Pointers
<1>6. Serves(heap, wr[w], asked[w])
  BY <1>1 DEF Served
<1>7. Serves(heap, wr[w], Null)
  BY <1>5, <1>6 DEF Serves
<1>8. Served'
  BY <1>1, <1>7 DEF Served, TypeOK
<1> QED
  BY <1>1, <1>2, <1>4, <1>8 DEF IInv, Progress

\* hash and a refused start change nothing but the result.
LEMMA ResultInv ==
  ASSUME IInv, NEW w \in Wrappers, NEW thread \in Nat, RefuseAndroid(w) \/ Hash(w, thread)
  PROVE  IInv'
<1>1. UNCHANGED <<heap, alive, wr, call, asked>>
  BY DEF RefuseAndroid, Hash
<1>2. result' \in Object \cup [kind : {"none", "true", "false", "threw"}]
  <2>1. CASE RefuseAndroid(w)
    BY <2>1 DEF RefuseAndroid, Ended
  <2>2. CASE result' = Ended("threw")
    BY <2>2 DEF Ended
  <2>3. CASE thread < Len(wr[w].vms) /\ result' = heap[wr[w].vms[thread + 1]]
    <3>1. wr[w].vms \in Seq(Addr) /\ thread + 1 \in 1 .. Len(wr[w].vms)
      <4>1. wr[w].vms \in Seq(Addr)
        BY DEF IInv, TypeOK, Members
      <4> QED
        BY <2>3, <4>1, LenProperties
    <3>2. thread + 1 \in DOMAIN wr[w].vms
      BY <3>1, LenProperties
    <3>3. Runs(heap, wr[w], wr[w].vms[thread + 1]) /\ wr[w].vms[thread + 1] \in Addr
      BY <3>1, <3>2 DEF IInv, Served, Serves
    <3> QED
      BY <2>3, <3>3 DEF Runs, IInv, TypeOK
  <2> QED
    BY <2>1, <2>2, <2>3 DEF Hash
<1>3. TypeOK'
  BY <1>1, <1>2 DEF IInv, TypeOK
<1>4. Owned' /\ Served'
  BY <1>1, FrameKeeps DEF IInv
<1>5. Progress'
  BY <1>1 DEF IInv, Progress
<1> QED
  BY <1>3, <1>4, <1>5 DEF IInv

-----------------------------------------------------------------------------
(* The specification                                                       *)

LEMMA Initially == ASSUME Init PROVE IInv
<1>1. TypeOK
  BY EmptyHolds DEF Init, TypeOK, Ended
<1>2. \A w \in Wrappers : Held(w) = {} /\ wr[w].vms = <<>>
  BY EmptyHolds DEF Init, Held
<1>3. Owned
  BY <1>2 DEF Init, Owned
<1>4. Served
  BY EmptyServes DEF Init, Served
<1> QED
  BY <1>1, <1>3, <1>4 DEF Init, IInv, Progress

LEMMA NextKeeps == ASSUME IInv, [Next]_vars PROVE IInv'
<1>1. CASE UNCHANGED vars
  BY <1>1 DEF vars, IInv, TypeOK, Owned, Held, Progress, Served
<1>2. CASE \E w \in Wrappers : Construct(w) \/ Destruct(w) \/ RefuseAndroid(w)
  BY <1>2, ConstructInv, DestructInv, ResultInv, 0 \in Nat
<1>3. CASE \E v, w \in Wrappers : Move(v, w)
  BY <1>3, MoveInv
<1>4. CASE \E w \in Wrappers, seed \in Seeds, n \in Counts :
             Initialize(w, seed, n) \/ InitializeAndroid(w, seed, n)
  <2>1. PICK w \in Wrappers, seed \in Seeds, n \in Counts :
               Initialize(w, seed, n) \/ InitializeAndroid(w, seed, n)
    BY <1>4
  <2>2. n \in Nat
    BY WrapperAssumption
  <2>3. CASE Initialize(w, seed, n)
    BY <2>2, <2>3, InitializeInv
  <2>4. CASE InitializeAndroid(w, seed, n)
    <3>1. PICK level \in Levels, temp \in Temperatures :
                 Initialize(w, seed, WrapperThreads(n, level, temp))
      BY <2>4 DEF InitializeAndroid
    <3>2. WrapperThreads(n, level, temp) \in Nat
      BY <2>2, ThreadsType, WrapperAssumption
    <3> QED
      BY <3>1, <3>2, InitializeInv
  <2> QED
    BY <2>1, <2>3, <2>4
<1>5. CASE AllocCache \/ AllocDataset \/ CreateVm \/ InitializeDone
  BY <1>5, AllocCacheInv, AllocDatasetInv, CreateVmInv, InitializeDoneInv
<1>6. CASE \E w \in Wrappers, thread \in Counts : Hash(w, thread)
  BY <1>6, ResultInv, WrapperAssumption
<1> QED
  BY <1>1, <1>2, <1>3, <1>4, <1>5, <1>6 DEF Next

\* The invariant is inductive.
LEMMA Invariance == Spec => []IInv
<1> QED
  BY Initially, NextKeeps, PTL DEF Spec

\* Every variable keeps its type, and an initialize under way is one on a wrapper
\* that exists.
THEOREM TypeCorrect == Spec => []TypeOK
<1>1. IInv => TypeOK
  BY DEF IInv
<1> QED
  BY <1>1, Invariance, PTL

\* Nothing that the library allocated leaks or has two owners, whatever is moved
\* onto what and wherever an exception ends initialize.
THEOREM NothingLeaks == Spec => []Owned
<1>1. IInv => Owned
  BY DEF IInv
<1> QED
  BY <1>1, Invariance, PTL

\* A VM runs on the cache and the dataset of its own wrapper, made for the seed
\* last asked for, and the JIT fallback is for good.
THEOREM SeedsAreServed == Spec => []SeedServed
<1>1. ASSUME IInv PROVE SeedServed
  <2> SUFFICES ASSUME NEW w \in Wrappers, NEW k \in DOMAIN wr[w].vms
               PROVE  LET vm == heap[wr[w].vms[k]] IN
                      /\ vm # Free /\ vm.kind = "vm"
                      /\ vm.cache = wr[w].cache /\ vm.dataset = wr[w].dataset
                      /\ heap[vm.cache] = CacheOf(asked[w])
                      /\ heap[vm.dataset] = DatasetOf(asked[w])
                      /\ vm.jit => \A j \in 1 .. k : heap[wr[w].vms[j]].jit
    BY DEF SeedServed, CacheOf, DatasetOf
  <2>1. Serves(heap, wr[w], asked[w])
    BY <1>1 DEF IInv, Served
  <2>2. wr[w].vms # <<>>
    OBVIOUS
  <2> QED
    BY <2>1, <2>2 DEF Serves, Runs
<1> QED
  BY <1>1, Invariance, PTL

=============================================================================
