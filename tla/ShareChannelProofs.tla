--------------------------- MODULE ShareChannelProofs ---------------------------
(***************************************************************************)
(* Theorems about ShareChannel, for any number of threads, shares, pieces  *)
(* of a message and room in the socket buffer.                             *)
(***************************************************************************)
EXTENDS ShareChannel, FiniteSetTheorems, SequenceTheorems, TLAPS

\* The bounds that make the types inductive: every id was counted up from the
\* login's, once for each share at most.
IdsBounded ==
  /\ messageId <= LoginId + begun
  /\ \A s \in Senders : register[s] <= LoginId + begun

MutexInv == \A s \in Senders : pc[s] = "sending" <=> sendMutex = s

Active(s) == pc[s] # "idle"

\* A message belongs to one sender, and no piece is from a message not begun.
MessagesInv ==
  /\ \A s \in Senders : message[s] <= begun
  /\ \A s, u \in Senders : (Active(s) /\ Active(u) /\ message[s] = message[u]) => s = u
  /\ \A i \in 1 .. Len(wire) : wire[i].msg <= begun

\* Nothing of a message is sent before m_send_mutex is taken, and the mutex is
\* given back with the last piece.
LeftInv ==
  \A s \in Senders : /\ pc[s] \in {"loaded", "ready"} => left[s] = Pieces
                     /\ pc[s] = "sending" => left[s] > 0

\* The last piece on the wire is the sender's that is half through its message;
\* if there is none, it ends a message or the message has failed.
Midway(s) == pc[s] = "sending" /\ left[s] < Pieces

TailInv ==
  LET n == Len(wire) IN
  /\ \A s \in Senders : Midway(s) =>
       n > 0 /\ wire[n] = [msg |-> message[s], id |-> register[s], part |-> Pieces - left[s]]
  /\ (n > 0 /\ \A s \in Senders : ~Midway(s)) =>
       wire[n].part = Pieces \/ wire[n].msg \in failed

\* The pieces of m on the wire are its first n, each once.
Sent(m, n) ==
  Cardinality(OnWire(m)) = n /\ {wire[i].part : i \in OnWire(m)} = 1 .. n

CountInv == \A s \in Senders : Active(s) => Sent(message[s], Pieces - left[s])

\* Only the login carries the login's id; and as long as no two increments have
\* overlapped, a message's id tells its number.
IdsInv ==
  /\ \A s \in Senders : message[s] # Login => register[s] > LoginId
  /\ \A i \in 1 .. Len(wire) : wire[i].msg # Login => wire[i].id > LoginId

UnracedInv ==
  ~raced =>
    /\ \A s \in Senders : register[s] = LoginId + message[s]
    /\ \A i \in 1 .. Len(wire) : wire[i].id = LoginId + wire[i].msg
    /\ \A t \in Senders : pc[t] = "loaded" => message[t] = begun
    /\ (\A t \in Senders : pc[t] # "loaded") => messageId = LoginId + begun

-----------------------------------------------------------------------------
(* The wire                                                                *)

\* What send() takes is put behind what is there.
LEMMA WireGrows ==
  ASSUME TypeOK, NEW s \in Senders, NEW k \in 1 .. left[s],
         wire' = wire \o NextPieces(s, k)
  PROVE  /\ wire' \in Seq(Piece)
         /\ Len(wire) \in Nat /\ Len(wire') = Len(wire) + k
         /\ \A i \in 1 .. Len(wire) : wire'[i] = wire[i]
         /\ \A i \in 1 .. k :
              wire'[Len(wire) + i] =
                [msg |-> message[s], id |-> register[s], part |-> Pieces - left[s] + i]
<1>1. /\ wire \in Seq(Piece) /\ Len(wire) \in Nat /\ k \in Nat
      /\ left[s] \in 0 .. Pieces /\ Pieces \in Nat
  BY ShareAssumption, LenProperties DEF TypeOK
<1>2. NextPieces(s, k) \in [1 .. k -> Piece]
  <2>1. \A i \in 1 .. k : Pieces - left[s] + i \in 1 .. Pieces
    BY <1>1
  <2>2. message[s] \in Messages /\ register[s] \in LoginId .. LoginId + MaxShares
    BY DEF TypeOK
  <2>3. \A i \in 1 .. k :
          [msg |-> message[s], id |-> register[s], part |-> Pieces - left[s] + i] \in Piece
    BY <2>1, <2>2 DEF Piece
  <2> QED
    BY <2>3 DEF NextPieces
<1>3. NextPieces(s, k) \in Seq(Piece) /\ Len(NextPieces(s, k)) = k
  BY <1>1, <1>2, SeqDef, LenProperties DEF NextPieces
<1>4. \A i \in 1 .. k :
        NextPieces(s, k)[i] =
          [msg |-> message[s], id |-> register[s], part |-> Pieces - left[s] + i]
  BY DEF NextPieces
<1> DEFINE np == NextPieces(s, k)
<1> HIDE DEF np
<1>5. /\ wire' = wire \o np /\ np \in Seq(Piece) /\ Len(np) = k
      /\ \A i \in 1 .. k :
           np[i] = [msg |-> message[s], id |-> register[s], part |-> Pieces - left[s] + i]
  BY <1>3, <1>4 DEF np
<1>6. /\ wire' \in Seq(Piece) /\ Len(wire') = Len(wire) + k
      /\ \A i \in 1 .. Len(wire) + k :
           wire'[i] = IF i <= Len(wire) THEN wire[i] ELSE np[i - Len(wire)]
  <2>1. /\ wire \o np \in Seq(Piece) /\ Len(wire \o np) = Len(wire) + Len(np)
        /\ \A i \in 1 .. Len(wire) + Len(np) :
             (wire \o np)[i] = IF i <= Len(wire) THEN wire[i] ELSE np[i - Len(wire)]
    BY <1>1, <1>5, ConcatProperties, Zenon
  <2> QED
    BY <1>5, <2>1, Zenon
<1>7. \A i \in 1 .. k : wire'[Len(wire) + i] = np[i]
  BY <1>1, <1>6
<1>8. \A i \in 1 .. Len(wire) : wire'[i] = wire[i]
  BY <1>1, <1>6
<1> QED
  BY <1>1, <1>5, <1>6, <1>7, <1>8

-----------------------------------------------------------------------------
(* Types                                                                   *)

Typed == TypeOK /\ IdsBounded

LEMMA TypeInit == Init => Typed
<1> SUFFICES ASSUME Init PROVE Typed
  OBVIOUS
<1> USE ShareAssumption DEF Init, LoginId
<1>1. messageId \in LoginId .. LoginId + MaxShares /\ begun \in 0 .. MaxShares
  OBVIOUS
<1>2. /\ sendMutex \in Senders \cup {Free} /\ Login \in Messages
      /\ pc \in [Senders -> {"idle", "loaded", "ready", "sending"}]
  BY DEF Messages, Login
<1>3. /\ register \in [Senders -> LoginId .. LoginId + MaxShares]
      /\ message \in [Senders -> Messages] /\ left \in [Senders -> 0 .. Pieces]
  BY <1>2
<1>4. wire \in Seq(Piece) /\ unread \in 0 .. Capacity
  BY EmptySeq
<1>5. IdsBounded
  BY <1>1 DEF IdsBounded
<1>6. peer \in {"up", "gone"} /\ failed \subseteq Messages /\ raced \in BOOLEAN
  OBVIOUS
<1> HIDE DEF Init
<1> QED
  BY <1>1, <1>2, <1>3, <1>4, <1>5, <1>6 DEF Typed, TypeOK

LEMMA TypeStep == Typed /\ [Next]_vars => Typed'
<1> SUFFICES ASSUME Typed, [Next]_vars PROVE Typed'
  OBVIOUS
<1> USE ShareAssumption DEF Typed, IdsBounded, TypeOK, LoginId
<1>1. ASSUME NEW t \in Miners, LoadId(t) PROVE Typed'
  <2>1. t \in Senders
    BY DEF Senders
  <2>2. raced' \in BOOLEAN
    BY <1>1, Zenon DEF LoadId
  <2>3. begun + 1 \in Messages
    BY <1>1 DEF LoadId, Messages, Login
  <2> QED
    BY <1>1, <2>1, <2>2, <2>3 DEF LoadId, NextId
<1>2. ASSUME NEW t \in Miners, StoreId(t) PROVE Typed'
  BY <1>2 DEF StoreId, StoredId, Senders
<1>3. ASSUME NEW s \in Senders, LockSend(s) PROVE Typed'
  BY <1>3 DEF LockSend
<1>4. ASSUME NEW s \in Senders, SendSome(s) PROVE Typed'
  <2>1. PICK k \in 1 .. left[s] :
          /\ k <= Room /\ wire' = wire \o NextPieces(s, k)
          /\ unread' = unread + k /\ left' = [left EXCEPT ![s] = @ - k]
    BY <1>4 DEF SendSome
  <2>2. wire' \in Seq(Piece)
    BY <2>1, WireGrows
  <2>3. /\ sendMutex' \in Senders \cup {Free}
        /\ pc' \in [Senders -> {"idle", "loaded", "ready", "sending"}]
    BY <1>4 DEF SendSome, Unlock
  <2>4. unread' \in 0 .. Capacity /\ left' \in [Senders -> 0 .. Pieces]
    BY <2>1 DEF Room
  <2> QED
    BY <1>4, <2>2, <2>3, <2>4 DEF SendSome
<1>5. ASSUME NEW s \in Senders, SendFails(s) PROVE Typed'
  BY <1>5 DEF SendFails, Unlock
<1>6. CASE PoolReads
  BY <1>6 DEF PoolReads
<1>7. CASE PeerGone \/ Quiet \/ UNCHANGED vars
  BY <1>7 DEF PeerGone, Quiet, vars
<1> QED
  BY <1>1, <1>2, <1>3, <1>4, <1>5, <1>6, <1>7 DEF Next, Sending

-----------------------------------------------------------------------------
(* Who sends what                                                          *)

LEMMA FreeIsNobody == Free \notin Senders
  BY ShareAssumption DEF Free, Senders, Miners, Owner

LEMMA MutexStep ==
  ASSUME TypeOK, MutexInv, [Next]_vars
  PROVE  MutexInv'
<1> USE FreeIsNobody DEF MutexInv, TypeOK
<1>1. ASSUME NEW t \in Miners, LoadId(t) \/ StoreId(t) PROVE MutexInv'
  BY <1>1 DEF LoadId, StoreId, Senders
<1>2. ASSUME NEW s \in Senders, LockSend(s) PROVE MutexInv'
  BY <1>2 DEF LockSend, SendMutexFree
<1>3. ASSUME NEW s \in Senders, Sending(s) PROVE MutexInv'
  <2>1. sendMutex = s /\ \A u \in Senders \ {s} : pc[u] # "sending"
    BY <1>3 DEF Sending, SendSome, SendFails
  <2>2. UNCHANGED <<sendMutex, pc>> \/ Unlock(s)
    BY <1>3 DEF Sending, SendSome, SendFails
  <2> QED
    BY <2>1, <2>2 DEF Unlock
<1>4. CASE PoolReads \/ PeerGone \/ Quiet \/ UNCHANGED vars
  BY <1>4 DEF PoolReads, PeerGone, Quiet, vars
<1> QED
  BY <1>1, <1>2, <1>3, <1>4 DEF Next

LEMMA LeftStep ==
  ASSUME TypeOK, LeftInv, [Next]_vars
  PROVE  LeftInv'
<1> USE ShareAssumption DEF LeftInv, TypeOK, Senders
<1>1. ASSUME NEW t \in Miners, LoadId(t) \/ StoreId(t) PROVE LeftInv'
  BY <1>1 DEF LoadId, StoreId
<1>2. ASSUME NEW s \in Senders, LockSend(s) PROVE LeftInv'
  BY <1>2 DEF LockSend
<1>3. ASSUME NEW s \in Senders, SendSome(s) PROVE LeftInv'
  BY <1>3 DEF SendSome, AllSent, Unlock
<1>4. ASSUME NEW s \in Senders, SendFails(s) PROVE LeftInv'
  BY <1>4 DEF SendFails, Unlock
<1>5. CASE PoolReads \/ PeerGone \/ Quiet \/ UNCHANGED vars
  BY <1>5 DEF PoolReads, PeerGone, Quiet, vars
<1> QED
  BY <1>1, <1>2, <1>3, <1>4, <1>5 DEF Next, Sending

\* Step of sender s that puts k pieces on the wire.
Puts(s, k) ==
  /\ Len(wire) \in Nat /\ Len(wire') = Len(wire) + k
  /\ \A i \in 1 .. Len(wire) : wire'[i] = wire[i]
  /\ \A i \in 1 .. k :
       wire'[Len(wire) + i] =
         [msg |-> message[s], id |-> register[s], part |-> Pieces - left[s] + i]
  /\ left' = [left EXCEPT ![s] = @ - k]
  /\ pc[s] = "sending" /\ \A u \in Senders \ {s} : pc[u] # "sending"
  /\ IF left[s] = k THEN pc' = [pc EXCEPT ![s] = "idle"] ELSE pc' = pc
  /\ UNCHANGED <<messageId, register, message, begun, failed, raced>>

LEMMA SendSteps ==
  ASSUME TypeOK, MutexInv, NEW s \in Senders, SendSome(s)
  PROVE  /\ left[s] \in 0 .. Pieces
         /\ \E k \in 1 .. left[s] : Puts(s, k)
<1>1. PICK k \in 1 .. left[s] :
        /\ wire' = wire \o NextPieces(s, k) /\ left' = [left EXCEPT ![s] = @ - k]
        /\ IF AllSent(s, k) THEN Unlock(s) ELSE UNCHANGED <<sendMutex, pc>>
        /\ pc[s] = "sending" /\ UNCHANGED <<messageId, register, message, begun, failed, raced>>
  BY DEF SendSome
<1>2. IF left[s] = k THEN pc' = [pc EXCEPT ![s] = "idle"] ELSE pc' = pc
  BY <1>1 DEF AllSent, Unlock
<1>3. \A u \in Senders \ {s} : pc[u] # "sending"
  BY <1>1 DEF MutexInv
<1>4. /\ Len(wire) \in Nat /\ Len(wire') = Len(wire) + k
      /\ \A i \in 1 .. Len(wire) : wire'[i] = wire[i]
      /\ \A i \in 1 .. k :
           wire'[Len(wire) + i] =
             [msg |-> message[s], id |-> register[s], part |-> Pieces - left[s] + i]
  BY <1>1, WireGrows
<1>5. Puts(s, k)
  BY <1>1, <1>2, <1>3, <1>4 DEF Puts
<1> QED
  BY <1>5 DEF TypeOK

\* The steps that put nothing on the wire, begin no message and end none.
Silent ==
  /\ UNCHANGED <<wire, message, register, left, begun, failed>>
  /\ \A s \in Senders : /\ pc'[s] # "idle" <=> pc[s] # "idle"
                        /\ pc'[s] = "sending" => pc[s] \in {"ready", "sending"}
                        /\ pc[s] = "sending" => pc'[s] = "sending"

LEMMA SilentSteps ==
  ASSUME TypeOK,
         \/ \E t \in Miners : StoreId(t)
         \/ \E s \in Senders : LockSend(s)
         \/ PoolReads \/ PeerGone \/ Quiet \/ UNCHANGED vars
  PROVE  Silent
<1>1. ASSUME NEW t \in Miners, StoreId(t) PROVE Silent
  BY <1>1 DEF StoreId, Silent, TypeOK, Senders
<1>2. ASSUME NEW s \in Senders, LockSend(s) PROVE Silent
  BY <1>2 DEF LockSend, Silent, TypeOK
<1>3. CASE PoolReads \/ PeerGone \/ Quiet \/ UNCHANGED vars
  BY <1>3 DEF PoolReads, PeerGone, Quiet, vars, Silent
<1> QED
  BY <1>1, <1>2, <1>3

LEMMA MessagesStep ==
  ASSUME TypeOK, MutexInv, MessagesInv, [Next]_vars
  PROVE  MessagesInv'
<1> USE DEF MessagesInv, Active
<1>1. ASSUME NEW t \in Miners, LoadId(t) PROVE MessagesInv'
  <2>1. /\ t \in Senders /\ begun \in Nat /\ begun' = begun + 1
        /\ message' = [message EXCEPT ![t] = begun + 1]
        /\ pc' = [pc EXCEPT ![t] = "loaded"] /\ wire' = wire
    BY <1>1, ShareAssumption DEF LoadId, TypeOK, Senders
  <2>2. \A u \in Senders \ {t} : message'[u] = message[u] /\ pc'[u] = pc[u]
    BY <2>1 DEF TypeOK
  <2>3. /\ message'[t] = begun + 1
        /\ \A u \in Senders : message[u] \in Int /\ message[u] <= begun
    BY <2>1 DEF TypeOK, Messages
  <2>4. \A i \in 1 .. Len(wire) : wire[i].msg \in Int
    <3>1. \A i \in 1 .. Len(wire) : wire[i] \in Piece
      BY ElementOfSeq DEF TypeOK
    <3> QED
      BY <3>1 DEF Piece, Messages
  <2> QED
    BY <2>1, <2>2, <2>3, <2>4
<1>2. ASSUME NEW s \in Senders, SendSome(s) PROVE MessagesInv'
  <2>1. PICK k \in 1 .. left[s] : Puts(s, k)
    BY <1>2, SendSteps
  <2>2. \A i \in 1 .. Len(wire') : wire'[i].msg <= begun'
    <3> SUFFICES ASSUME NEW i \in 1 .. Len(wire') PROVE wire'[i].msg <= begun'
      OBVIOUS
    <3>1. CASE i <= Len(wire)
      BY <2>1, <3>1 DEF Puts
    <3>2. CASE i > Len(wire)
      <4>1. i - Len(wire) \in 1 .. k /\ i = Len(wire) + (i - Len(wire))
        BY <2>1, <3>2 DEF Puts
      <4>2. PICK j \in 1 .. k : i = Len(wire) + j
        BY <4>1
      <4>3. wire'[i] = [msg |-> message[s], id |-> register[s], part |-> Pieces - left[s] + j]
        BY <2>1, <4>2 DEF Puts
      <4> QED
        BY <2>1, <4>3 DEF Puts
    <3> QED
      BY <2>1, <3>1, <3>2 DEF Puts
  <2>3. \A u \in Senders : pc'[u] # "idle" => pc[u] # "idle"
    BY <2>1 DEF Puts, TypeOK
  <2> QED
    BY <2>1, <2>2, <2>3 DEF Puts
<1>3. ASSUME NEW s \in Senders, SendFails(s) PROVE MessagesInv'
  BY <1>3 DEF SendFails, Unlock, TypeOK
<1>4. CASE Silent
  BY <1>4 DEF Silent
<1> QED
  BY <1>1, <1>2, <1>3, <1>4, SilentSteps DEF Next, Sending

-----------------------------------------------------------------------------
(* Where a line begins                                                     *)

LEMMA TailStep ==
  ASSUME TypeOK, MutexInv, LeftInv, TailInv, [Next]_vars
  PROVE  TailInv'
<1>1. ASSUME NEW t \in Miners, LoadId(t) PROVE TailInv'
  <2>1. /\ UNCHANGED <<wire, failed>> /\ pc[t] = "idle" /\ pc'[t] = "loaded" /\ t \in Senders
        /\ \A u \in Senders \ {t} : /\ pc'[u] = pc[u] /\ left'[u] = left[u]
                                    /\ message'[u] = message[u] /\ register'[u] = register[u]
    BY <1>1 DEF LoadId, TypeOK, Senders
  <2> QED
    BY <2>1 DEF TailInv, Midway
<1>2. ASSUME NEW s \in Senders, SendSome(s) PROVE TailInv'
  <2>1. PICK k \in 1 .. left[s] : Puts(s, k)
    BY <1>2, SendSteps
  <2>2. /\ Len(wire') = Len(wire) + k /\ Len(wire) \in Nat /\ k \in Nat \ {0}
        /\ wire'[Len(wire) + k] =
             [msg |-> message[s], id |-> register[s], part |-> Pieces - left[s] + k]
    BY <2>1 DEF Puts, TypeOK
  <2>3. left[s] \in 0 .. Pieces /\ left'[s] = left[s] - k
        /\ \A u \in Senders \ {s} : pc'[u] # "sending"
    BY <2>1 DEF Puts, TypeOK
  <2>4. Len(wire') > 0 /\ wire'[Len(wire')] =
             [msg |-> message'[s], id |-> register'[s], part |-> Pieces - left'[s]]
    <3>1. Pieces - left[s] + k = Pieces - left'[s]
      BY <2>2, <2>3, ShareAssumption
    <3>2. message' = message /\ register' = register /\ Len(wire) + k > 0
      BY <2>1, <2>2 DEF Puts
    <3> QED
      BY <2>2, <3>1, <3>2
  <2>5. CASE left[s] = k
    <3>1. pc'[s] = "idle" /\ wire'[Len(wire')].part = Pieces
      BY <2>1, <2>3, <2>4, <2>5, ShareAssumption DEF Puts, TypeOK
    <3> QED
      BY <2>3, <3>1 DEF TailInv, Midway
  <2>6. CASE left[s] # k
    <3>1. pc'[s] = "sending" /\ left'[s] < Pieces
      BY <2>1, <2>3, <2>6, ShareAssumption DEF Puts
    <3> QED
      BY <2>3, <2>4, <3>1 DEF TailInv, Midway
  <2> QED
    BY <2>5, <2>6
<1>3. ASSUME NEW s \in Senders, SendFails(s) PROVE TailInv'
  <2>1. /\ wire' = wire /\ failed' = failed \cup {message[s]}
        /\ \A u \in Senders : pc'[u] # "sending"
        /\ \A u \in Senders \ {s} : pc[u] # "sending"
    BY <1>3 DEF SendFails, Unlock, TypeOK, MutexInv
  <2>2. Len(wire) > 0 =>
          wire[Len(wire)].part = Pieces \/ wire[Len(wire)].msg \in failed \cup {message[s]}
    <3>1. CASE Midway(s)
      <4>1. wire[Len(wire)] =
              [msg |-> message[s], id |-> register[s], part |-> Pieces - left[s]]
        BY <3>1 DEF TailInv
      <4> QED
        BY <4>1
    <3>2. CASE ~Midway(s)
      BY <2>1, <3>2 DEF TailInv, Midway
    <3> QED
      BY <3>1, <3>2
  <2> QED
    BY <2>1, <2>2 DEF TailInv, Midway
<1>4. CASE Silent
  <2>1. \A s \in Senders : Midway(s)' <=> Midway(s)
    BY <1>4, ShareAssumption DEF Silent, Midway, LeftInv, TypeOK
  <2> QED
    BY <1>4, <2>1 DEF Silent, TailInv
<1> QED
  BY <1>1, <1>2, <1>3, <1>4, SilentSteps DEF Next, Sending

LEMMA DamageStep ==
  ASSUME TypeOK, MutexInv, TailInv, DamageConfined, [Next]_vars
  PROVE  DamageConfined'
<1>1. ASSUME wire' = wire, failed \subseteq failed' PROVE DamageConfined'
  BY <1>1 DEF DamageConfined, Begins, Continues
<1>2. ASSUME NEW s \in Senders, SendSome(s) PROVE DamageConfined'
  <2>1. PICK k \in 1 .. left[s] : Puts(s, k)
    BY <1>2, SendSteps
  <2> DEFINE n == Len(wire)
             q == Pieces - left[s]
  <2>2. n \in Nat /\ Len(wire') = n + k /\ k \in Nat \ {0} /\ q \in 0 .. Pieces
    BY <2>1, ShareAssumption DEF Puts, TypeOK
  <2>3. /\ \A i \in 1 .. n : wire'[i] = wire[i]
        /\ \A i \in 1 .. k :
             wire'[n + i] = [msg |-> message[s], id |-> register[s], part |-> q + i]
    BY <2>1 DEF Puts
  <2>4. \/ q > 0 /\ n > 0 /\ wire[n] = [msg |-> message[s], id |-> register[s], part |-> q]
        \/ q = 0 /\ (n > 0 => wire[n].part = Pieces \/ wire[n].msg \in failed)
    BY <2>1, ShareAssumption DEF Puts, TailInv, Midway, TypeOK
  <2> DEFINE Sound(i) ==
        /\ wire'[i].part = 1 \/ (i > 1 /\ wire'[i] = [wire'[i - 1] EXCEPT !.part = @ + 1])
        /\ (wire'[i].part = 1 /\ i > 1 /\ wire'[i - 1].part < Pieces) =>
             wire'[i - 1].msg \in failed
  <2> HIDE DEF n, q
  <2>5. ASSUME NEW i \in 1 .. n PROVE Sound(i)
    <3>1. wire'[i] = wire[i] /\ (i > 1 => wire'[i - 1] = wire[i - 1])
      BY <2>2, <2>3
    <3> QED
      BY <3>1 DEF DamageConfined, Begins, Continues, n
  <2>6. ASSUME NEW j \in 1 .. k PROVE Sound(n + j)
    <3>1. wire'[n + j] = [msg |-> message[s], id |-> register[s], part |-> q + j]
      BY <2>3
    <3>2. CASE j = 1
      <4>1. n > 0 => wire'[n] = wire[n] /\ (n + j) - 1 = n
        BY <2>2, <2>3, <3>2
      <4>2. n = 0 => ~(n + j > 1)
        BY <3>2
      <4>3. CASE q > 0
        BY <2>2, <2>4, <3>1, <3>2, <4>1, <4>3
      <4>4. CASE q = 0
        BY <2>2, <2>4, <3>1, <3>2, <4>1, <4>2, <4>4, ShareAssumption
      <4> QED
        BY <2>2, <4>3, <4>4
    <3>3. CASE j # 1
      <4>1. /\ wire'[(n + j) - 1] =
                 [msg |-> message[s], id |-> register[s], part |-> q + (j - 1)]
            /\ n + j > 1 /\ q + j # 1 /\ q + j = (q + (j - 1)) + 1
        <5>1. j - 1 \in 1 .. k /\ (n + j) - 1 = n + (j - 1)
          BY <2>2, <3>3
        <5> QED
          BY <2>2, <2>3, <3>3, <5>1
      <4> QED
        BY <3>1, <4>1
    <3> QED
      BY <3>2, <3>3
  <2>7. \A i \in 1 .. Len(wire') : Sound(i)
    <3> SUFFICES ASSUME NEW i \in 1 .. Len(wire') PROVE Sound(i)
      OBVIOUS
    <3>1. i \in 1 .. n \/ (i - n \in 1 .. k /\ i = n + (i - n))
      BY <2>2
    <3> HIDE DEF Sound
    <3> QED
      BY <2>5, <2>6, <3>1
  <2> QED
    BY <2>1, <2>7 DEF Puts, DamageConfined, Begins, Continues
<1>3. ASSUME NEW t \in Miners, LoadId(t) PROVE DamageConfined'
  BY <1>1, <1>3 DEF LoadId
<1>4. ASSUME NEW s \in Senders, SendFails(s) PROVE DamageConfined'
  BY <1>1, <1>4 DEF SendFails
<1>5. CASE Silent
  BY <1>1, <1>5 DEF Silent
<1> QED
  BY <1>2, <1>3, <1>4, <1>5, SilentSteps DEF Next, Sending

-----------------------------------------------------------------------------
(* What a sender leaves behind                                             *)

LEMMA SentKept ==
  ASSUME wire' = wire, NEW m, NEW n
  PROVE  Sent(m, n)' <=> Sent(m, n)
BY DEF Sent, OnWire

LEMMA OthersKept ==
  ASSUME NEW s \in Senders, NEW k \in Nat, Puts(s, k), NEW m, m # message[s], NEW n
  PROVE  Sent(m, n)' <=> Sent(m, n)
<1> DEFINE l == Len(wire)
<1>1. /\ l \in Nat /\ Len(wire') = l + k
      /\ \A i \in 1 .. l : wire'[i] = wire[i]
      /\ \A i \in 1 .. k : wire'[l + i].msg # m
  <2>1. ASSUME NEW i \in 1 .. k PROVE wire'[l + i].msg = message[s]
    <3>1. wire'[l + i] = [msg |-> message[s], id |-> register[s], part |-> Pieces - left[s] + i]
      BY DEF Puts
    <3> QED
      BY <3>1
  <2> QED
    BY <2>1 DEF Puts
<1> HIDE DEF l
<1>2. \A i \in 1 .. l + k : i \in 1 .. l \/ (i - l \in 1 .. k /\ i = l + (i - l))
  BY <1>1
<1>3. \A i \in 1 .. l + k : i \in 1 .. l \/ wire'[i].msg # m
  BY <1>1, <1>2
<1>4. 1 .. l \subseteq 1 .. l + k
  BY <1>1
<1>5. {i \in 1 .. l + k : wire'[i].msg = m} = {i \in 1 .. l : wire[i].msg = m}
  BY <1>1, <1>3, <1>4, Zenon
<1>6. OnWire(m)' = OnWire(m) /\ \A i \in OnWire(m) : wire'[i] = wire[i]
  BY <1>1, <1>5 DEF OnWire, l
<1> QED
  BY <1>6 DEF Sent

LEMMA SenderAdds ==
  ASSUME NEW s \in Senders, NEW k \in Nat, Puts(s, k),
         NEW n \in Nat, n = Pieces - left[s], NEW m, m = message[s], Sent(m, n)
  PROVE  Sent(m, n + k)'
<1> DEFINE l == Len(wire)
           new == l + 1 .. l + k
<1>1. /\ l \in Nat /\ Len(wire') = l + k
      /\ \A i \in 1 .. l : wire'[i] = wire[i]
      /\ \A i \in 1 .. k : /\ wire'[l + i].msg = m
                           /\ wire'[l + i].part = n + i
  <2>1. ASSUME NEW i \in 1 .. k
        PROVE  wire'[l + i].msg = message[s] /\ wire'[l + i].part = Pieces - left[s] + i
    <3>1. wire'[l + i] = [msg |-> message[s], id |-> register[s], part |-> Pieces - left[s] + i]
      BY DEF Puts
    <3> QED
      BY <3>1
  <2> QED
    BY <2>1 DEF Puts
<1>2. Cardinality(OnWire(m)) = n /\ {wire[i].part : i \in OnWire(m)} = 1 .. n
  BY DEF Sent
<1>3. OnWire(m) \subseteq 1 .. l /\ \A i \in OnWire(m) : wire[i].msg = m
  BY DEF OnWire
<1> HIDE DEF l
<1>4. \A i \in new : i - l \in 1 .. k /\ i = l + (i - l)
  BY <1>1
<1>5. \A i \in new : wire'[i].msg = m /\ wire'[i].part = n + (i - l)
  BY <1>1, <1>4
<1>6. OnWire(m)' = OnWire(m) \cup new
  <2>1. OnWire(m)' = {i \in 1 .. l + k : wire'[i].msg = m}
    BY <1>1 DEF OnWire
  <2>2. OnWire(m) = {i \in 1 .. l : wire[i].msg = m}
    BY DEF OnWire, l
  <2>3. 1 .. l + k = (1 .. l) \cup new
    BY <1>1
  <2> HIDE DEF new
  <2> QED
    BY <1>1, <1>5, <2>1, <2>2, <2>3, Zenon
<1>7. IsFiniteSet(OnWire(m)) /\ IsFiniteSet(new) /\ Cardinality(new) = k
      /\ OnWire(m) \cap new = {}
  <2>1. IsFiniteSet(1 .. l)
    BY <1>1, FS_Interval
  <2>2. IsFiniteSet(OnWire(m))
    BY <1>3, <2>1, FS_Subset
  <2>3. l + 1 \in Int /\ l + k \in Int
    BY <1>1
  <2>4. /\ IsFiniteSet(new)
        /\ Cardinality(new) = IF l + 1 > l + k THEN 0 ELSE (l + k) - (l + 1) + 1
    BY <2>3, FS_Interval, Zenon
  <2> QED
    BY <1>1, <1>3, <2>2, <2>3, <2>4
<1>8. Cardinality(OnWire(m) \cup new) = n + k
  <2>1. /\ Cardinality(OnWire(m) \cup new)
             = Cardinality(OnWire(m)) + Cardinality(new) - Cardinality(OnWire(m) \cap new)
    BY <1>7, FS_Union
  <2>2. Cardinality(OnWire(m) \cap new) = 0
    BY <1>7, FS_EmptySet
  <2> QED
    BY <1>2, <1>7, <2>1, <2>2
<1>9. {wire'[i].part : i \in OnWire(m) \cup new} = 1 .. n + k
  <2>1. \A i \in OnWire(m) : wire'[i].part = wire[i].part
    BY <1>1, <1>3
  <2>2. {wire'[i].part : i \in OnWire(m)} = 1 .. n
    BY <1>2, <2>1
  <2>3. {wire'[i].part : i \in new} = n + 1 .. n + k
    <3>1. \A i \in new : wire'[i].part \in n + 1 .. n + k
      BY <1>1, <1>5
    <3>2. ASSUME NEW p \in n + 1 .. n + k PROVE \E i \in new : wire'[i].part = p
      <4>1. l + (p - n) \in new /\ (l + (p - n)) - l = p - n /\ n + (p - n) = p
        BY <1>1
      <4>2. wire'[l + (p - n)].part = n + ((l + (p - n)) - l)
        BY <1>5, <4>1
      <4> QED
        BY <4>1, <4>2
    <3> HIDE DEF new
    <3> QED
      BY <3>1, <3>2
  <2>4. (1 .. n) \cup (n + 1 .. n + k) = 1 .. n + k
    OBVIOUS
  <2> HIDE DEF new
  <2>5. {wire'[i].part : i \in OnWire(m) \cup new}
          = {wire'[i].part : i \in OnWire(m)} \cup {wire'[i].part : i \in new}
    OBVIOUS
  <2> QED
    BY <2>2, <2>3, <2>4, <2>5
<1> HIDE DEF new
<1> QED
  BY <1>6, <1>8, <1>9 DEF Sent

LEMMA CountStep ==
  ASSUME TypeOK, MutexInv, MessagesInv, CountInv, [Next]_vars
  PROVE  CountInv'
<1>1. ASSUME NEW t \in Miners, LoadId(t) PROVE CountInv'
  <2>1. /\ t \in Senders /\ wire' = wire /\ begun \in Nat
        /\ message'[t] = begun + 1 /\ left'[t] = Pieces
        /\ \A u \in Senders \ {t} : /\ message'[u] = message[u] /\ left'[u] = left[u]
                                    /\ pc'[u] = pc[u]
    BY <1>1, ShareAssumption DEF LoadId, TypeOK, Senders
  <2>2. PICK m \in Nat : m = begun + 1
    BY <2>1
  <2>3. OnWire(m) = {}
    BY <2>1, <2>2 DEF OnWire, MessagesInv
  <2>4. Sent(m, 0)
    BY <2>3, FS_EmptySet DEF Sent
  <2>5. Sent(m, 0)'
    BY <2>1, <2>4, SentKept
  <2>6. Sent(message[t], Pieces - left[t])'
    <3>1. message'[t] = m /\ Pieces - left'[t] = 0
      BY <2>1, <2>2, ShareAssumption
    <3> QED
      BY <2>5, <3>1 DEF Sent, OnWire
  <2>7. ASSUME NEW u \in Senders \ {t}, Active(u)' PROVE Sent(message[u], Pieces - left[u])'
    <3>1. PICK m2, n2 : m2 = message[u] /\ n2 = Pieces - left[u]
      OBVIOUS
    <3>2. Sent(m2, n2)
      BY <2>1, <2>7, <3>1 DEF CountInv, Active
    <3>3. Sent(m2, n2)'
      BY <2>1, <3>2, SentKept
    <3> QED
      BY <2>1, <3>1, <3>3 DEF Sent, OnWire
  <2> QED
    BY <2>6, <2>7 DEF CountInv
<1>2. ASSUME NEW s \in Senders, SendSome(s) PROVE CountInv'
  <2>1. PICK k \in 1 .. left[s] : Puts(s, k) /\ left[s] \in 0 .. Pieces /\ k \in Nat
    BY <1>2, SendSteps
  <2>2. /\ message' = message /\ Active(s) /\ left'[s] = left[s] - k
        /\ \A u \in Senders \ {s} : left'[u] = left[u] /\ pc'[u] = pc[u]
    BY <2>1 DEF Puts, Active, TypeOK
  <2>3. Sent(message[s], Pieces - left[s])'
    <3>1. PICK m, n \in Nat : m = message[s] /\ n = Pieces - left[s]
      BY <2>1, ShareAssumption DEF TypeOK, Messages, Login
    <3>2. Sent(m, n)
      BY <2>2, <3>1 DEF CountInv
    <3>3. Sent(m, n + k)'
      BY <2>1, <3>1, <3>2, SenderAdds
    <3>4. message'[s] = m /\ Pieces - left'[s] = n + k
      BY <2>1, <2>2, <3>1, ShareAssumption
    <3> QED
      BY <3>3, <3>4 DEF Sent, OnWire
  <2>4. ASSUME NEW u \in Senders \ {s}, Active(u)' PROVE Sent(message[u], Pieces - left[u])'
    <3>1. Active(u)
      BY <2>2, <2>4 DEF Active
    <3>2. PICK m, n : m = message[u] /\ n = Pieces - left[u]
      OBVIOUS
    <3>3. Sent(m, n) /\ m # message[s]
      BY <2>2, <3>1, <3>2 DEF CountInv, MessagesInv
    <3>4. Sent(m, n)'
      BY <2>1, <3>3, OthersKept
    <3>5. message'[u] = m /\ Pieces - left'[u] = n
      BY <2>2, <3>2
    <3> QED
      BY <3>4, <3>5 DEF Sent, OnWire
  <2> QED
    BY <2>3, <2>4 DEF CountInv
<1>3. ASSUME wire' = wire /\ message' = message /\ left' = left,
             \A s \in Senders : pc'[s] # "idle" => pc[s] # "idle"
      PROVE  CountInv'
  <2> SUFFICES ASSUME NEW u \in Senders, Active(u)' PROVE Sent(message[u], Pieces - left[u])'
    BY DEF CountInv
  <2>1. PICK m, n : m = message[u] /\ n = Pieces - left[u]
    OBVIOUS
  <2>2. Sent(m, n)
    BY <1>3, <2>1 DEF CountInv, Active
  <2>3. Sent(m, n)'
    BY <1>3, <2>2, SentKept
  <2> QED
    BY <1>3, <2>1, <2>3 DEF Sent, OnWire
<1>4. ASSUME NEW s \in Senders, SendFails(s) PROVE CountInv'
  BY <1>3, <1>4 DEF SendFails, Unlock, TypeOK
<1>5. CASE Silent
  BY <1>3, <1>5 DEF Silent
<1> QED
  BY <1>1, <1>2, <1>4, <1>5, SilentSteps DEF Next, Sending

LEMMA SentOrFailedStep ==
  ASSUME TypeOK, MutexInv, MessagesInv, CountInv, SentOrFailed, [Next]_vars
  PROVE  SentOrFailed'
<1> USE DEF Sent
<1>1. SUFFICES ASSUME NEW m \in 0 .. begun'
               PROVE  \/ m \in failed'
                      \/ \E s \in Senders : pc'[s] # "idle" /\ message'[s] = m
                      \/ Sent(m, Pieces)'
  BY DEF SentOrFailed
<1> HIDE DEF Sent
<1>2. m \in 0 .. begun =>
        \/ m \in failed
        \/ \E s \in Senders : pc[s] # "idle" /\ message[s] = m
        \/ Sent(m, Pieces)
  BY DEF SentOrFailed, Sent
<1>3. ASSUME NEW t \in Miners, LoadId(t)
      PROVE  \/ m \in failed'
             \/ \E s \in Senders : pc'[s] # "idle" /\ message'[s] = m
             \/ Sent(m, Pieces)'
  <2>1. /\ t \in Senders /\ pc[t] = "idle" /\ pc'[t] # "idle" /\ message'[t] = begun + 1
        /\ wire' = wire /\ failed' = failed /\ begun \in Nat /\ begun' = begun + 1
        /\ \A u \in Senders \ {t} : message'[u] = message[u] /\ pc'[u] = pc[u]
    BY <1>3, ShareAssumption DEF LoadId, TypeOK, Senders
  <2>2. Sent(m, Pieces)' <=> Sent(m, Pieces)
    BY <2>1, SentKept
  <2>3. m \in 0 .. begun \/ m = begun + 1
    BY <2>1
  <2> QED
    BY <1>2, <2>1, <2>2, <2>3
<1>4. ASSUME NEW s \in Senders, SendSome(s)
      PROVE  \/ m \in failed'
             \/ \E u \in Senders : pc'[u] # "idle" /\ message'[u] = m
             \/ Sent(m, Pieces)'
  <2>1. PICK k \in 1 .. left[s] : Puts(s, k) /\ left[s] \in 0 .. Pieces /\ k \in Nat
    BY <1>4, SendSteps
  <2>2. /\ message' = message /\ failed' = failed /\ begun' = begun /\ pc[s] = "sending"
        /\ \A u \in Senders \ {s} : pc'[u] = pc[u]
        /\ left[s] # k => pc'[s] = "sending"
    BY <2>1 DEF Puts, TypeOK
  <2>3. CASE m = message[s]
    <3>1. CASE left[s] = k
      <4>1. PICK n \in Nat : n = Pieces - left[s]
        BY <2>1, ShareAssumption
      <4>2. Sent(m, n)
        BY <2>2, <2>3, <4>1 DEF CountInv, Active
      <4>3. Sent(m, n + k)'
        BY <2>1, <2>3, <4>1, <4>2, SenderAdds
      <4>4. n + k = Pieces
        BY <2>1, <3>1, <4>1, ShareAssumption
      <4> QED
        BY <4>3, <4>4
    <3>2. CASE left[s] # k
      BY <2>2, <2>3, <3>2
    <3> QED
      BY <3>1, <3>2
  <2>4. CASE m # message[s]
    <3>1. Sent(m, Pieces)' <=> Sent(m, Pieces)
      BY <2>1, <2>4, OthersKept
    <3> QED
      BY <1>2, <2>2, <2>4, <3>1
  <2> QED
    BY <2>3, <2>4
<1>5. ASSUME NEW s \in Senders, SendFails(s)
      PROVE  \/ m \in failed'
             \/ \E u \in Senders : pc'[u] # "idle" /\ message'[u] = m
             \/ Sent(m, Pieces)'
  <2>1. /\ wire' = wire /\ message' = message /\ begun' = begun
        /\ failed' = failed \cup {message[s]}
        /\ \A u \in Senders \ {s} : pc'[u] = pc[u]
    BY <1>5 DEF SendFails, Unlock, TypeOK
  <2>2. Sent(m, Pieces)' <=> Sent(m, Pieces)
    BY <2>1, SentKept
  <2> QED
    BY <1>2, <2>1, <2>2
<1>6. CASE Silent
  <2>1. Sent(m, Pieces)' <=> Sent(m, Pieces)
    BY <1>6, SentKept DEF Silent
  <2> QED
    BY <1>2, <1>6, <2>1 DEF Silent
<1> QED
  BY <1>3, <1>4, <1>5, <1>6, SilentSteps DEF Next, Sending

-----------------------------------------------------------------------------
(* Which message carries which id                                          *)

LEMMA IdsStep ==
  ASSUME TypeOK, IdsBounded, MutexInv, IdsInv, [Next]_vars
  PROVE  IdsInv'
<1> USE DEF LoginId
<1>1. ASSUME NEW t \in Miners, LoadId(t) PROVE IdsInv'
  <2>1. /\ t \in Senders /\ wire' = wire /\ messageId \in Int /\ messageId >= 1
        /\ register'[t] = messageId + 1
        /\ \A u \in Senders \ {t} : message'[u] = message[u] /\ register'[u] = register[u]
    BY <1>1, ShareAssumption DEF LoadId, NextId, TypeOK, Senders
  <2>2. register'[t] > 1
    BY <2>1
  <2> QED
    BY <2>1, <2>2 DEF IdsInv
<1>2. ASSUME NEW s \in Senders, SendSome(s) PROVE IdsInv'
  <2>1. PICK k \in 1 .. left[s] : Puts(s, k) /\ k \in Nat
    BY <1>2, SendSteps
  <2> SUFFICES ASSUME NEW i \in 1 .. Len(wire')
               PROVE  wire'[i].msg # Login => wire'[i].id > 1
    BY <2>1 DEF Puts, IdsInv
  <2>2. CASE i <= Len(wire)
    BY <2>1, <2>2 DEF Puts, IdsInv
  <2>3. CASE i > Len(wire)
    <3>1. PICK j \in 1 .. k : i = Len(wire) + j
      <4>1. i - Len(wire) \in 1 .. k /\ i = Len(wire) + (i - Len(wire))
        BY <2>1, <2>3 DEF Puts
      <4> QED
        BY <4>1
    <3>2. wire'[i] = [msg |-> message[s], id |-> register[s], part |-> Pieces - left[s] + j]
      BY <2>1, <3>1 DEF Puts
    <3> QED
      BY <3>2 DEF IdsInv
  <2> QED
    BY <2>1, <2>2, <2>3 DEF Puts
<1>3. ASSUME NEW s \in Senders, SendFails(s) PROVE IdsInv'
  BY <1>3 DEF SendFails, IdsInv
<1>4. CASE Silent
  BY <1>4 DEF Silent, IdsInv
<1> QED
  BY <1>1, <1>2, <1>3, <1>4, SilentSteps DEF Next, Sending

LEMMA UnracedStep ==
  ASSUME TypeOK, MutexInv, MessagesInv, UnracedInv, [Next]_vars
  PROVE  UnracedInv'
<1> USE DEF LoginId
<1>0. ~raced' => ~raced
  <2>1. ASSUME NEW t \in Miners, LoadId(t) PROVE ~raced' => ~raced
    BY <2>1, Zenon DEF LoadId
  <2>2. ASSUME NEW t \in Miners, StoreId(t) PROVE ~raced' => ~raced
    BY <2>2 DEF StoreId
  <2>3. ASSUME NEW s \in Senders, LockSend(s) \/ SendSome(s) \/ SendFails(s)
        PROVE  ~raced' => ~raced
    BY <2>3 DEF LockSend, SendSome, SendFails
  <2>4. CASE PoolReads \/ PeerGone \/ Quiet \/ UNCHANGED vars
    BY <2>4 DEF PoolReads, PeerGone, Quiet, vars
  <2> QED
    BY <2>1, <2>2, <2>3, <2>4 DEF Next, Sending
<1> SUFFICES ASSUME ~raced' PROVE UnracedInv'
  BY DEF UnracedInv
<1>1. /\ \A s \in Senders : register[s] = 1 + message[s]
      /\ \A i \in 1 .. Len(wire) : wire[i].id = 1 + wire[i].msg
      /\ \A t \in Senders : pc[t] = "loaded" => message[t] = begun
      /\ (\A t \in Senders : pc[t] # "loaded") => messageId = 1 + begun
  BY <1>0 DEF UnracedInv
<1>2. ASSUME NEW t \in Miners, LoadId(t) PROVE UnracedInv'
  <2>1. /\ t \in Senders /\ wire' = wire /\ begun \in Nat /\ begun' = begun + 1
        /\ messageId' = messageId /\ pc'[t] = "loaded" /\ message'[t] = begun + 1
        /\ register'[t] = messageId + 1
        /\ \A u \in Senders \ {t} : /\ message'[u] = message[u] /\ register'[u] = register[u]
                                    /\ pc'[u] = pc[u]
    BY <1>2, ShareAssumption DEF LoadId, NextId, TypeOK, Senders
  <2>2. \A u \in Miners : pc[u] # "loaded"
    BY <1>2, Zenon DEF LoadId
  <2>3. pc[Owner] # "loaded"
    BY <1>2 DEF LoadId
  <2>4. \A u \in Senders : pc[u] # "loaded"
    BY <2>2, <2>3 DEF Senders
  <2>5. register'[t] = 1 + message'[t]
    BY <1>1, <2>1, <2>4
  <2> QED
    BY <1>1, <2>1, <2>4, <2>5 DEF UnracedInv
<1>3. ASSUME NEW t \in Miners, StoreId(t) PROVE UnracedInv'
  <2>1. /\ t \in Senders /\ UNCHANGED <<wire, message, register, begun>>
        /\ pc[t] = "loaded" /\ messageId' = register[t]
        /\ \A u \in Senders \ {t} : pc'[u] = pc[u]
        /\ pc'[t] = "ready"
    BY <1>3 DEF StoreId, StoredId, TypeOK, Senders
  <2>2. messageId' = 1 + begun
    BY <1>1, <2>1
  <2> QED
    BY <1>1, <2>1, <2>2 DEF UnracedInv
<1>4. ASSUME NEW s \in Senders, SendSome(s) PROVE UnracedInv'
  <2>1. PICK k \in 1 .. left[s] : Puts(s, k) /\ k \in Nat
    BY <1>4, SendSteps
  <2>2. UNCHANGED <<messageId, register, message, begun>>
    BY <2>1 DEF Puts
  <2>3. \A u \in Senders : pc'[u] = "loaded" <=> pc[u] = "loaded"
    BY <2>1 DEF Puts, TypeOK
  <2>4. ASSUME NEW i \in 1 .. Len(wire') PROVE wire'[i].id = 1 + wire'[i].msg
    <3>1. CASE i <= Len(wire)
      BY <1>1, <2>1, <3>1 DEF Puts
    <3>2. CASE i > Len(wire)
      <4>1. PICK j \in 1 .. k : i = Len(wire) + j
        <5>1. i - Len(wire) \in 1 .. k /\ i = Len(wire) + (i - Len(wire))
          BY <2>1, <2>4, <3>2 DEF Puts
        <5> QED
          BY <5>1
      <4>2. wire'[i] = [msg |-> message[s], id |-> register[s], part |-> Pieces - left[s] + j]
        BY <2>1, <4>1 DEF Puts
      <4> QED
        BY <1>1, <4>2
    <3> QED
      BY <2>1, <3>1, <3>2 DEF Puts
  <2> QED
    BY <1>1, <2>2, <2>3, <2>4 DEF UnracedInv
<1>5. ASSUME NEW s \in Senders, LockSend(s) \/ SendFails(s) PROVE UnracedInv'
  <2>1. UNCHANGED <<wire, messageId, register, message, begun>>
    BY <1>5 DEF LockSend, SendFails
  <2>2. \A u \in Senders : pc'[u] = "loaded" <=> pc[u] = "loaded"
    BY <1>5 DEF LockSend, SendFails, Unlock, TypeOK
  <2> QED
    BY <1>1, <2>1, <2>2 DEF UnracedInv
<1>6. CASE PoolReads \/ PeerGone \/ Quiet \/ UNCHANGED vars
  BY <1>1, <1>6 DEF PoolReads, PeerGone, Quiet, vars, UnracedInv
<1> QED
  BY <1>2, <1>3, <1>4, <1>5, <1>6 DEF Next, Sending

-----------------------------------------------------------------------------
(* The inductive invariant and the theorems                                *)

ChannelInv ==
  /\ TypeOK /\ IdsBounded
  /\ MutexInv /\ MessagesInv /\ LeftInv /\ TailInv /\ CountInv
  /\ DamageConfined /\ SentOrFailed
  /\ IdsInv /\ UnracedInv

LEMMA ChannelInit == Init => ChannelInv
<1> SUFFICES ASSUME Init PROVE ChannelInv
  OBVIOUS
<1>1. TypeOK /\ IdsBounded
  BY TypeInit DEF Typed
<1>2. /\ wire = <<>> /\ Len(wire) = 0 /\ begun = 0 /\ messageId = LoginId
      /\ \A s \in Senders : /\ pc[s] = IF s = Owner THEN "ready" ELSE "idle"
                            /\ register[s] = LoginId /\ message[s] = Login
                            /\ left[s] = Pieces
  BY DEF Init
<1>3. Pieces - Pieces = 0 /\ Pieces > 0
  BY ShareAssumption
<1>4. MutexInv
  BY <1>2, FreeIsNobody DEF MutexInv, Init
<1>5. MessagesInv
  BY <1>2 DEF MessagesInv, Active, Login
<1>6. LeftInv
  BY <1>2, <1>3 DEF LeftInv
<1>7. TailInv
  BY <1>2 DEF TailInv, Midway
<1>8. CountInv
  <2>1. \A m : OnWire(m) = {}
    BY <1>2 DEF OnWire
  <2>2. \A m : Sent(m, 0)
    BY <2>1, FS_EmptySet DEF Sent
  <2> QED
    BY <1>2, <1>3, <2>2 DEF CountInv
<1>9. DamageConfined
  BY <1>2 DEF DamageConfined
<1>10. SentOrFailed
  BY <1>2 DEF SentOrFailed, Senders, Owner, Login
<1>11. IdsInv /\ UnracedInv
  BY <1>2 DEF IdsInv, UnracedInv, Login, LoginId
<1> QED
  BY <1>1, <1>4, <1>5, <1>6, <1>7, <1>8, <1>9, <1>10, <1>11 DEF ChannelInv

LEMMA ChannelStep == ChannelInv /\ [Next]_vars => ChannelInv'
<1> SUFFICES ASSUME ChannelInv, [Next]_vars PROVE ChannelInv'
  OBVIOUS
<1>1. /\ TypeOK /\ IdsBounded /\ MutexInv /\ MessagesInv /\ LeftInv /\ TailInv /\ CountInv
      /\ DamageConfined /\ SentOrFailed /\ IdsInv /\ UnracedInv
  BY DEF ChannelInv
<1>2. TypeOK' /\ IdsBounded'
  BY <1>1, TypeStep DEF Typed
<1>3. MutexInv' /\ MessagesInv' /\ LeftInv'
  BY <1>1, MutexStep, MessagesStep, LeftStep
<1>4. TailInv' /\ CountInv'
  BY <1>1, TailStep, CountStep
<1>5. DamageConfined' /\ SentOrFailed'
  BY <1>1, DamageStep, SentOrFailedStep
<1>6. IdsInv' /\ UnracedInv'
  BY <1>1, IdsStep, UnracedStep
<1> QED
  BY <1>2, <1>3, <1>4, <1>5, <1>6 DEF ChannelInv

LEMMA AlwaysChannelInv == Spec => []ChannelInv
<1> QED
  BY ChannelInit, ChannelStep, PTL DEF Spec

\* Ids, pieces, and what is queued in the socket stay within their bounds, for
\* any number of threads and shares and any size of message and buffer.
THEOREM TypeCorrect == Spec => []TypeOK
<1>1. ChannelInv => TypeOK
  BY DEF ChannelInv
<1> QED
  BY <1>1, AlwaysChannelInv, PTL

\* Whichever threads send at once and wherever a send() stops, a line at the
\* pool is one whole message or follows one whose send() failed, and a message
\* that is over has arrived once and whole unless its send() failed.
THEOREM WireIsSound == Spec => []WireSound
<1>1. ChannelInv => WireSound
  BY DEF ChannelInv, WireSound
<1> QED
  BY <1>1, AlwaysChannelInv, PTL

\* The unlocked increments of m_message_id never give a share the login's id,
\* and give two shares one id only if two of them have overlapped.
THEOREM IdsAreDistinct == Spec => []IdsDistinct
<1>1. ASSUME ChannelInv PROVE IdsDistinct
  <2> SUFFICES ASSUME NEW i \in 1 .. Len(wire), NEW j \in 1 .. Len(wire),
                      wire[i].msg # wire[j].msg
               PROVE  /\ wire[i].id = LoginId => wire[i].msg = Login
                      /\ ~raced => wire[i].id # wire[j].id
    BY DEF IdsDistinct
  <2>1. wire[i].msg \in Int /\ wire[j].msg \in Int
    <3>1. wire \in Seq(Piece)
      BY <1>1 DEF ChannelInv, TypeOK
    <3>2. wire[i] \in Piece /\ wire[j] \in Piece
      BY <3>1, ElementOfSeq
    <3> QED
      BY <3>2 DEF Piece, Messages
  <2>2. wire[i].msg # Login => wire[i].id > LoginId
    BY <1>1 DEF ChannelInv, IdsInv
  <2>3. ~raced => wire[i].id = LoginId + wire[i].msg /\ wire[j].id = LoginId + wire[j].msg
    BY <1>1 DEF ChannelInv, UnracedInv
  <2> QED
    BY <2>1, <2>2, <2>3 DEF LoginId
<1> QED
  BY <1>1, AlwaysChannelInv, PTL

=============================================================================
