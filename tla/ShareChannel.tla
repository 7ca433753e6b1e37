----------------------------- MODULE ShareChannel -----------------------------
(***************************************************************************)
(* The sending side of StratumClient (stratum_client.cpp): login() by the  *)
(* thread that initializes the miner, then submit_share() by every mining  *)
(* thread, all through send_message() and one socket.                      *)
(*                                                                         *)
(* m_message_id is incremented without a lock, a data race: its load and   *)
(* its store are steps of their own.  A message is a run of Pieces pieces, *)
(* the last of which holds the newline; send() takes as many as the socket *)
(* buffer has room for, and fails when there is no room for 30 seconds     *)
(* (SO_SNDTIMEO) or no peer.  A pool that stops reading fills the buffer.  *)
(***************************************************************************)
EXTENDS Integers, Sequences, FiniteSets

CONSTANTS
  NumThreads,  \* mining threads
  MaxShares,   \* bound on the shares submitted
  Pieces,      \* pieces a message can be cut into
  Capacity     \* pieces the socket buffer holds

ASSUME ShareAssumption ==
  /\ NumThreads \in Nat \ {0} /\ MaxShares \in Nat
  /\ Pieces \in Nat \ {0} /\ Capacity \in Nat \ {0}

Owner == 0                      \* the thread that logs in
Miners == 1 .. NumThreads
Senders == {Owner} \cup Miners

Free == NumThreads + 1          \* m_send_mutex is held by nobody

Login == 0                      \* messages are numbered as they are begun
LoginId == 1
Messages == Login .. MaxShares

VARIABLES
  messageId,  \* m_message_id
  sendMutex,  \* who holds m_send_mutex
  pc,         \* "idle", "loaded", "ready" or "sending", for each sender
  register,   \* the id each sender is about to use
  message,    \* the message each sender is sending
  left,       \* its pieces not sent yet
  wire,       \* pieces the socket has taken, in order
  unread,     \* how many of them the pool has not read
  peer,       \* "up" or "gone"
  begun,      \* shares submitted so far
  failed,     \* history: messages whose send() failed
  raced       \* history: two increments of m_message_id have overlapped

vars == <<messageId, sendMutex, pc, register, message, left, wire, unread, peer,
          begun, failed, raced>>

Init ==
  /\ messageId = LoginId
  /\ sendMutex = Free
  /\ pc = [s \in Senders |-> IF s = Owner THEN "ready" ELSE "idle"]
  /\ register = [s \in Senders |-> LoginId]
  /\ message = [s \in Senders |-> Login]
  /\ left = [s \in Senders |-> Pieces]
  /\ wire = <<>>
  /\ unread = 0
  /\ peer = "up"
  /\ begun = 0
  /\ failed = {}
  /\ raced = FALSE

Room == Capacity - unread

-----------------------------------------------------------------------------
(* Guards and effects of the actions below.  Where a definition is named   *)
(* Faulty..., it is the next definition with a plausible slip; no action   *)
(* uses it.                                                                *)

\* ++m_message_id: the value used, and the value stored.
FaultyNextId == messageId
NextId == messageId + 1

FaultyStoredId(t) == register[t] + 1
StoredId(t) == register[t]

SendMutexFree == sendMutex = Free

\* The loop ends when every byte is sent.
FaultyAllSent(s, k) == TRUE
AllSent(s, k) == left[s] = k

\* send() gives up after 30 seconds without room.
FaultyTimesOut == FALSE
TimesOut == Room = 0

-----------------------------------------------------------------------------
(* submit_share                                                            *)

\* The load of ++m_message_id.  Threads mine once login() has returned.
LoadId(t) ==
  /\ pc[t] = "idle" /\ pc[Owner] = "idle"
  /\ begun < MaxShares
  /\ begun' = begun + 1
  /\ message' = [message EXCEPT ![t] = begun + 1]
  /\ register' = [register EXCEPT ![t] = NextId]
  /\ left' = [left EXCEPT ![t] = Pieces]
  /\ raced' = (raced \/ \E u \in Miners : pc[u] = "loaded")
  /\ pc' = [pc EXCEPT ![t] = "loaded"]
  /\ UNCHANGED <<messageId, sendMutex, wire, unread, peer, failed>>

\* Its store.
StoreId(t) ==
  /\ pc[t] = "loaded"
  /\ messageId' = StoredId(t)
  /\ pc' = [pc EXCEPT ![t] = "ready"]
  /\ UNCHANGED <<sendMutex, register, message, left, wire, unread, peer, begun, failed, raced>>

-----------------------------------------------------------------------------
(* send_message                                                            *)

LockSend(s) ==
  /\ pc[s] = "ready"
  /\ SendMutexFree
  /\ sendMutex' = s
  /\ pc' = [pc EXCEPT ![s] = "sending"]
  /\ UNCHANGED <<messageId, register, message, left, wire, unread, peer, begun, failed, raced>>

Unlock(s) == sendMutex' = Free /\ pc' = [pc EXCEPT ![s] = "idle"]

\* The next k pieces of the message that s is sending.
NextPieces(s, k) ==
  [i \in 1 .. k |-> [msg |-> message[s], id |-> register[s], part |-> Pieces - left[s] + i]]

\* send() returns > 0: the loop continues with what is left, or is over.
SendSome(s) ==
  \E k \in 1 .. left[s] :
    /\ pc[s] = "sending" /\ peer = "up"
    /\ k <= Room
    /\ wire' = wire \o NextPieces(s, k)
    /\ unread' = unread + k
    /\ left' = [left EXCEPT ![s] = @ - k]
    /\ IF AllSent(s, k) THEN Unlock(s) ELSE UNCHANGED <<sendMutex, pc>>
    /\ UNCHANGED <<messageId, register, message, peer, begun, failed, raced>>

\* send() returns <= 0: the loop breaks, and nobody is told.
SendFails(s) ==
  /\ pc[s] = "sending"
  /\ TimesOut \/ peer = "gone"
  /\ failed' = failed \cup {message[s]}
  /\ Unlock(s)
  /\ UNCHANGED <<messageId, register, message, left, wire, unread, peer, begun, raced>>

-----------------------------------------------------------------------------
(* The pool and the network                                                *)

PoolReads ==
  /\ unread > 0
  /\ unread' \in 0 .. unread - 1
  /\ UNCHANGED <<messageId, sendMutex, pc, register, message, left, wire, peer, begun, failed, raced>>

PeerGone ==
  /\ peer = "up"
  /\ peer' = "gone"
  /\ UNCHANGED <<messageId, sendMutex, pc, register, message, left, wire, unread, begun, failed, raced>>

\* Nothing is left to submit within the bound.
Quiet ==
  /\ \A s \in Senders : pc[s] = "idle"
  /\ UNCHANGED vars

Sending(s) == SendSome(s) \/ SendFails(s)

Next ==
  \/ \E t \in Miners : LoadId(t) \/ StoreId(t)
  \/ \E s \in Senders : LockSend(s) \/ Sending(s)
  \/ PoolReads \/ PeerGone
  \/ Quiet

\* Threads run, send() returns within its timeout, and a thread that waits
\* for m_send_mutex gets it if it is free again and again.  The pool owes
\* nothing: it may stop reading for good.
Fairness ==
  /\ \A t \in Miners : WF_vars(StoreId(t))
  /\ \A s \in Senders : SF_vars(LockSend(s)) /\ WF_vars(Sending(s))

Spec == Init /\ [][Next]_vars /\ Fairness

-----------------------------------------------------------------------------
(* Properties                                                              *)

Piece == [msg : Messages, id : LoginId .. LoginId + MaxShares, part : 1 .. Pieces]

\* The variables have their types; m_message_id has grown by no more than one
\* for each share, and no more is queued than the socket holds
\* (stratum_client.cpp:97-109, 217).
TypeOK ==
  /\ messageId \in LoginId .. LoginId + MaxShares
  /\ sendMutex \in Senders \cup {Free}
  /\ pc \in [Senders -> {"idle", "loaded", "ready", "sending"}]
  /\ register \in [Senders -> LoginId .. LoginId + MaxShares]
  /\ message \in [Senders -> Messages]
  /\ left \in [Senders -> 0 .. Pieces]
  /\ wire \in Seq(Piece)
  /\ unread \in 0 .. Capacity
  /\ peer \in {"up", "gone"}
  /\ begun \in 0 .. MaxShares
  /\ failed \subseteq Messages
  /\ raced \in BOOLEAN

\* The piece at place i starts a message, or continues the one before it.
Begins(i) == wire[i].part = 1
Continues(i) == i > 1 /\ wire[i] = [wire[i - 1] EXCEPT !.part = @ + 1]

\* Whoever sends at the same time, the bytes of a message are contiguous,
\* and a line that does not begin where the last one ended begins behind a
\* message whose send() failed: only that failure can spoil its neighbour
\* (stratum_client.cpp:97-109).
DamageConfined ==
  \A i \in 1 .. Len(wire) :
    /\ Begins(i) \/ Continues(i)
    /\ (Begins(i) /\ i > 1 /\ wire[i - 1].part < Pieces) => wire[i - 1].msg \in failed

\* The pieces of message m on the wire.
OnWire(m) == {i \in 1 .. Len(wire) : wire[i].msg = m}

\* A sender that has returned has put all of its message on the wire, once,
\* unless its send() failed: shares are neither cut short nor repeated
\* (stratum_client.cpp:100-108, 223).
SentOrFailed ==
  \A m \in 0 .. begun :
    \/ m \in failed
    \/ \E s \in Senders : pc[s] # "idle" /\ message[s] = m
    \/ /\ Cardinality(OnWire(m)) = Pieces
       /\ {wire[i].part : i \in OnWire(m)} = 1 .. Pieces

\* Whatever fails on the way, a line of the pool's is one whole message, or the
\* failure of a send() accounts for it (stratum_client.cpp:97-109).
WireSound == DamageConfined /\ SentOrFailed

\* Only the login carries id 1, however the increments race, and two shares
\* carry the same id only if two increments have overlapped
\* (stratum_client.cpp:214-217).
IdsDistinct ==
  \A i, j \in 1 .. Len(wire) :
    wire[i].msg # wire[j].msg =>
      /\ wire[i].id = LoginId => wire[i].msg = Login
      /\ ~raced => wire[i].id # wire[j].id

\* A mining thread always returns from submit_share, even if the pool never
\* reads again: stop_mining() joins it (stratum_client.cpp:73, 97-109).
SubmitReturns == \A s \in Senders : pc[s] # "idle" ~> pc[s] = "idle"

=============================================================================
