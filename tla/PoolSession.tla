----------------------------- MODULE PoolSession -----------------------------
(***************************************************************************)
(* A miner's session with its pool: StratumClient's connection, receive    *)
(* loop, line framing and message dispatch (src/stratum_client.cpp), the   *)
(* callbacks RandomXMiner registers with it (src/randomx_miner.cpp), and   *)
(* the desktop program that owns them, from load_config to the end of      *)
(* ~RandomXMiner (src/main.cpp).                                           *)
(*                                                                         *)
(* A message of the pool is two pieces on the wire, of which the second    *)
(* ends the line; recv returns any number of pieces.  The build has the    *)
(* JSON library (HAVE_JSON).  Of the mining threads it is modelled which    *)
(* job they work on and what they do to the flag of a new job; the rest    *)
(* of them is MiningEngine.                                                *)
(***************************************************************************)
EXTENDS Naturals, SequencesExt

CONSTANTS
  Threads,  \* the mining threads
  MaxSent,  \* bound on the messages the pool sends
  NoJob     \* m_current_job before the first job

\* What handle_message tells apart: a job, a job whose blob is empty, the
\* answer to a share, and everything it ignores or fails to parse.
Kinds == {"job", "noBlob", "accept", "reject", "other"}

Message == [id : 1 .. MaxSent, kind : Kinds]

ASSUME SessionAssumption == Threads # {} /\ MaxSent \in Nat /\ NoJob \notin Message

VARIABLES
  owner,       \* how far main() has come
  keepRunning, \* main.cpp's keep_running
  callbacks,   \* m_job_callback and m_share_callback are set
  membersLive, \* the miner's members declared after m_stratum still exist
  minerJob,    \* RandomXMiner::m_current_job
  newJob,      \* RandomXMiner::m_new_job
  batch,       \* the job each mining thread has copied, NoJob between two batches
  accepted, rejected,  \* m_accepted_shares, m_rejected_shares
  rx,          \* where the receive thread stands
  rxRunning,   \* StratumClient::m_running
  connected,   \* m_connected
  errno,       \* errno of the receive thread: "again" after a timeout
  buffer,      \* m_buffer
  clientJob,   \* StratumClient::m_current_job
  shut,        \* stop() has shut the socket down
  wire,        \* pieces the pool has sent and recv has not returned
  peer,        \* "open", "closed" in order, or "reset"
  sent,        \* history: the messages sent
  handled      \* history: the lines taken out of m_buffer

minerVars == <<callbacks, membersLive, minerJob, newJob, accepted, rejected>>
clientVars == <<rxRunning, connected, errno, buffer, clientJob, shut>>
poolVars == <<wire, peer, sent>>
vars == <<owner, keepRunning, batch, minerVars, rx, clientVars, poolVars, handled>>

Pieces(m) == << [msg |-> m, ends |-> FALSE], [msg |-> m, ends |-> TRUE] >>

\* The text of a line: a message, unless pieces are missing or mixed up.
LineOf(pieces) ==
  IF pieces = Pieces(Last(pieces).msg) THEN Last(pieces).msg ELSE [id |-> 0, kind |-> "other"]

Init ==
  /\ owner = "starting"
  /\ keepRunning = TRUE
  /\ callbacks = FALSE
  /\ membersLive = TRUE
  /\ minerJob = NoJob
  /\ newJob = FALSE
  /\ batch = [t \in Threads |-> NoJob]
  /\ accepted = 0 /\ rejected = 0
  /\ rx = "idle"
  /\ rxRunning = FALSE
  /\ connected = FALSE
  /\ errno = "none"
  /\ buffer = <<>>
  /\ clientJob = NoJob
  /\ shut = FALSE
  /\ wire = <<>>
  /\ peer = "open"
  /\ sent = <<>>
  /\ handled = <<>>

-----------------------------------------------------------------------------
(* Guards and effects of the actions below.  Where a definition is named   *)
(* Faulty..., it is the next definition with a plausible slip; no action   *)
(* uses it.                                                                *)

\* initialize() registers the callbacks first.
FaultySetCallbacks == UNCHANGED callbacks
SetCallbacks == callbacks' = TRUE

\* Received bytes go behind what is left of the last line.
FaultyBuffered(pieces) == pieces
Buffered(pieces) == buffer \o pieces

\* m_buffer holds a whole line.
HasLine == \E k \in DOMAIN buffer : buffer[k].ends

\* recv has failed for good, as opposed to having timed out.
FaultyGivesUp == peer = "reset"
GivesUp == errno # "again"

\* Which counter an answer to a share goes to.
FaultyCounts(m) ==
  /\ accepted' = IF m.kind = "accept" THEN accepted + 1 ELSE accepted
  /\ rejected' = IF m.kind # "accept" THEN rejected + 1 ELSE rejected
Counts(m) ==
  /\ accepted' = IF m.kind = "accept" THEN accepted + 1 ELSE accepted
  /\ rejected' = IF m.kind = "reject" THEN rejected + 1 ELSE rejected

\* m_running after stop().
FaultyRunningAfterStop == rxRunning
RunningAfterStop == FALSE

-----------------------------------------------------------------------------
(* The owner: main(), through initialize, start_mining, stop_mining and    *)
(* ~RandomXMiner                                                           *)

\* SIGINT or SIGTERM, at any moment; the handler clears the flag.
Signal ==
  /\ owner \notin {"gone", "crashed"}
  /\ keepRunning
  /\ keepRunning' = FALSE
  /\ UNCHANGED <<owner, batch, minerVars, rx, clientVars, poolVars, handled>>

\* The program ends at once when the config file cannot be read or parsed or
\* names no wallet.
LoadConfig ==
  /\ owner = "starting"
  /\ owner' \in {"new", "gone"}
  /\ UNCHANGED <<keepRunning, batch, minerVars, rx, clientVars, poolVars, handled>>

\* initialize() up to the attempt to connect: DNS, socket or connect may fail,
\* and the miner is then destroyed.
Connect ==
  /\ owner = "new"
  /\ SetCallbacks
  /\ \/ owner' = "connected" /\ connected' = TRUE
     \/ owner' = "stopped" /\ UNCHANGED connected
  /\ UNCHANGED <<keepRunning, batch, membersLive, minerJob, newJob, accepted, rejected, rx,
                 rxRunning, errno, buffer, clientJob, shut, poolVars, handled>>

\* login() reports success whatever send() did; then the loop is started.
StartReceiveLoop ==
  /\ owner = "connected"
  /\ owner' = "initialized"
  /\ rxRunning' = TRUE
  /\ rx' = "top"
  /\ UNCHANGED <<keepRunning, batch, minerVars, connected, errno, buffer, clientJob, shut,
                 poolVars, handled>>

StartMining ==
  /\ owner = "initialized"
  /\ owner' = "up"
  /\ UNCHANGED <<keepRunning, batch, callbacks, membersLive, minerJob, newJob, accepted,
                 rejected, rx, clientVars, poolVars, handled>>

\* main polls the flag; stop_mining() clears RandomXMiner::m_running ...
StopMining ==
  /\ owner = "up"
  /\ ~keepRunning
  /\ owner' = "stopping"
  /\ UNCHANGED <<keepRunning, batch, callbacks, membersLive, minerJob, newJob, accepted,
                 rejected, rx, clientVars, poolVars, handled>>

\* ... and joins the mining threads.
JoinThreads ==
  /\ owner = "stopping"
  /\ \A t \in Threads : batch[t] = NoJob
  /\ owner' = "stopped"
  /\ UNCHANGED <<keepRunning, batch, minerVars, rx, clientVars, poolVars, handled>>

\* ~RandomXMiner: the members go in reverse order, m_stratum after
\* m_current_job and m_job_mutex.
DestroyMembers ==
  /\ owner = "stopped"
  /\ owner' = "members"
  /\ membersLive' = FALSE
  /\ UNCHANGED <<keepRunning, batch, callbacks, minerJob, newJob, accepted, rejected, rx,
                 clientVars, poolVars, handled>>

\* ~StratumClient: stop() clears m_running and shuts the socket down ...
ClientStop ==
  /\ owner = "members"
  /\ owner' = "joining"
  /\ rxRunning' = RunningAfterStop
  /\ shut' = TRUE
  /\ UNCHANGED <<keepRunning, batch, minerVars, rx, connected, errno, buffer, clientJob,
                 poolVars, handled>>

\* ... joins the receive thread, if it was ever started, and closes.
ClientJoin ==
  /\ owner = "joining"
  /\ rx \in {"idle", "ended"}
  /\ owner' = "gone"
  /\ connected' = FALSE
  /\ UNCHANGED <<keepRunning, batch, minerVars, rx, rxRunning, errno, buffer, clientJob,
                 shut, poolVars, handled>>

-----------------------------------------------------------------------------
(* The mining threads: between two batches a thread waits for VMs or a      *)
(* job, rebuilds, or has left                                              *)

TakeJob(t) ==
  /\ owner = "up"
  /\ batch[t] = NoJob /\ minerJob # NoJob
  /\ batch' = [batch EXCEPT ![t] = minerJob]
  /\ UNCHANGED <<owner, keepRunning, minerVars, rx, clientVars, poolVars, handled>>

\* A batch ends when the flag is seen, or when its hashes are done, and takes
\* the flag down either way.
EndBatch(t) ==
  /\ batch[t] # NoJob
  /\ newJob' = FALSE
  /\ batch' = [batch EXCEPT ![t] = NoJob]
  /\ UNCHANGED <<owner, keepRunning, callbacks, membersLive, minerJob, accepted, rejected,
                 rx, clientVars, poolVars, handled>>

MiningThreads == \E t \in Threads : TakeJob(t) \/ EndBatch(t)
BatchesEnd == \E t \in Threads : EndBatch(t)

-----------------------------------------------------------------------------
(* The receive thread                                                      *)

AtRx(label) == rx = label /\ owner # "crashed"

LoopTop ==
  /\ AtRx("top")
  /\ rx' = IF rxRunning THEN "recv" ELSE "ended"
  /\ UNCHANGED <<owner, keepRunning, batch, minerVars, clientVars, poolVars, handled>>

RecvData(n) ==
  /\ AtRx("recv")
  /\ peer # "reset"
  /\ n \in 1 .. Len(wire)
  /\ buffer' = Buffered(SubSeq(wire, 1, n))
  /\ wire' = SubSeq(wire, n + 1, Len(wire))
  /\ rx' = "lines"
  /\ UNCHANGED <<owner, keepRunning, batch, minerVars, rxRunning, connected, errno,
                 clientJob, shut, peer, sent, handled>>

\* SO_RCVTIMEO: -1 with EAGAIN, and errno keeps that value.
RecvTimeout ==
  /\ AtRx("recv")
  /\ wire = <<>> /\ peer = "open" /\ ~shut
  /\ errno' = "again"
  /\ rx' = "top"
  /\ UNCHANGED <<owner, keepRunning, batch, minerVars, rxRunning, connected, buffer,
                 clientJob, shut, poolVars, handled>>

\* 0 at the end of the stream leaves errno as it was; the same test decides.
RecvEnd ==
  /\ AtRx("recv")
  /\ wire = <<>> /\ (peer = "closed" \/ (peer = "open" /\ shut))
  /\ IF GivesUp
     THEN rx' = "ended" /\ connected' = FALSE
     ELSE rx' = "top" /\ UNCHANGED connected
  /\ UNCHANGED <<owner, keepRunning, batch, minerVars, rxRunning, errno, buffer, clientJob,
                 shut, poolVars, handled>>

\* -1 with ECONNRESET.
RecvReset ==
  /\ AtRx("recv")
  /\ peer = "reset"
  /\ errno' = "reset"
  /\ rx' = "ended"
  /\ connected' = FALSE
  /\ UNCHANGED <<owner, keepRunning, batch, minerVars, rxRunning, buffer, clientJob, shut,
                 poolVars, handled>>

\* The next line is taken out of m_buffer and dispatched.  A job is handed
\* on below; an answer is counted by on_share_result, in atomics that are
\* still there until the miner's storage is freed.
HandleLine ==
  /\ AtRx("lines")
  /\ HasLine
  /\ LET end == CHOOSE k \in DOMAIN buffer :
                  buffer[k].ends /\ \A i \in 1 .. k - 1 : ~buffer[i].ends
         m == LineOf(SubSeq(buffer, 1, end))
     IN  /\ buffer' = SubSeq(buffer, end + 1, Len(buffer))
         /\ handled' = Append(handled, m)
         /\ IF m.kind = "job"
            THEN clientJob' = m /\ rx' = IF callbacks THEN "store" ELSE "lines"
            ELSE rx' = "lines" /\ UNCHANGED clientJob
         /\ IF callbacks
            THEN Counts(m)
            ELSE UNCHANGED <<accepted, rejected>>
  /\ UNCHANGED <<owner, keepRunning, batch, callbacks, membersLive, minerJob, newJob,
                 rxRunning, connected, errno, shut, poolVars>>

\* on_new_job: the job is stored under m_job_mutex.  On members that are gone
\* this is undefined: it kills the process or returns.
StoreJob ==
  /\ AtRx("store")
  /\ minerJob' = clientJob
  /\ rx' = "flag"
  /\ UNCHANGED <<owner, keepRunning, batch, callbacks, membersLive, newJob, accepted,
                 rejected, clientVars, poolVars, handled>>

StoreCrash ==
  /\ AtRx("store")
  /\ ~membersLive
  /\ owner' = "crashed"
  /\ UNCHANGED <<keepRunning, batch, minerVars, rx, clientVars, poolVars, handled>>

RaiseFlag ==
  /\ AtRx("flag")
  /\ newJob' = TRUE
  /\ rx' = "lines"
  /\ UNCHANGED <<owner, keepRunning, batch, callbacks, membersLive, minerJob, accepted,
                 rejected, clientVars, poolVars, handled>>

LinesDone ==
  /\ AtRx("lines")
  /\ ~HasLine
  /\ rx' = "top"
  /\ UNCHANGED <<owner, keepRunning, batch, minerVars, clientVars, poolVars, handled>>

ReceiveThread ==
  \/ LoopTop
  \/ \E n \in 1 .. Len(wire) : RecvData(n)
  \/ RecvTimeout \/ RecvEnd \/ RecvReset
  \/ HandleLine \/ StoreJob \/ StoreCrash \/ RaiseFlag \/ LinesDone

-----------------------------------------------------------------------------
(* The pool                                                                *)

PoolSend(kind) ==
  LET m == [id |-> Len(sent) + 1, kind |-> kind] IN
  /\ owner \in {"connected", "initialized", "up", "stopping", "stopped",
               "members", "joining"}
  /\ connected /\ peer = "open"
  /\ Len(sent) < MaxSent
  /\ wire' = wire \o Pieces(m)
  /\ sent' = Append(sent, m)
  /\ UNCHANGED <<owner, keepRunning, batch, minerVars, rx, clientVars, peer, handled>>

\* The pool ends the session, or the network does and what was on its way is
\* lost.
PoolClose ==
  /\ connected /\ peer = "open" /\ owner # "crashed"
  /\ peer' = "closed"
  /\ UNCHANGED <<owner, keepRunning, batch, minerVars, rx, clientVars, wire, sent, handled>>

ConnectionReset ==
  /\ connected /\ peer = "open" /\ owner # "crashed"
  /\ peer' = "reset"
  /\ wire' = <<>>
  /\ UNCHANGED <<owner, keepRunning, batch, minerVars, rx, clientVars, sent, handled>>

Terminated == owner \in {"gone", "crashed"} /\ UNCHANGED vars

OwnerProceeds ==
  \/ LoadConfig \/ Connect \/ StartReceiveLoop \/ StartMining
  \/ StopMining \/ JoinThreads \/ DestroyMembers \/ ClientStop \/ ClientJoin

Next ==
  \/ OwnerProceeds \/ Signal
  \/ ReceiveThread
  \/ MiningThreads
  \/ \E k \in Kinds : PoolSend(k)
  \/ PoolClose \/ ConnectionReset
  \/ Terminated

\* The receive thread is scheduled and recv returns within its timeout; main
\* goes on, and polls its flag every second; a batch has 5000 hashes and no
\* more.  No signal need come, the pool need not do anything, and no mining
\* thread need take a job.
Fairness == WF_vars(ReceiveThread) /\ WF_vars(OwnerProceeds) /\ WF_vars(BatchesEnd)

Spec == Init /\ [][Next]_vars /\ Fairness

-----------------------------------------------------------------------------
(* Properties                                                              *)

FlagsOK ==
  {keepRunning, callbacks, membersLive, newJob, rxRunning, connected, shut} \subseteq BOOLEAN

Piece == [msg : Message, ends : BOOLEAN]

\* The variables have their types; what the client and the miner hold as a
\* job is a message the pool can have sent, whole (stratum_client.cpp:126-136).
TypeOK ==
  /\ owner \in {"starting", "new", "connected", "initialized", "up", "stopping", "stopped",
                "members", "joining", "gone", "crashed"}
  /\ FlagsOK
  /\ {minerJob, clientJob} \subseteq Message \cup {NoJob}
  /\ batch \in [Threads -> Message \cup {NoJob}]
  /\ accepted \in Nat /\ rejected \in Nat
  /\ rx \in {"idle", "top", "recv", "lines", "store", "flag", "ended"}
  /\ errno \in {"none", "again", "reset"}
  /\ peer \in {"open", "closed", "reset"}
  /\ {buffer, wire} \subseteq Seq(Piece)
  /\ {sent, handled} \subseteq Seq(Message)

\* However recv cuts the stream, handle_message sees the lines the pool sent,
\* in order, each once and none cut short or merged (stratum_client.cpp:126-136).
Channel == INSTANCE LineChannel WITH Line <- Message, delivered <- handled
InOrder == Channel!Spec

\* The lines handled so far that are of this kind, by their places.
Handled(kind) == {i \in DOMAIN handled : handled[i].kind = kind}

\* j is the newest job handled, NoJob if there was none.
IsNewestJob(j) ==
  IF Handled("job") = {}
  THEN j = NoJob
  ELSE \E i \in Handled("job") : handled[i] = j /\ \A k \in Handled("job") : k <= i

\* "so no job is missed" (randomx_miner.cpp:33): the newest job with a blob
\* that was received is the job of the client and, once on_new_job has run, of
\* the miner; and the flag is not down again before a thread that works on the
\* newest job, or has still to copy one, has taken it down: it is raised after
\* the job is stored, and a batch takes it down before the next job is copied
\* (stratum_client.cpp:164-188, randomx_miner.cpp:219-223, 251-255, 293-308).
\* That the other threads miss a flag that one takes down is MiningEngine's.
NoJobMissed ==
  /\ IsNewestJob(clientJob)
  /\ rx # "store" => IsNewestJob(minerJob)
  /\ (rx \notin {"store", "flag"} /\ ~newJob) =>
       \E t \in Threads : batch[t] = NoJob \/ IsNewestJob(batch[t])

\* The share counters add up to the answers received, jobs and unknown
\* messages in between notwithstanding (stratum_client.cpp:192-197).
ShareTally ==
  /\ accepted = Cardinality(Handled("accept"))
  /\ rejected = Cardinality(Handled("reject"))

\* A signal ends the program, whenever it comes: before the configuration is
\* read, while the miner connects, or while the receive thread is in recv, on
\* a stale errno, or in the middle of a burst of lines (main.cpp:75-79,
\* stratum_client.cpp:227-241).
SignalEnds == ~keepRunning ~> owner \in {"gone", "crashed"}

\* A connection the pool closes or the network drops is noticed, unless an
\* earlier timeout has left EAGAIN in errno (stratum_client.cpp:120-124).
CloseNoticed ==
  (rx = "recv" /\ peer # "open") ~>
    (~connected \/ errno = "again" \/ owner \in {"gone", "crashed"})

=============================================================================
