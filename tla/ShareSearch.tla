----------------------------- MODULE ShareSearch -----------------------------
(***************************************************************************)
(* What one mining thread of src/randomx_miner.cpp computes: the target of *)
(* a job, the blob with the nonce in it, whether a hash is a share, and    *)
(* the walk through the nonces.  The helpers of src/job_handler.cpp for    *)
(* the same conversions stand beside them.  When a batch ends, who rebuilds *)
(* RandomX and how a share travels are in MiningEngine and ShareChannel;   *)
(* here a thread may look for a new job before any hash.                   *)
(*                                                                         *)
(* The widths are scaled down together: a byte has Byte values instead of  *)
(* 256, a uint32_t has Half bytes instead of 4 and a uint64_t twice as     *)
(* many, the nonce stands after NonceAt bytes instead of 39, a blob has at *)
(* least MinBlob bytes instead of 76, and a hash HashLen instead of 32.    *)
(* Hex text is the sequence of the bytes it spells.                        *)
(***************************************************************************)
EXTENDS Integers, SequencesExt

CONSTANTS
  Byte, Half, NonceAt, MinBlob, HashLen,
  LongTargets,  \* the numbers the pool sends as long targets
  MaxJobs       \* bound on the jobs the pool sends

ASSUME SearchAssumption ==
  /\ Byte \in Nat \ {0, 1} /\ Half \in Nat \ {0}
  /\ NonceAt \in Nat /\ MinBlob \in Nat /\ MinBlob >= NonceAt + Half
  /\ HashLen \in Nat /\ HashLen >= 2 * Half
  /\ LongTargets \subseteq Nat
  /\ MaxJobs \in Nat

\* How many values k bytes have: what a shift by k bytes multiplies with.
Power[k \in Nat] == IF k = 0 THEN 1 ELSE Byte * Power[k - 1]

Max32 == Power[Half] - 1

Max64 == Power[2 * Half] - 1

Nonces == 0 .. Max32

Bytes(n) == [1 .. n -> 0 .. Byte - 1]

\* The number a sequence of bytes spells, lowest or highest byte first.
Little(bytes) ==
  LET sum[k \in 0 .. Len(bytes)] ==
        IF k = 0 THEN 0 ELSE sum[k - 1] + bytes[k] * Power[k - 1]
  IN  sum[Len(bytes)]

Big(bytes) == Little(Reverse(bytes))

\* n as a number of width bytes, lowest or highest first.
ToLittle(n, width) == [k \in 1 .. width |-> (n \div Power[k - 1]) % Byte]

ToBig(n, width) == Reverse(ToLittle(n, width))

FirstBytes(bytes, n) == SubSeq(bytes, 1, Min({n, Len(bytes)}))

-----------------------------------------------------------------------------
(* Targets.  A definition named Faulty... is the next one with a plausible *)
(* slip; nothing uses it.                                                  *)

\* target_to_uint64: the short form divides, the long form is read as it is.
TargetToUint64(bytes) ==
  IF Len(bytes) > Half THEN Little(FirstBytes(bytes, 2 * Half))
  ELSE IF Little(bytes) = 0 THEN Max64
  ELSE Max64 \div Little(bytes)

\* RandomXMiner::hash_meets_target reads the last eight bytes of the hash.
HashValue(hash) == Little(SubSeq(hash, Len(hash) - 2 * Half + 1, Len(hash)))

MeetsTarget(value, target) == value < target

\* TargetHelper of job_handler.cpp reads and writes the highest byte first (and
\* compares the first eight bytes of a hash, where the miner takes the last).
CompactToUint64(bytes) == Big(FirstBytes(bytes, 2 * Half))

Uint64ToCompact(target) == ToBig(target, 2 * Half)

-----------------------------------------------------------------------------
(* Blobs                                                                   *)

BlobValid(blob) == Len(blob) >= MinBlob

\* construct_mining_blob, and BlobHelper::insert_nonce.
FaultyWithNonce(blob, nonce) ==
  [k \in DOMAIN blob |-> IF k > NonceAt /\ k <= NonceAt + Half
                         THEN ToBig(nonce, Half)[k - NonceAt] ELSE blob[k]]
WithNonce(blob, nonce) ==
  [k \in DOMAIN blob |-> IF k > NonceAt /\ k <= NonceAt + Half
                         THEN ToLittle(nonce, Half)[k - NonceAt] ELSE blob[k]]

ExtractNonce(blob) == Little(SubSeq(blob, NonceAt + 1, NonceAt + Half))

\* The extra nonce goes in behind the nonce.
InsertExtraNonce(blob, extra) ==
  SubSeq(blob, 1, NonceAt + Half) \o extra \o SubSeq(blob, NonceAt + Half + 1, Len(blob))

ExtractExtraNonce(blob) == SubSeq(blob, NonceAt + Half + 1, Len(blob))

-----------------------------------------------------------------------------
(* The search                                                              *)

VARIABLES
  sent,    \* the targets of the jobs the pool has sent, in order
  id,      \* the job the thread works on, by its place in sent; 0 for none
  target,  \* target, the local of mining_thread
  nonce,   \* nonce
  walked   \* history: the nonces hashed for this job since it came or since a draw

vars == <<sent, id, target, nonce, walked>>

\* Every target of up to Half bytes, and longer ones of up to twice as many.
JobTargets ==
  (UNION {Bytes(n) : n \in 0 .. Half})
    \cup {ToLittle(t, width) : t \in LongTargets, width \in Half + 1 .. 2 * Half}

HashValues == 0 .. Max64

\* The hashes that are shares.
Shares == {value \in HashValues : MeetsTarget(value, target)}

Init ==
  /\ sent = <<>>
  /\ id = 0
  /\ target = 0
  /\ nonce \in Nonces
  /\ walked = {}

\* ++nonce on a uint32_t.
FaultyNextNonce(n) == n + 1
RepeatedNonce(n) == n
NextNonce(n) == (n + 1) % (Max32 + 1)

NewJob(bytes) ==
  /\ Len(sent) < MaxJobs
  /\ sent' = Append(sent, bytes)
  /\ UNCHANGED <<id, target, nonce, walked>>

\* The top of the main loop: copy the job and convert its target.
CopyJob ==
  /\ sent # <<>>
  /\ id' = Len(sent)
  /\ target' = TargetToUint64(Last(sent))
  /\ walked' = IF id' = id THEN walked ELSE {}
  /\ UNCHANGED <<sent, nonce>>

\* A hash that is no share.
Miss ==
  /\ id # 0
  /\ HashValues \ Shares # {}
  /\ walked' = walked \cup {nonce}
  /\ nonce' = NextNonce(nonce)
  /\ UNCHANGED <<sent, id, target>>

\* A share is submitted and the next nonce drawn at random, whatever has been
\* hashed before.
Found ==
  /\ id # 0
  /\ Shares # {}
  /\ nonce' \in Nonces
  /\ walked' = {}
  /\ UNCHANGED <<sent, id, target>>

Next ==
  \/ \E bytes \in JobTargets : NewJob(bytes)
  \/ CopyJob \/ Miss \/ Found

Spec == Init /\ [][Next]_vars

-----------------------------------------------------------------------------
(* Properties                                                              *)

\* Every variable has its type: the nonce stays a uint32_t, the target a
\* uint64_t (randomx_miner.cpp:154-178, 209, 289).
TypeOK ==
  /\ sent \in Seq(JobTargets)
  /\ id \in 0 .. Len(sent)
  /\ target \in 0 .. Max64
  /\ nonce \in Nonces
  /\ walked \subseteq Nonces

\* A long target is exact: comparing eight bytes of the hash decides as
\* comparing the whole hash with the target in its place does, and what the
\* helpers write they read back (randomx_miner.cpp:168-186, job_handler.cpp:13-36).
LongTargetsExact ==
  /\ (id # 0 /\ Len(sent[id]) > Half) =>
       \A hash \in Bytes(HashLen) :
         MeetsTarget(HashValue(hash), target)
           <=> Little(hash) < Power[HashLen - 2 * Half] * Little(sent[id])
  /\ CompactToUint64(Uint64ToCompact(target)) = target
  /\ TargetToUint64(Reverse(Uint64ToCompact(target))) = target

\* A nonce put into a blob is read back, changes nothing but its own bytes and
\* survives an extra nonce (randomx_miner.cpp:143-149, job_handler.cpp:51-64).
BlobsKept ==
  \A blob \in Bytes(MinBlob) :
    LET filled == WithNonce(blob, nonce)
        longer == InsertExtraNonce(filled, <<1>>)
    IN  /\ BlobValid(filled)
        /\ ExtractNonce(filled) = nonce
        /\ WithNonce(filled, ExtractNonce(blob)) = blob
        /\ ExtractNonce(longer) = nonce
        /\ ExtractExtraNonce(longer) = <<1>> \o ExtractExtraNonce(blob)

\* Long targets and blobs are converted exactly, in both files.  What a short
\* target should become the comment above target_to_uint64 and its code do not
\* agree on: here it is only what the search goes by
\* (randomx_miner.cpp:126-187, job_handler.cpp:13-64).
ConversionsExact == LongTargetsExact /\ BlobsKept

\* Between two draws a thread hashes no nonce twice for one job before it has
\* hashed them all (randomx_miner.cpp:209, 286-289).
NoncesFresh == nonce \in walked => walked = Nonces

=============================================================================
