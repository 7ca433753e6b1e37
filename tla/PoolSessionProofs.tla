--------------------------- MODULE PoolSessionProofs ---------------------------
(***************************************************************************)
(* Theorems about PoolSession, for any number of messages the pool sends   *)
(* and any way recv cuts them.                                             *)
(***************************************************************************)
EXTENDS PoolSession, FiniteSetTheorems, SequenceTheorems, TLAPS

Start(m) == [msg |-> m, ends |-> FALSE]
End(m) == [msg |-> m, ends |-> TRUE]

\* p is the n-th piece of all that the pool has sent.
IsPiece(p, n) ==
  \E j \in 1 .. Len(sent) : \/ n = 2 * j - 1 /\ p = Start(sent[j])
                            \/ n = 2 * j /\ p = End(sent[j])

\* The lines handled, m_buffer and the wire are the pool's stream, cut in three;
\* only a reset takes pieces away, from the end.
StreamInv ==
  LET h == Len(handled)  b == Len(buffer)  w == Len(wire) IN
  /\ \A k \in 1 .. b : IsPiece(buffer[k], 2 * h + k)
  /\ \A k \in 1 .. w : IsPiece(wire[k], 2 * h + b + k)
  /\ 2 * h + b + w <= 2 * Len(sent)
  /\ peer # "reset" => 2 * h + b + w = 2 * Len(sent)

SeqsOK ==
  /\ buffer \in Seq(Piece) /\ wire \in Seq(Piece)
  /\ sent \in Seq(Message) /\ handled \in Seq(Message)

\* The receive thread starts after initialize() has registered the callbacks.
CallbackInv ==
  /\ owner \in {"starting", "new", "connected"} => rx = "idle"
  /\ (owner = "connected" \/ rx # "idle") => callbacks

\* The two parts of NoJobMissed.
NewestHeld == IsNewestJob(clientJob) /\ (rx # "store" => IsNewestJob(minerJob))

Hears(t) == batch[t] = NoJob \/ IsNewestJob(batch[t])
FlagHeard == (rx \notin {"store", "flag"} /\ ~newJob) => \E t \in Threads : Hears(t)

-----------------------------------------------------------------------------
(* The stream                                                              *)

LEMMA PieceFacts ==
  /\ \A m : ~Start(m).ends /\ End(m).ends
  /\ \A m : Start(m).msg = m /\ End(m).msg = m
  /\ \A m \in Message : Start(m) \in Piece /\ End(m) \in Piece
  /\ \A m : Pieces(m) = <<Start(m), End(m)>>
<1>1. \A m : ~Start(m).ends /\ End(m).ends /\ Start(m).msg = m /\ End(m).msg = m
  BY DEF Start, End
<1>2. \A m \in Message : Start(m) \in Piece /\ End(m) \in Piece
  BY DEF Start, End, Piece
<1>3. \A m : Pieces(m) = <<Start(m), End(m)>>
  BY DEF Pieces, Start, End
<1> QED
  BY <1>1, <1>2, <1>3

LEMMA Lengths ==
  SeqsOK => /\ Len(buffer) \in Nat /\ Len(wire) \in Nat
            /\ Len(sent) \in Nat /\ Len(handled) \in Nat
            /\ DOMAIN buffer = 1 .. Len(buffer) /\ DOMAIN handled = 1 .. Len(handled)
  BY LenProperties DEF SeqsOK

\* The pieces at the head of m_buffer are those of the message that is next.
LEMMA HeadOfBuffer ==
  ASSUME SeqsOK, StreamInv, Len(buffer) >= 1
  PROVE  /\ Len(handled) < Len(sent)
         /\ buffer[1] = Start(sent[Len(handled) + 1])
         /\ Len(buffer) >= 2 => buffer[2] = End(sent[Len(handled) + 1])
<1> DEFINE h == Len(handled)
<1>1. h \in Nat /\ Len(buffer) \in Nat /\ Len(sent) \in Nat
  BY Lengths
<1>2. /\ IsPiece(buffer[1], 2 * h + 1)
      /\ Len(buffer) >= 2 => IsPiece(buffer[2], 2 * h + 2)
  BY <1>1 DEF StreamInv
<1> HIDE DEF h
<1>3. \A j \in Nat : /\ 2 * h + 1 # 2 * j
                     /\ 2 * h + 1 = 2 * j - 1 => j = h + 1
                     /\ 2 * h + 2 # 2 * j - 1
                     /\ 2 * h + 2 = 2 * j => j = h + 1
  BY <1>1
<1>4. h < Len(sent) /\ buffer[1] = Start(sent[h + 1])
  BY <1>1, <1>2, <1>3 DEF IsPiece
<1>5. Len(buffer) >= 2 => buffer[2] = End(sent[h + 1])
  BY <1>1, <1>2, <1>3 DEF IsPiece
<1> QED
  BY <1>4, <1>5 DEF h

\* What a step of HandleLine does.
Handles(m) ==
  /\ m = sent[Len(handled) + 1] /\ m \in Message
  /\ Len(handled) < Len(sent) /\ Len(buffer) >= 2
  /\ buffer' = SubSeq(buffer, 3, Len(buffer))
  /\ handled' = Append(handled, m)
  /\ IF m.kind = "job"
     THEN clientJob' = m /\ rx' = IF callbacks THEN "store" ELSE "lines"
     ELSE rx' = "lines" /\ UNCHANGED clientJob
  /\ IF callbacks THEN Counts(m) ELSE UNCHANGED <<accepted, rejected>>

\* However many pieces recv has returned, the line taken out of m_buffer is the
\* next message, whole.
LEMMA LineIsNext ==
  ASSUME SeqsOK, StreamInv, HandleLine
  PROVE  \E m : Handles(m)
<1>1. Len(buffer) \in Nat /\ Len(handled) \in Nat /\ DOMAIN buffer = 1 .. Len(buffer)
  BY Lengths
<1>2. PICK e \in DOMAIN buffer : buffer[e].ends
  BY DEF HandleLine, HasLine
<1>3. Len(buffer) >= 1
  BY <1>1, <1>2
<1> DEFINE m == sent[Len(handled) + 1]
<1>4. /\ Len(handled) < Len(sent) /\ buffer[1] = Start(m)
      /\ Len(buffer) >= 2 => buffer[2] = End(m)
  BY <1>3, HeadOfBuffer
<1>5. m \in Message
  BY <1>1, <1>4, ElementOfSeq, Lengths DEF SeqsOK
<1> HIDE DEF m
<1>6. ~buffer[1].ends
  BY <1>4, PieceFacts
<1>7. Len(buffer) >= 2 /\ 2 \in DOMAIN buffer
  BY <1>1, <1>2, <1>6
<1>8. buffer[2] = End(m) /\ buffer[2].ends
  BY <1>4, <1>7, PieceFacts
<1> DEFINE IsEnd(k) == buffer[k].ends /\ \A i \in 1 .. k - 1 : ~buffer[i].ends
           end == CHOOSE k \in DOMAIN buffer : IsEnd(k)
<1>9. IsEnd(2)
  <2>1. \A i \in 1 .. 2 - 1 : i = 1
    OBVIOUS
  <2> QED
    BY <1>6, <1>8, <2>1
<1>10. \A k \in DOMAIN buffer : IsEnd(k) => k = 2
  <2> SUFFICES ASSUME NEW k \in DOMAIN buffer, IsEnd(k) PROVE k = 2
    OBVIOUS
  <2>1. k # 1
    BY <1>6
  <2>2. ~(k > 2)
    <3> SUFFICES ASSUME k > 2 PROVE FALSE
      OBVIOUS
    <3>1. 2 \in 1 .. k - 1
      BY <1>1
    <3> QED
      BY <1>8, <3>1
  <2> QED
    BY <1>1, <2>1, <2>2
<1>11. end = 2
  <2> HIDE DEF IsEnd
  <2> QED
    BY <1>7, <1>9, <1>10
<1>12. LineOf(SubSeq(buffer, 1, 2)) = m
  <2>1. SubSeq(buffer, 1, 2) = <<Start(m), End(m)>>
    <3>1. \A i \in 1 .. 2 : buffer[i] \in Piece
      BY <1>1, <1>7, ElementOfSeq DEF SeqsOK
    <3>2. /\ SubSeq(buffer, 1, 2) \in Seq(Piece) /\ Len(SubSeq(buffer, 1, 2)) = 2
          /\ SubSeq(buffer, 1, 2)[1] = buffer[1] /\ SubSeq(buffer, 1, 2)[2] = buffer[2]
      BY <3>1, SubSeqProperties
    <3>3. /\ <<Start(m), End(m)>> \in Seq(Piece) /\ Len(<<Start(m), End(m)>>) = 2
          /\ <<Start(m), End(m)>>[1] = Start(m) /\ <<Start(m), End(m)>>[2] = End(m)
      BY <1>5, PieceFacts
    <3> DEFINE s == SubSeq(buffer, 1, 2)
               u == <<Start(m), End(m)>>
    <3>4. s \in Seq(Piece) /\ u \in Seq(Piece) /\ Len(s) = 2 /\ Len(u) = 2
          /\ s[1] = u[1] /\ s[2] = u[2]
      BY <1>4, <1>8, <3>2, <3>3
    <3> HIDE DEF s, u
    <3>5. \A i \in 1 .. Len(s) : s[i] = u[i]
      BY <3>4
    <3>6. s = u
      BY <3>4, <3>5, SeqEqual
    <3> QED
      BY <3>6 DEF s, u
  <2>2. Last(<<Start(m), End(m)>>).msg = m
    BY PieceFacts DEF Last
  <2> QED
    BY <2>1, <2>2, PieceFacts DEF LineOf
<1> DEFINE line == LineOf(SubSeq(buffer, 1, end))
<1>13. /\ buffer' = SubSeq(buffer, end + 1, Len(buffer))
       /\ handled' = Append(handled, line)
       /\ IF line.kind = "job"
          THEN clientJob' = line /\ rx' = IF callbacks THEN "store" ELSE "lines"
          ELSE rx' = "lines" /\ UNCHANGED clientJob
       /\ IF callbacks THEN Counts(line) ELSE UNCHANGED <<accepted, rejected>>
  BY DEF HandleLine
<1>14. line = m
  <2> HIDE DEF end
  <2> QED
    BY <1>11, <1>12
<1> HIDE DEF line
<1>15. buffer' = SubSeq(buffer, 3, Len(buffer))
  <2> HIDE DEF end
  <2> QED
    BY <1>11, <1>13
<1>16. Handles(m)
  BY <1>4, <1>5, <1>7, <1>13, <1>14, <1>15 DEF Handles, m
<1> QED
  BY <1>16

-----------------------------------------------------------------------------
(* The stream is cut and moved, never changed                              *)

LEMMA PiecesKept ==
  ASSUME SeqsOK, NEW m \in Message, sent' = Append(sent, m), NEW l \in Nat, l = Len(sent)
  PROVE  /\ sent' \in Seq(Message) /\ Len(sent') = Len(sent) + 1
         /\ \A p, n : IsPiece(p, n) => IsPiece(p, n)'
         /\ IsPiece(Start(m), 2 * l + 1)' /\ IsPiece(End(m), 2 * l + 2)'
<1>1. /\ sent' \in Seq(Message) /\ Len(sent') = Len(sent) + 1 /\ Len(sent) \in Nat
      /\ \A j \in 1 .. Len(sent) : sent'[j] = sent[j]
      /\ sent'[Len(sent) + 1] = m
  BY Lengths, AppendProperties DEF SeqsOK
<1>2. \A p, n : IsPiece(p, n) => IsPiece(p, n)'
  <2> SUFFICES ASSUME NEW p, NEW n, IsPiece(p, n) PROVE IsPiece(p, n)'
    OBVIOUS
  <2>1. PICK j \in 1 .. Len(sent) : \/ n = 2 * j - 1 /\ p = Start(sent[j])
                                    \/ n = 2 * j /\ p = End(sent[j])
    BY DEF IsPiece
  <2>2. j \in 1 .. Len(sent') /\ sent'[j] = sent[j]
    BY <1>1
  <2> QED
    BY <2>1, <2>2 DEF IsPiece
<1>3. IsPiece(Start(m), 2 * l + 1)' /\ IsPiece(End(m), 2 * l + 2)'
  <2>1. l + 1 \in 1 .. Len(sent') /\ sent'[l + 1] = m
        /\ 2 * l + 1 = 2 * (l + 1) - 1 /\ 2 * l + 2 = 2 * (l + 1)
    BY <1>1
  <2> QED
    BY <2>1 DEF IsPiece
<1> QED
  BY <1>1, <1>2, <1>3

\* What goes on behind the stream's back leaves it alone.
Still ==
  /\ UNCHANGED <<buffer, wire, sent, handled>>
  /\ peer = "reset" => peer' = "reset"

LEMMA StreamSteps ==
  ASSUME [Next]_vars
  PROVE  \/ HandleLine
         \/ \E n \in 1 .. Len(wire) : RecvData(n)
         \/ \E k \in Kinds : PoolSend(k)
         \/ ConnectionReset
         \/ Still
<1> USE DEF Still, poolVars, clientVars
<1>1. CASE OwnerProceeds
  BY <1>1 DEF OwnerProceeds, LoadConfig, Connect, StartReceiveLoop, StartMining, StopMining,
     JoinThreads, DestroyMembers, ClientStop, ClientJoin
<1>2. CASE LoopTop \/ RecvTimeout \/ RecvEnd \/ RecvReset
  BY <1>2 DEF LoopTop, RecvTimeout, RecvEnd, RecvReset
<1>3. CASE StoreJob \/ StoreCrash \/ RaiseFlag \/ LinesDone
  BY <1>3 DEF StoreJob, StoreCrash, RaiseFlag, LinesDone
<1>4. CASE Signal \/ PoolClose \/ Terminated \/ UNCHANGED vars
  BY <1>4 DEF Signal, PoolClose, Terminated, vars
<1>5. CASE MiningThreads
  BY <1>5 DEF MiningThreads, TakeJob, EndBatch
<1> QED
  BY <1>1, <1>2, <1>3, <1>4, <1>5 DEF Next, ReceiveThread

LEMMA RecvStep ==
  ASSUME SeqsOK, StreamInv, NEW n \in 1 .. Len(wire), RecvData(n)
  PROVE  SeqsOK' /\ StreamInv'
<1>1. /\ buffer' = buffer \o SubSeq(wire, 1, n) /\ wire' = SubSeq(wire, n + 1, Len(wire))
      /\ UNCHANGED <<peer, sent, handled>>
  BY DEF RecvData, Buffered
<1>2. PICK b \in Nat, w \in Nat, h \in Nat :
        b = Len(buffer) /\ w = Len(wire) /\ h = Len(handled)
  BY Lengths
<1>3. \A i \in 1 .. w : wire[i] \in Piece
  BY <1>2, ElementOfSeq DEF SeqsOK
<1> DEFINE taken == SubSeq(wire, 1, n)
           rest == SubSeq(wire, n + 1, w)
<1>4. /\ taken \in Seq(Piece) /\ Len(taken) = n
      /\ \A i \in 1 .. n : taken[i] = wire[i]
  <2>1. \A i \in 1 .. n : wire[i] \in Piece
    BY <1>2, <1>3
  <2>2. /\ taken \in Seq(Piece) /\ Len(taken) = n
        /\ \A i \in 1 .. n - 1 + 1 : taken[i] = wire[1 + i - 1]
    BY <2>1, SubSeqProperties
  <2> QED
    BY <2>2
<1>5. /\ rest \in Seq(Piece) /\ Len(rest) = w - n
      /\ \A i \in 1 .. w - n : rest[i] = wire[n + i]
  <2>1. \A i \in n + 1 .. w : wire[i] \in Piece
    BY <1>2, <1>3
  <2>2. /\ rest \in Seq(Piece) /\ Len(rest) = IF n + 1 <= w THEN w - (n + 1) + 1 ELSE 0
        /\ \A i \in 1 .. w - (n + 1) + 1 : rest[i] = wire[(n + 1) + i - 1]
    BY <2>1, SubSeqProperties
  <2>3. \A i \in 1 .. w - n : (n + 1) + i - 1 = n + i /\ i \in 1 .. w - (n + 1) + 1
    OBVIOUS
  <2> HIDE DEF rest
  <2> QED
    BY <1>2, <2>2, <2>3
<1> HIDE DEF taken, rest
<1>6. /\ buffer' \in Seq(Piece) /\ Len(buffer') = b + n
      /\ \A i \in 1 .. b : buffer'[i] = buffer[i]
      /\ \A i \in 1 .. n : buffer'[b + i] = wire[i]
  <2>1. buffer' = buffer \o taken /\ buffer \in Seq(Piece)
    BY <1>1 DEF SeqsOK, taken
  <2>2. /\ buffer' \in Seq(Piece) /\ Len(buffer') = b + n
        /\ \A i \in 1 .. b + n : buffer'[i] = IF i <= b THEN buffer[i] ELSE taken[i - b]
    BY <1>2, <1>4, <2>1, ConcatProperties
  <2>3. \A i \in 1 .. n : buffer'[b + i] = taken[i]
    <3>1. \A i \in 1 .. n : b + i \in 1 .. b + n /\ ~(b + i <= b) /\ (b + i) - b = i
      OBVIOUS
    <3> QED
      BY <2>2, <3>1
  <2> QED
    BY <1>4, <2>2, <2>3
<1>7. wire' = rest
  BY <1>1, <1>2 DEF rest
<1>8. SeqsOK'
  BY <1>1, <1>5, <1>6, <1>7 DEF SeqsOK
<1>9. \A p, k : IsPiece(p, k)' <=> IsPiece(p, k)
  BY <1>1 DEF IsPiece
<1>10. /\ \A k \in 1 .. b : IsPiece(buffer[k], 2 * h + k)
       /\ \A k \in 1 .. w : IsPiece(wire[k], 2 * h + b + k)
  BY <1>2 DEF StreamInv
<1>11. ASSUME NEW k \in 1 .. b + n PROVE IsPiece(buffer[k], 2 * Len(handled) + k)'
  <2>1. PICK p : p = buffer'[k]
    OBVIOUS
  <2>2. CASE k <= b
    <3>1. IsPiece(p, 2 * h + k)
      BY <1>6, <1>10, <2>1, <2>2
    <3>2. IsPiece(p, 2 * h + k)'
      BY <1>9, <3>1
    <3> QED
      BY <1>1, <1>2, <2>1, <3>2
  <2>3. CASE k > b
    <3>1. PICK i \in 1 .. n : k = b + i
      <4>1. k - b \in 1 .. n /\ k = b + (k - b)
        BY <2>3
      <4> QED
        BY <4>1
    <3>2. p = wire[i] /\ i \in 1 .. w /\ 2 * h + b + i = 2 * h + k
      BY <1>2, <1>6, <2>1, <3>1
    <3>3. IsPiece(p, 2 * h + k)
      BY <1>10, <3>2
    <3>4. IsPiece(p, 2 * h + k)'
      BY <1>9, <3>3
    <3> QED
      BY <1>1, <1>2, <2>1, <3>4
  <2> QED
    BY <2>2, <2>3
<1>12. ASSUME NEW k \in 1 .. w - n
       PROVE  IsPiece(wire[k], 2 * Len(handled) + Len(buffer) + k)'
  <2>1. PICK p : p = wire'[k]
    OBVIOUS
  <2>2. p = wire[n + k] /\ n + k \in 1 .. w /\ 2 * h + b + (n + k) = 2 * h + (b + n) + k
    BY <1>2, <1>5, <1>7, <2>1
  <2>3. IsPiece(p, 2 * h + (b + n) + k)
    BY <1>10, <2>2
  <2>4. IsPiece(p, 2 * h + (b + n) + k)'
    BY <1>9, <2>3
  <2> QED
    BY <1>1, <1>2, <1>6, <2>1, <2>4
<1>13. /\ 2 * h + (b + n) + (w - n) <= 2 * Len(sent)
       /\ peer # "reset" => 2 * h + (b + n) + (w - n) = 2 * Len(sent)
  <2>1. 2 * h + (b + n) + (w - n) = 2 * h + b + w
    OBVIOUS
  <2> QED
    BY <1>2, <2>1 DEF StreamInv
<1>14. Len(buffer') = b + n /\ Len(wire') = w - n /\ Len(handled') = h
       /\ peer' = peer /\ sent' = sent
  BY <1>1, <1>2, <1>5, <1>6, <1>7
<1>15. StreamInv'
  BY <1>11, <1>12, <1>13, <1>14 DEF StreamInv
<1> QED
  BY <1>8, <1>15

LEMMA HandleStep ==
  ASSUME SeqsOK, StreamInv, NEW m, Handles(m), UNCHANGED <<wire, peer, sent>>
  PROVE  SeqsOK' /\ StreamInv'
<1>1. PICK b \in Nat, w \in Nat, h \in Nat :
        b = Len(buffer) /\ w = Len(wire) /\ h = Len(handled)
  BY Lengths
<1>2. b >= 2 /\ buffer' = SubSeq(buffer, 3, b) /\ handled' = Append(handled, m) /\ m \in Message
  BY <1>1 DEF Handles
<1>3. handled' \in Seq(Message) /\ Len(handled') = h + 1
  BY <1>1, <1>2, AppendProperties DEF SeqsOK
<1>4. /\ buffer' \in Seq(Piece) /\ Len(buffer') = b - 2
      /\ \A k \in 1 .. b - 2 : buffer'[k] = buffer[k + 2]
  <2>1. \A i \in 3 .. b : buffer[i] \in Piece
    BY <1>1, ElementOfSeq DEF SeqsOK
  <2> DEFINE s == SubSeq(buffer, 3, b)
  <2>2. /\ s \in Seq(Piece) /\ Len(s) = IF 3 <= b THEN b - 3 + 1 ELSE 0
        /\ \A i \in 1 .. b - 3 + 1 : s[i] = buffer[3 + i - 1]
    BY <2>1, SubSeqProperties
  <2>3. \A i \in 1 .. b - 2 : 3 + i - 1 = i + 2 /\ i \in 1 .. b - 3 + 1
    OBVIOUS
  <2> HIDE DEF s
  <2>4. /\ s \in Seq(Piece) /\ Len(s) = b - 2
        /\ \A k \in 1 .. b - 2 : s[k] = buffer[k + 2]
    BY <1>2, <2>2, <2>3
  <2>5. buffer' = s
    BY <1>2 DEF s
  <2> QED
    BY <2>4, <2>5
<1>5. SeqsOK'
  BY <1>3, <1>4 DEF SeqsOK
<1>6. \A p, k : IsPiece(p, k)' <=> IsPiece(p, k)
  BY DEF IsPiece
<1>7. /\ \A k \in 1 .. b : IsPiece(buffer[k], 2 * h + k)
      /\ \A k \in 1 .. w : IsPiece(wire[k], 2 * h + b + k)
  BY <1>1 DEF StreamInv
<1>8. ASSUME NEW k \in 1 .. b - 2 PROVE IsPiece(buffer[k], 2 * Len(handled) + k)'
  <2>1. PICK p : p = buffer'[k]
    OBVIOUS
  <2>2. p = buffer[k + 2] /\ k + 2 \in 1 .. b /\ 2 * h + (k + 2) = 2 * (h + 1) + k
    BY <1>4, <2>1
  <2>3. IsPiece(p, 2 * (h + 1) + k)
    BY <1>7, <2>2
  <2>4. IsPiece(p, 2 * (h + 1) + k)'
    BY <1>6, <2>3
  <2> QED
    BY <1>3, <2>1, <2>4
<1>9. ASSUME NEW k \in 1 .. w PROVE IsPiece(wire[k], 2 * Len(handled) + Len(buffer) + k)'
  <2>1. PICK p : p = wire[k]
    OBVIOUS
  <2>2. IsPiece(p, 2 * h + b + k) /\ 2 * h + b + k = 2 * (h + 1) + (b - 2) + k
    BY <1>7, <2>1
  <2>3. IsPiece(p, 2 * (h + 1) + (b - 2) + k)'
    BY <1>6, <2>2
  <2> QED
    BY <1>3, <1>4, <2>1, <2>3
<1>10. /\ 2 * (h + 1) + (b - 2) + w <= 2 * Len(sent)
       /\ peer # "reset" => 2 * (h + 1) + (b - 2) + w = 2 * Len(sent)
  <2>1. 2 * (h + 1) + (b - 2) + w = 2 * h + b + w
    OBVIOUS
  <2> QED
    BY <1>1, <2>1 DEF StreamInv
<1>11. Len(buffer') = b - 2 /\ Len(wire') = w /\ Len(handled') = h + 1
       /\ peer' = peer /\ sent' = sent
  BY <1>1, <1>3, <1>4
<1>12. StreamInv'
  BY <1>8, <1>9, <1>10, <1>11 DEF StreamInv
<1> QED
  BY <1>5, <1>12

LEMMA SendStep ==
  ASSUME SeqsOK, StreamInv, NEW kind \in Kinds, PoolSend(kind)
  PROVE  /\ SeqsOK' /\ StreamInv'
         /\ \E m \in Message : sent' = Append(sent, m)
<1>1. PICK b \in Nat, w \in Nat, h \in Nat, l \in Nat :
        b = Len(buffer) /\ w = Len(wire) /\ h = Len(handled) /\ l = Len(sent)
  BY Lengths
<1>2. PICK m : m = [id |-> l + 1, kind |-> kind]
  OBVIOUS
<1>3. /\ m \in Message /\ peer = "open"
      /\ sent' = Append(sent, m) /\ wire' = wire \o Pieces(m)
      /\ UNCHANGED <<peer, buffer, handled>>
  BY <1>1, <1>2, SessionAssumption DEF PoolSend, Message, clientVars
<1>4. /\ sent' \in Seq(Message) /\ Len(sent') = l + 1
      /\ \A p, n : IsPiece(p, n) => IsPiece(p, n)'
      /\ IsPiece(Start(m), 2 * l + 1)' /\ IsPiece(End(m), 2 * l + 2)'
  BY <1>1, <1>3, PiecesKept
<1> DEFINE u == Pieces(m)
<1>5. u \in Seq(Piece) /\ Len(u) = 2 /\ u[1] = Start(m) /\ u[2] = End(m)
  <2>1. Start(m) \in Piece /\ End(m) \in Piece /\ u = <<Start(m), End(m)>>
    BY <1>3, PieceFacts
  <2> QED
    BY <2>1
<1>6. /\ wire' \in Seq(Piece) /\ Len(wire') = w + 2
      /\ \A k \in 1 .. w : wire'[k] = wire[k]
      /\ wire'[w + 1] = Start(m) /\ wire'[w + 2] = End(m)
  <2>1. wire' = wire \o u /\ wire \in Seq(Piece)
    BY <1>3 DEF SeqsOK
  <2> HIDE DEF u
  <2>2. /\ wire' \in Seq(Piece) /\ Len(wire') = w + 2
        /\ \A k \in 1 .. w + 2 : wire'[k] = IF k <= w THEN wire[k] ELSE u[k - w]
    <3>1. /\ wire \o u \in Seq(Piece) /\ Len(wire \o u) = Len(wire) + Len(u)
          /\ \A k \in 1 .. Len(wire) + Len(u) :
               (wire \o u)[k] = IF k <= Len(wire) THEN wire[k] ELSE u[k - Len(wire)]
      BY <1>5, <2>1, ConcatProperties, Zenon
    <3> QED
      BY <1>1, <1>5, <2>1, <3>1
  <2>3. (w + 1) - w = 1 /\ (w + 2) - w = 2
    OBVIOUS
  <2> QED
    BY <1>5, <2>2, <2>3
<1>7. SeqsOK'
  BY <1>3, <1>4, <1>6 DEF SeqsOK
<1>8. 2 * h + b + w = 2 * l
  BY <1>1, <1>3 DEF StreamInv
<1>9. ASSUME NEW k \in 1 .. b PROVE IsPiece(buffer[k], 2 * Len(handled) + k)'
  <2>1. PICK p : p = buffer[k]
    OBVIOUS
  <2>2. IsPiece(p, 2 * h + k)
    BY <1>1, <2>1 DEF StreamInv
  <2>3. IsPiece(p, 2 * h + k)'
    BY <1>4, <2>2
  <2> QED
    BY <1>1, <1>3, <2>1, <2>3
<1>10. ASSUME NEW k \in 1 .. w + 2
       PROVE  IsPiece(wire[k], 2 * Len(handled) + Len(buffer) + k)'
  <2>1. PICK p : p = wire'[k]
    OBVIOUS
  <2>2. IsPiece(p, 2 * h + b + k)'
    <3>1. CASE k <= w
      <4>1. IsPiece(p, 2 * h + b + k)
        BY <1>1, <1>6, <2>1, <3>1 DEF StreamInv
      <4> QED
        BY <1>4, <4>1
    <3>2. CASE k = w + 1
      BY <1>4, <1>6, <1>8, <2>1, <3>2
    <3>3. CASE k = w + 2
      BY <1>4, <1>6, <1>8, <2>1, <3>3
    <3> QED
      BY <3>1, <3>2, <3>3
  <2> QED
    BY <1>1, <1>3, <2>1, <2>2
<1>11. 2 * h + b + (w + 2) = 2 * (l + 1)
  BY <1>8
<1>12. Len(buffer') = b /\ Len(wire') = w + 2 /\ Len(handled') = h /\ Len(sent') = l + 1
  BY <1>1, <1>3, <1>4, <1>6
<1>13. StreamInv'
  BY <1>9, <1>10, <1>11, <1>12 DEF StreamInv
<1> QED
  BY <1>3, <1>7, <1>13

LEMMA ResetStep ==
  ASSUME SeqsOK, StreamInv, ConnectionReset
  PROVE  SeqsOK' /\ StreamInv'
<1>1. wire' = <<>> /\ peer' = "reset" /\ UNCHANGED <<buffer, sent, handled>>
  BY DEF ConnectionReset, clientVars
<1>2. wire' \in Seq(Piece) /\ Len(wire') = 0
  BY <1>1, EmptySeq
<1>3. \A p, k : IsPiece(p, k)' <=> IsPiece(p, k)
  BY <1>1 DEF IsPiece
<1>4. ASSUME NEW k \in 1 .. Len(buffer) PROVE IsPiece(buffer[k], 2 * Len(handled) + k)'
  <2>1. PICK p, n : p = buffer[k] /\ n = 2 * Len(handled) + k
    OBVIOUS
  <2>2. IsPiece(p, n)'
    BY <1>3, <2>1 DEF StreamInv
  <2> QED
    BY <1>1, <2>1, <2>2
<1>5. 2 * Len(handled) + Len(buffer) + 0 <= 2 * Len(sent)
  BY Lengths DEF StreamInv
<1> QED
  BY <1>1, <1>2, <1>4, <1>5 DEF SeqsOK, StreamInv

LEMMA StreamStep ==
  ASSUME SeqsOK, StreamInv, [Next]_vars
  PROVE  SeqsOK' /\ StreamInv'
<1>1. CASE HandleLine
  <2>1. UNCHANGED <<wire, peer, sent>>
    BY <1>1 DEF HandleLine, poolVars
  <2> QED
    BY <1>1, <2>1, LineIsNext, HandleStep
<1>2. CASE Still
  <2>1. UNCHANGED <<buffer, wire, sent, handled>> /\ (peer = "reset" => peer' = "reset")
    BY <1>2 DEF Still
  <2> QED
    BY <2>1 DEF SeqsOK, StreamInv, IsPiece
<1> QED
  BY <1>1, <1>2, StreamSteps, RecvStep, SendStep, ResetStep

LEMMA StreamInit == Init => SeqsOK /\ StreamInv
<1> SUFFICES ASSUME Init PROVE SeqsOK /\ StreamInv
  OBVIOUS
<1>1. buffer = <<>> /\ wire = <<>> /\ sent = <<>> /\ handled = <<>>
  BY DEF Init
<1>2. Len(buffer) = 0 /\ Len(wire) = 0 /\ Len(sent) = 0 /\ Len(handled) = 0
  BY <1>1
<1>3. SeqsOK
  BY <1>1 DEF SeqsOK
<1>4. StreamInv
  BY <1>2 DEF StreamInv
<1> QED
  BY <1>3, <1>4

-----------------------------------------------------------------------------
(* What a line adds to those handled                                       *)

LEMMA OneMore ==
  ASSUME SeqsOK, NEW m, Handles(m), NEW kind
  PROVE  /\ m.kind = kind => Handled(kind)' = Handled(kind) \cup {Len(handled) + 1}
         /\ m.kind # kind => Handled(kind)' = Handled(kind)
         /\ Len(handled) \in Nat /\ Handled(kind) \subseteq 1 .. Len(handled)
         /\ \A i \in 1 .. Len(handled) : handled'[i] = handled[i]
         /\ handled'[Len(handled) + 1] = m
<1> DEFINE h == Len(handled)
<1>1. /\ h \in Nat /\ DOMAIN handled = 1 .. h /\ DOMAIN handled' = 1 .. h + 1
      /\ \A i \in 1 .. h : handled'[i] = handled[i]
      /\ handled'[h + 1] = m
  <2>1. handled' = Append(handled, m) /\ handled \in Seq(Message) /\ m \in Message
    BY DEF Handles, SeqsOK
  <2>2. handled' \in Seq(Message) /\ Len(handled') = h + 1
    BY <2>1, AppendProperties
  <2> QED
    BY <2>1, <2>2, AppendProperties, LenProperties
<1> HIDE DEF h
<1>2. Handled(kind) = {i \in 1 .. h : handled[i].kind = kind}
  BY <1>1 DEF Handled
<1>3. Handled(kind)' = {i \in 1 .. h + 1 : handled'[i].kind = kind}
  BY <1>1 DEF Handled
<1>4. 1 .. h + 1 = (1 .. h) \cup {h + 1}
  BY <1>1
<1>5. /\ m.kind = kind => Handled(kind)' = Handled(kind) \cup {h + 1}
      /\ m.kind # kind => Handled(kind)' = Handled(kind)
  <2>1. \A i \in 1 .. h : i \in Handled(kind)' <=> i \in Handled(kind)
    BY <1>1, <1>2, <1>3
  <2>2. h + 1 \in Handled(kind)' <=> m.kind = kind
    BY <1>1, <1>3
  <2>3. Handled(kind)' \subseteq (1 .. h) \cup {h + 1} /\ Handled(kind) \subseteq 1 .. h
    BY <1>2, <1>3, <1>4
  <2>4. h + 1 \notin 1 .. h
    BY <1>1
  <2> QED
    BY <2>1, <2>2, <2>3, <2>4, Zenon
<1>6. Handled(kind) \subseteq 1 .. h
  BY <1>2
<1> QED
  BY <1>1, <1>5, <1>6 DEF h

LEMMA NewestStep ==
  ASSUME SeqsOK, NEW m, Handles(m)
  PROVE  /\ m.kind = "job" => IsNewestJob(m)'
         /\ m.kind # "job" => \A j : IsNewestJob(j) => IsNewestJob(j)'
<1>0. PICK l \in Nat : l = Len(handled)
  BY Lengths
<1>1. PICK old, new : old = Handled("job") /\ new = Handled("job")'
  OBVIOUS
<1>2. /\ m.kind = "job" => new = old \cup {l + 1}
      /\ m.kind # "job" => new = old
      /\ old \subseteq 1 .. l
      /\ \A i \in 1 .. l : handled'[i] = handled[i]
      /\ handled'[l + 1] = m
  BY <1>0, <1>1, OneMore
<1>3. ASSUME m.kind = "job" PROVE IsNewestJob(m)'
  <2>1. new = old \cup {l + 1} /\ handled'[l + 1] = m
    BY <1>2, <1>3
  <2>2. \A k \in old : k <= l + 1
    BY <1>0, <1>2
  <2>3. new # {} /\ l + 1 \in new /\ \A k \in new : k <= l + 1
    BY <2>1, <2>2
  <2> QED
    BY <1>1, <2>1, <2>3 DEF IsNewestJob
<1>4. ASSUME m.kind # "job", NEW j, IsNewestJob(j) PROVE IsNewestJob(j)'
  <2>1. CASE old = {}
    BY <1>1, <1>2, <1>4, <2>1 DEF IsNewestJob
  <2>2. CASE old # {}
    <3>1. PICK i \in old : handled[i] = j /\ \A k \in old : k <= i
      BY <1>1, <1>4, <2>2 DEF IsNewestJob
    <3>2. i \in new /\ handled'[i] = j /\ \A k \in new : k <= i
      BY <1>2, <1>4, <3>1
    <3> QED
      BY <1>1, <3>2 DEF IsNewestJob
  <2> QED
    BY <2>1, <2>2
<1> QED
  BY <1>3, <1>4

LEMMA TallyCounts ==
  ASSUME SeqsOK, NEW m, Handles(m), NEW kind
  PROVE  /\ Cardinality(Handled(kind)) \in Nat
         /\ Cardinality(Handled(kind))'
              = Cardinality(Handled(kind)) + IF m.kind = kind THEN 1 ELSE 0
<1>1. /\ m.kind = kind => Handled(kind)' = Handled(kind) \cup {Len(handled) + 1}
      /\ m.kind # kind => Handled(kind)' = Handled(kind)
      /\ Len(handled) \in Nat /\ Handled(kind) \subseteq 1 .. Len(handled)
  BY OneMore
<1>2. IsFiniteSet(1 .. Len(handled))
  BY <1>1, FS_Interval
<1>3. IsFiniteSet(Handled(kind))
  BY <1>1, <1>2, FS_Subset
<1>4. Cardinality(Handled(kind)) \in Nat
  BY <1>3, FS_CardinalityType
<1>5. CASE m.kind = kind
  <2>1. Len(handled) + 1 \notin Handled(kind)
    BY <1>1
  <2>2. Cardinality(Handled(kind) \cup {Len(handled) + 1}) = Cardinality(Handled(kind)) + 1
    BY <1>3, <2>1, FS_AddElement
  <2> QED
    BY <1>1, <1>4, <1>5, <2>2
<1>6. CASE m.kind # kind
  BY <1>1, <1>4, <1>6
<1> QED
  BY <1>4, <1>5, <1>6

-----------------------------------------------------------------------------
(* Types                                                                   *)

\* FlagsOK, flag by flag.
LEMMA Flags ==
  FlagsOK => /\ keepRunning \in BOOLEAN /\ callbacks \in BOOLEAN /\ membersLive \in BOOLEAN
             /\ newJob \in BOOLEAN /\ rxRunning \in BOOLEAN /\ connected \in BOOLEAN
             /\ shut \in BOOLEAN
  BY Zenon DEF FlagsOK

LEMMA FlagsInit == Init => FlagsOK
<1> SUFFICES ASSUME Init PROVE FlagsOK
  OBVIOUS
<1>1. /\ keepRunning = TRUE /\ callbacks = FALSE /\ membersLive = TRUE /\ newJob = FALSE
      /\ rxRunning = FALSE /\ connected = FALSE /\ shut = FALSE
  BY DEF Init
<1> QED
  BY <1>1, Zenon DEF FlagsOK

LEMMA FlagsStep ==
  ASSUME FlagsOK, [Next]_vars
  PROVE  FlagsOK'
<1> USE DEF FlagsOK, minerVars, clientVars, poolVars
<1>1. CASE LoadConfig \/ StartReceiveLoop \/ StartMining \/ StopMining
  BY <1>1, Zenon DEF LoadConfig, StartReceiveLoop, StartMining, StopMining
<1>2. CASE Connect
  BY <1>2, Zenon DEF Connect, SetCallbacks
<1>3. CASE JoinThreads \/ DestroyMembers \/ ClientStop \/ ClientJoin
  BY <1>3, Zenon DEF JoinThreads, DestroyMembers, ClientStop, ClientJoin, RunningAfterStop
<1>4. CASE LoopTop \/ RecvTimeout \/ RecvReset \/ HandleLine
  BY <1>4, Zenon DEF LoopTop, RecvTimeout, RecvReset, HandleLine
<1>5. ASSUME NEW n \in 1 .. Len(wire), RecvData(n) PROVE FlagsOK'
  BY <1>5, Zenon DEF RecvData
<1>6. CASE RecvEnd
  BY <1>6, Zenon DEF RecvEnd
<1>7. CASE StoreJob \/ StoreCrash \/ RaiseFlag \/ LinesDone
  BY <1>7, Zenon DEF StoreJob, StoreCrash, RaiseFlag, LinesDone
<1>8. ASSUME NEW k \in Kinds, PoolSend(k) PROVE FlagsOK'
  BY <1>8, Zenon DEF PoolSend
<1>9. CASE Signal \/ PoolClose \/ ConnectionReset
  BY <1>9, Zenon DEF Signal, PoolClose, ConnectionReset
<1>10. CASE Terminated \/ UNCHANGED vars
  BY <1>10, Zenon DEF Terminated, vars
<1>11. ASSUME NEW t \in Threads, TakeJob(t) \/ EndBatch(t) PROVE FlagsOK'
  BY <1>11, Zenon DEF TakeJob, EndBatch
<1> QED
  BY <1>1, <1>2, <1>3, <1>4, <1>5, <1>6, <1>7, <1>8, <1>9, <1>10, <1>11
     DEF Next, OwnerProceeds, ReceiveThread, MiningThreads

BatchOK == batch \in [Threads -> Message \cup {NoJob}]

\* What the client, the miner and the threads hold, short of the sequences.
PlacesOK ==
  /\ minerJob \in Message \cup {NoJob} /\ clientJob \in Message \cup {NoJob}
  /\ accepted \in Nat /\ rejected \in Nat
  /\ owner \in {"starting", "new", "connected", "initialized", "up", "stopping", "stopped",
                "members", "joining", "gone", "crashed"}
  /\ rx \in {"idle", "top", "recv", "lines", "store", "flag", "ended"}
  /\ errno \in {"none", "again", "reset"}
  /\ peer \in {"open", "closed", "reset"}

LEMMA TypeParts == TypeOK <=> FlagsOK /\ PlacesOK /\ BatchOK /\ SeqsOK
  BY DEF TypeOK, PlacesOK, BatchOK, SeqsOK

LEMMA PlacesStep ==
  ASSUME PlacesOK, SeqsOK, StreamInv, [Next]_vars
  PROVE  PlacesOK'
<1> USE DEF PlacesOK, minerVars, clientVars, poolVars
<1>1. CASE LoadConfig \/ Connect \/ StartReceiveLoop \/ StartMining \/ StopMining
  BY <1>1 DEF LoadConfig, Connect, StartReceiveLoop, StartMining, StopMining
<1>2. CASE JoinThreads \/ DestroyMembers \/ ClientStop \/ ClientJoin
  BY <1>2 DEF JoinThreads, DestroyMembers, ClientStop, ClientJoin
<1>3. CASE LoopTop \/ RecvTimeout \/ RecvEnd \/ RecvReset
  BY <1>3 DEF LoopTop, RecvTimeout, RecvEnd, RecvReset
<1>4. ASSUME NEW n \in 1 .. Len(wire), RecvData(n) PROVE PlacesOK'
  BY <1>4 DEF RecvData
<1>5. CASE HandleLine
  <2>1. PICK m : Handles(m)
    BY <1>5, LineIsNext
  <2>2. /\ m \in Message
        /\ IF m.kind = "job"
           THEN clientJob' = m /\ rx' = IF callbacks THEN "store" ELSE "lines"
           ELSE rx' = "lines" /\ UNCHANGED clientJob
        /\ IF callbacks THEN Counts(m) ELSE UNCHANGED <<accepted, rejected>>
    BY <2>1 DEF Handles
  <2>3. clientJob' \in Message \cup {NoJob} /\ rx' \in {"lines", "store"}
    BY <2>2
  <2>4. accepted' \in Nat /\ rejected' \in Nat
    BY <2>2 DEF Counts
  <2>5. UNCHANGED <<minerJob, owner, errno, peer>>
    BY <1>5 DEF HandleLine
  <2> QED
    BY <2>3, <2>4, <2>5
<1>6. CASE StoreJob \/ StoreCrash \/ RaiseFlag \/ LinesDone
  BY <1>6 DEF StoreJob, StoreCrash, RaiseFlag, LinesDone
<1>7. ASSUME NEW k \in Kinds, PoolSend(k) PROVE PlacesOK'
  BY <1>7 DEF PoolSend
<1>8. CASE Signal \/ PoolClose \/ ConnectionReset
  BY <1>8 DEF Signal, PoolClose, ConnectionReset
<1>9. CASE Terminated \/ UNCHANGED vars
  BY <1>9 DEF Terminated, vars
<1>10. ASSUME NEW t \in Threads, TakeJob(t) \/ EndBatch(t) PROVE PlacesOK'
  BY <1>10 DEF TakeJob, EndBatch
<1> QED
  BY <1>1, <1>2, <1>3, <1>4, <1>5, <1>6, <1>7, <1>8, <1>9, <1>10
     DEF Next, OwnerProceeds, ReceiveThread, MiningThreads

\* Every other step leaves the batches alone.
LEMMA BatchSteps ==
  ASSUME [Next]_vars
  PROVE  batch' = batch \/ \E t \in Threads : TakeJob(t) \/ EndBatch(t)
<1>1. CASE OwnerProceeds
  BY <1>1 DEF OwnerProceeds, LoadConfig, Connect, StartReceiveLoop, StartMining, StopMining,
     JoinThreads, DestroyMembers, ClientStop, ClientJoin
<1>2. CASE ReceiveThread
  BY <1>2 DEF ReceiveThread, LoopTop, RecvData, RecvTimeout, RecvEnd, RecvReset, HandleLine,
     StoreJob, StoreCrash, RaiseFlag, LinesDone
<1>3. CASE Signal \/ PoolClose \/ ConnectionReset \/ Terminated \/ UNCHANGED vars
  BY <1>3 DEF Signal, PoolClose, ConnectionReset, Terminated, vars
<1>4. ASSUME NEW k \in Kinds, PoolSend(k) PROVE batch' = batch
  BY <1>4 DEF PoolSend
<1> QED
  BY <1>1, <1>2, <1>3, <1>4 DEF Next, MiningThreads

LEMMA BatchStep ==
  ASSUME PlacesOK, BatchOK, [Next]_vars
  PROVE  BatchOK'
<1>1. CASE batch' = batch
  BY <1>1 DEF BatchOK
<1>2. ASSUME NEW t \in Threads, TakeJob(t) \/ EndBatch(t) PROVE BatchOK'
  BY <1>2 DEF BatchOK, PlacesOK, TakeJob, EndBatch
<1> QED
  BY <1>1, <1>2, BatchSteps

-----------------------------------------------------------------------------
(* The hand-over of jobs and the count of answers                          *)

LEMMA CallbackStep ==
  ASSUME FlagsOK, CallbackInv, [Next]_vars
  PROVE  CallbackInv'
<1> USE DEF CallbackInv, minerVars, clientVars, poolVars, AtRx
<1>1. CASE LoadConfig \/ StartReceiveLoop \/ StartMining \/ StopMining
  BY <1>1 DEF LoadConfig, StartReceiveLoop, StartMining, StopMining
<1>2. CASE Connect
  BY <1>2 DEF Connect, SetCallbacks
<1>3. CASE JoinThreads \/ DestroyMembers \/ ClientStop \/ ClientJoin
  BY <1>3 DEF JoinThreads, DestroyMembers, ClientStop, ClientJoin
<1>4. CASE LoopTop \/ RecvTimeout \/ RecvEnd \/ RecvReset
  BY <1>4 DEF LoopTop, RecvTimeout, RecvEnd, RecvReset
<1>5. ASSUME NEW n \in 1 .. Len(wire), RecvData(n) PROVE CallbackInv'
  BY <1>5 DEF RecvData
<1>6. CASE HandleLine
  <2>1. callbacks' = callbacks /\ owner' = owner /\ rx = "lines"
    BY <1>6 DEF HandleLine
  <2> QED
    BY <2>1
<1>7. CASE StoreJob \/ StoreCrash \/ RaiseFlag \/ LinesDone
  BY <1>7 DEF StoreJob, StoreCrash, RaiseFlag, LinesDone
<1>8. ASSUME NEW k \in Kinds, PoolSend(k) PROVE CallbackInv'
  BY <1>8 DEF PoolSend
<1>9. CASE Signal \/ PoolClose \/ ConnectionReset
  BY <1>9 DEF Signal, PoolClose, ConnectionReset
<1>10. CASE Terminated \/ UNCHANGED vars
  BY <1>10 DEF Terminated, vars
<1>11. ASSUME NEW t \in Threads, TakeJob(t) \/ EndBatch(t) PROVE CallbackInv'
  BY <1>11 DEF TakeJob, EndBatch
<1> QED
  BY <1>1, <1>2, <1>3, <1>4, <1>5, <1>6, <1>7, <1>8, <1>9, <1>10, <1>11
     DEF Next, OwnerProceeds, ReceiveThread, MiningThreads

\* The steps that leave jobs and counters, and the receive thread's way with
\* them, alone.
Idles ==
  /\ UNCHANGED <<minerJob, newJob, batch, clientJob, accepted, rejected, handled>>
  /\ rx' = rx \/ (rx \notin {"store", "flag"} /\ rx' \notin {"store", "flag"})

LEMMA IdleSteps ==
  ASSUME CallbackInv, [Next]_vars
  PROVE  HandleLine \/ StoreJob \/ RaiseFlag \/ MiningThreads \/ Idles
<1> USE DEF CallbackInv, Idles, minerVars, clientVars, poolVars, AtRx
<1>1. CASE LoadConfig \/ Connect \/ StartReceiveLoop \/ StartMining \/ StopMining
  BY <1>1 DEF LoadConfig, Connect, StartReceiveLoop, StartMining, StopMining
<1>2. CASE JoinThreads \/ DestroyMembers \/ ClientStop \/ ClientJoin
  BY <1>2 DEF JoinThreads, DestroyMembers, ClientStop, ClientJoin
<1>3. CASE LoopTop \/ RecvTimeout \/ RecvEnd \/ RecvReset
  BY <1>3 DEF LoopTop, RecvTimeout, RecvEnd, RecvReset
<1>4. ASSUME NEW n \in 1 .. Len(wire), RecvData(n) PROVE Idles
  BY <1>4 DEF RecvData
<1>5. CASE StoreCrash \/ LinesDone
  BY <1>5 DEF StoreCrash, LinesDone
<1>6. ASSUME NEW k \in Kinds, PoolSend(k) PROVE Idles
  BY <1>6 DEF PoolSend
<1>7. CASE Signal \/ PoolClose \/ ConnectionReset
  BY <1>7 DEF Signal, PoolClose, ConnectionReset
<1>8. CASE Terminated \/ UNCHANGED vars
  BY <1>8 DEF Terminated, vars
<1> QED
  BY <1>1, <1>2, <1>3, <1>4, <1>5, <1>6, <1>7, <1>8
     DEF Next, OwnerProceeds, ReceiveThread

LEMMA JobStep ==
  ASSUME TypeOK, StreamInv, CallbackInv, NewestHeld, [Next]_vars
  PROVE  NewestHeld'
<1> USE DEF NewestHeld
<1>0. SeqsOK
  BY TypeParts
<1>1. CASE HandleLine
  <2>1. PICK m : Handles(m)
    BY <1>0, <1>1, LineIsNext
  <2>2. /\ rx = "lines" /\ callbacks /\ UNCHANGED minerJob
        /\ m \in Message /\ m # NoJob
    BY <1>1, <2>1, SessionAssumption DEF HandleLine, Handles, CallbackInv, AtRx
  <2>3. CASE m.kind = "job"
    <3>1. clientJob' = m /\ rx' = "store"
      BY <2>1, <2>2, <2>3 DEF Handles
    <3>2. IsNewestJob(m)'
      BY <1>0, <2>1, <2>3, NewestStep
    <3>3. IsNewestJob(clientJob)'
      BY <3>1, <3>2 DEF IsNewestJob
    <3> QED
      BY <2>2, <3>1, <3>3
  <2>4. CASE m.kind # "job"
    <3>1. clientJob' = clientJob /\ rx' = "lines"
      BY <2>1, <2>4 DEF Handles
    <3>2. \A j : IsNewestJob(j) => IsNewestJob(j)'
      BY <1>0, <2>1, <2>4, NewestStep
    <3>3. PICK c, j : c = clientJob /\ j = minerJob
      OBVIOUS
    <3>4. IsNewestJob(c)' /\ IsNewestJob(j)'
      BY <2>2, <3>2, <3>3
    <3>5. IsNewestJob(clientJob)' /\ IsNewestJob(minerJob)'
      BY <2>2, <3>1, <3>3, <3>4 DEF IsNewestJob
    <3> QED
      BY <2>2, <3>1, <3>5
  <2> QED
    BY <2>3, <2>4
<1>2. CASE StoreJob
  <2>1. /\ rx = "store" /\ rx' = "flag" /\ minerJob' = clientJob
        /\ UNCHANGED <<clientJob, handled>>
    BY <1>2 DEF StoreJob, AtRx, clientVars
  <2> QED
    BY <2>1 DEF IsNewestJob, Handled
<1>3. CASE RaiseFlag
  <2>1. /\ rx = "flag" /\ rx' = "lines"
        /\ UNCHANGED <<minerJob, clientJob, handled>>
    BY <1>3 DEF RaiseFlag, AtRx, clientVars
  <2> QED
    BY <2>1 DEF IsNewestJob, Handled
<1>4. CASE Idles
  <2>1. /\ UNCHANGED <<minerJob, clientJob, handled>>
        /\ rx' = rx \/ (rx \notin {"store", "flag"} /\ rx' \notin {"store", "flag"})
    BY <1>4 DEF Idles
  <2> QED
    BY <2>1 DEF IsNewestJob, Handled
<1>5. CASE MiningThreads
  <2>1. UNCHANGED <<minerJob, clientJob, handled, rx>>
    BY <1>5 DEF MiningThreads, TakeJob, EndBatch, minerVars, clientVars
  <2> QED
    BY <2>1 DEF IsNewestJob, Handled
<1> QED
  BY <1>1, <1>2, <1>3, <1>4, <1>5, IdleSteps

\* Taking the flag down and copying a job come in this order, and so do storing
\* a job and raising the flag.
LEMMA FlagStep ==
  ASSUME TypeOK, StreamInv, CallbackInv, NewestHeld, FlagHeard, [Next]_vars
  PROVE  FlagHeard'
<1> SUFFICES ASSUME rx' \notin {"store", "flag"}, ~newJob'
             PROVE  \E t \in Threads : Hears(t)'
  BY DEF FlagHeard
<1>0. SeqsOK /\ BatchOK
  BY TypeParts
<1>1. CASE HandleLine
  <2>1. PICK m : Handles(m)
    BY <1>0, <1>1, LineIsNext
  <2>2. rx = "lines" /\ callbacks /\ UNCHANGED <<newJob, batch>>
    BY <1>1 DEF HandleLine, CallbackInv, AtRx
  <2>3. m.kind # "job"
    BY <2>1, <2>2 DEF Handles
  <2>4. PICK t \in Threads : Hears(t)
    BY <2>2 DEF FlagHeard
  <2>5. \A j : IsNewestJob(j) => IsNewestJob(j)'
    BY <1>0, <2>1, <2>3, NewestStep
  <2>6. PICK j : j = batch[t]
    OBVIOUS
  <2>7. j = NoJob \/ IsNewestJob(j)'
    BY <2>4, <2>5, <2>6 DEF Hears
  <2>8. batch'[t] = j
    BY <2>2, <2>6
  <2>9. Hears(t)'
    BY <2>7, <2>8 DEF Hears, IsNewestJob
  <2> QED
    BY <2>9
<1>2. CASE StoreJob \/ RaiseFlag
  BY <1>2 DEF StoreJob, RaiseFlag
<1>3. ASSUME NEW t \in Threads, TakeJob(t) PROVE \E u \in Threads : Hears(u)'
  <2>1. /\ UNCHANGED <<minerJob, newJob, handled, rx>>
        /\ batch' = [batch EXCEPT ![t] = minerJob]
    BY <1>3 DEF TakeJob, minerVars
  <2>2. IsNewestJob(minerJob) /\ batch'[t] = minerJob
    BY <1>0, <2>1 DEF NewestHeld, BatchOK
  <2>3. Hears(t)'
    BY <2>1, <2>2 DEF Hears, IsNewestJob, Handled
  <2> QED
    BY <2>3
<1>4. ASSUME NEW t \in Threads, EndBatch(t) PROVE Hears(t)'
  BY <1>0, <1>4 DEF EndBatch, BatchOK, Hears
<1>5. CASE Idles
  <2>1. UNCHANGED <<newJob, batch, handled>> /\ rx \notin {"store", "flag"}
    BY <1>5 DEF Idles
  <2>2. PICK t \in Threads : Hears(t)
    BY <2>1 DEF FlagHeard
  <2>3. Hears(t)'
    BY <2>1, <2>2 DEF Hears, IsNewestJob, Handled
  <2> QED
    BY <2>3
<1> QED
  BY <1>1, <1>2, <1>3, <1>4, <1>5, IdleSteps DEF MiningThreads

LEMMA TallyStep ==
  ASSUME TypeOK, StreamInv, CallbackInv, ShareTally, [Next]_vars
  PROVE  ShareTally'
<1>0. SeqsOK
  BY TypeParts
<1>1. CASE HandleLine
  <2>1. PICK m : Handles(m)
    BY <1>0, <1>1, LineIsNext
  <2>2. Counts(m)
    BY <1>1, <2>1 DEF HandleLine, Handles, CallbackInv, AtRx
  <2>3. /\ Cardinality(Handled("accept")) \in Nat /\ Cardinality(Handled("reject")) \in Nat
        /\ Cardinality(Handled("accept"))'
             = Cardinality(Handled("accept")) + IF m.kind = "accept" THEN 1 ELSE 0
        /\ Cardinality(Handled("reject"))'
             = Cardinality(Handled("reject")) + IF m.kind = "reject" THEN 1 ELSE 0
    BY <1>0, <2>1, TallyCounts
  <2> QED
    BY <2>2, <2>3 DEF ShareTally, Counts
<1>2. CASE StoreJob \/ RaiseFlag \/ MiningThreads \/ Idles
  <2>1. UNCHANGED <<accepted, rejected, handled>>
    BY <1>2 DEF StoreJob, RaiseFlag, MiningThreads, TakeJob, EndBatch, minerVars, Idles
  <2> QED
    BY <2>1 DEF ShareTally, Handled
<1> QED
  BY <1>1, <1>2, IdleSteps

-----------------------------------------------------------------------------
(* The inductive invariant and the theorems                                *)

SessionInv ==
  /\ TypeOK /\ StreamInv
  /\ CallbackInv /\ NewestHeld /\ FlagHeard /\ ShareTally

LEMMA SessionInit == Init => SessionInv
<1> SUFFICES ASSUME Init PROVE SessionInv
  OBVIOUS
<1>1. SeqsOK /\ StreamInv
  BY StreamInit
<1>2. PlacesOK /\ BatchOK
  BY DEF Init, PlacesOK, BatchOK
<1>3. TypeOK
  BY <1>1, <1>2, FlagsInit, TypeParts
<1>4. CallbackInv
  BY DEF Init, CallbackInv
<1>5. \A kind : Handled(kind) = {}
  <2>1. handled = <<>>
    BY DEF Init
  <2>2. DOMAIN handled = {}
    BY <2>1
  <2> QED
    BY <2>2 DEF Handled
<1>6. NewestHeld /\ FlagHeard
  BY <1>5, SessionAssumption DEF Init, NewestHeld, FlagHeard, Hears, IsNewestJob
<1>7. ShareTally
  BY <1>5, FS_EmptySet DEF Init, ShareTally
<1> QED
  BY <1>1, <1>3, <1>4, <1>6, <1>7 DEF SessionInv

LEMMA SessionStep == SessionInv /\ [Next]_vars => SessionInv'
<1> SUFFICES ASSUME SessionInv, [Next]_vars PROVE SessionInv'
  OBVIOUS
<1>1. /\ TypeOK /\ FlagsOK /\ PlacesOK /\ SeqsOK /\ StreamInv
      /\ BatchOK /\ CallbackInv /\ NewestHeld /\ FlagHeard /\ ShareTally
  BY TypeParts DEF SessionInv
<1>2. SeqsOK' /\ StreamInv' /\ PlacesOK' /\ BatchOK' /\ FlagsOK'
  BY <1>1, StreamStep, PlacesStep, BatchStep, FlagsStep
<1>3. TypeOK'
  BY <1>2 DEF TypeOK, PlacesOK, BatchOK, SeqsOK
<1>4. CallbackInv' /\ NewestHeld' /\ FlagHeard' /\ ShareTally'
  BY <1>1, CallbackStep, JobStep, FlagStep, TallyStep
<1> QED
  BY <1>2, <1>3, <1>4 DEF SessionInv

LEMMA AlwaysSessionInv == Spec => []SessionInv
<1> QED
  BY SessionInit, SessionStep, PTL DEF Spec

\* What the client and the miner hold as a job is a message the pool can have
\* sent, whole, however recv has cut the stream.
THEOREM TypeCorrect == Spec => []TypeOK
<1>1. SessionInv => TypeOK
  BY DEF SessionInv
<1> QED
  BY <1>1, AlwaysSessionInv, PTL

\* The miner never goes on with an older job than the newest the client has
\* handed to it; and a flag that is down again was taken down by a thread that
\* works on the newest job or has still to copy one.
THEOREM NoJobIsMissed == Spec => []NoJobMissed
<1>1. SessionInv => NoJobMissed
  BY DEF SessionInv, NewestHeld, FlagHeard, Hears, NoJobMissed
<1> QED
  BY <1>1, AlwaysSessionInv, PTL

\* The share counters are the number of answers received, of either kind.
THEOREM SharesAreTallied == Spec => []ShareTally
<1>1. SessionInv => ShareTally
  BY DEF SessionInv
<1> QED
  BY <1>1, AlwaysSessionInv, PTL

\* Every step of the session is a step of the line channel, or none of its
\* business.
LEMMA ChannelStep ==
  ASSUME SessionInv, [Next]_vars
  PROVE  [Channel!Next]_<<sent, handled>>
<1>1. SeqsOK /\ StreamInv
  BY TypeParts DEF SessionInv
<1>2. CASE HandleLine
  <2>1. PICK m : Handles(m)
    BY <1>1, <1>2, LineIsNext
  <2>2. sent' = sent
    BY <1>2 DEF HandleLine, poolVars
  <2>3. Channel!Deliver
    BY <2>1, <2>2 DEF Handles, Channel!Deliver
  <2> QED
    BY <2>3 DEF Channel!Next
<1>3. ASSUME NEW kind \in Kinds, PoolSend(kind) PROVE [Channel!Next]_<<sent, handled>>
  <2>1. \E m \in Message : sent' = Append(sent, m)
    BY <1>1, <1>3, SendStep
  <2>2. handled' = handled
    BY <1>3 DEF PoolSend
  <2>3. Channel!Send
    BY <2>1, <2>2 DEF Channel!Send
  <2> QED
    BY <2>3 DEF Channel!Next
<1>4. ASSUME NEW n \in 1 .. Len(wire), RecvData(n) PROVE UNCHANGED <<sent, handled>>
  BY <1>4 DEF RecvData
<1>5. CASE ConnectionReset \/ Still
  BY <1>5 DEF ConnectionReset, Still
<1> QED
  BY <1>2, <1>3, <1>4, <1>5, StreamSteps

\* Wherever recv cuts the stream and whenever the connection ends, the session
\* implements the line channel: handle_message is given the pool's lines, in
\* order, each once, none cut short and none merged with its neighbour.
THEOREM LinesInOrder == Spec => InOrder
<1>1. Init => Channel!Init
  BY DEF Init, Channel!Init
<1>2. SessionInv /\ [Next]_vars => [Channel!Next]_<<sent, handled>>
  BY ChannelStep
<1> QED
  BY <1>1, <1>2, AlwaysSessionInv, PTL DEF Spec, InOrder, Channel!Spec

=============================================================================
