------------------------ MODULE TcpConnection_proofs ------------------------
(***************************************************************************)
(* For any sizes of the send buffer, the messages and their number: types  *)
(* of a TcpConnection, the kernel's interest in EPOLLOUT against the       *)
(* output buffer, and the pieces of the messages in socket and buffer.     *)
(***************************************************************************)
EXTENDS TcpConnection, SequenceTheorems, TLAPS

(* A part of a sequence has the elements of the sequence. *)
LEMMA PartIsSeq ==
  ASSUME NEW S, NEW s \in Seq(S), NEW m \in Nat \ {0}, NEW n \in Nat, n <= Len(s)
  PROVE  /\ SubSeq(s, m, n) \in Seq(S)
         /\ Len(SubSeq(s, m, n)) = IF m <= n THEN n - m + 1 ELSE 0
         /\ \A i \in 1 .. n - m + 1 : SubSeq(s, m, n)[i] = s[m + i - 1]
<1>1. \A i \in m .. n : s[i] \in S
  BY ElementOfSeq
<1>2. QED
  BY <1>1, SubSeqProperties

(* What the C string conversion keeps is well typed, and it is everything  *)
(* when there is no zero byte (TcpConnection.cpp:62).                      *)
LEMMA CStringParts ==
  ASSUME NEW s \in Seq(Pieces), NEW text \in CString(s)
  PROVE  /\ text \in Seq(Pieces)
         /\ (\A i \in DOMAIN s : ~s[i].zero) => text = s
<1>1. PICK k \in 0 .. Len(s) : /\ text = SubSeq(s, 1, k)
                               /\ k < Len(s) => s[k + 1].zero
  BY DEF CString
<1>2. text \in Seq(Pieces)
  BY <1>1, PartIsSeq
<1>3. ASSUME \A i \in DOMAIN s : ~s[i].zero
      PROVE  text = s
  <2>1. k = Len(s)
    BY <1>1, <1>3
  <2>2. QED
    BY <1>1, <2>1, SubSeqFull
<1>4. QED
  BY <1>2, <1>3

LEMMA MessageIsSeq ==
  ASSUME NEW n \in 1 .. MaxMessages, NEW len \in 1 .. MaxLength,
         NEW zeros \in SUBSET (1 .. len)
  PROVE  /\ Message(n, len, zeros) \in Seq(Pieces)
         /\ Len(Message(n, len, zeros)) = len
<1>1. \A i \in 1 .. len : Message(n, len, zeros)[i] \in Pieces
  BY ConnectionBounds DEF Message, Pieces
<1>2. Message(n, len, zeros) \in [1 .. len -> Pieces]
  BY <1>1 DEF Message
<1>3. QED
  BY <1>2, IsASeq, LenProperties, ConnectionBounds

(* send(): what is written and what is buffered are pieces of the message. *)
LEMMA SendTypes ==
  ASSUME TypeOK, NEW m \in Seq(Pieces), SendMessage(m)
  PROVE  /\ accepted' = Append(accepted, m)
         /\ wire' \in Seq(Pieces)
         /\ output' \in Seq(Pieces)
         /\ room' \in 0 .. SendBuffer
         /\ \/ UNCHANGED <<output, event, interest>>
            \/ /\ event' = event \cup {"out"}
               /\ interest' = IF "out" \in event THEN interest ELSE event'
<1> DEFINE n    == Smaller(Len(m), Takes)
           rest == SubSeq(m, n + 1, Len(m))
<1>1. n \in Nat /\ n <= Len(m) /\ n <= room
  BY LenProperties, ConnectionBounds DEF Smaller, Takes, TypeOK
<1>2. SubSeq(m, 1, n) \in Seq(Pieces) /\ rest \in Seq(Pieces)
  <2> Len(m) \in Nat
    BY LenProperties
  <2> HIDE DEF n
  <2> QED
    BY <1>1, PartIsSeq
<1>3. /\ accepted' = Append(accepted, m)
      /\ wire' = wire \o SubSeq(m, 1, n)
      /\ room' = room - n
      /\ IF rest = <<>>
         THEN UNCHANGED <<output, event, interest>>
         ELSE /\ \E text \in CString(rest) : output' = output \o text
              /\ event' = event \cup {"out"}
              /\ interest' = IF IsWriting THEN interest ELSE event'
  BY DEF SendMessage
<1> HIDE DEF n, rest
<1>4. wire' \in Seq(Pieces)
  BY <1>2, <1>3, ConcatProperties DEF TypeOK
<1>5. output' \in Seq(Pieces)
  <2>1. CASE rest = <<>>
    BY <1>3, <2>1 DEF TypeOK
  <2>2. CASE rest # <<>>
    BY <1>2, <1>3, <2>2, CStringParts, ConcatProperties DEF TypeOK
  <2>3. QED
    BY <2>1, <2>2
<1>6. room' \in 0 .. SendBuffer
  BY <1>1, <1>3, ConnectionBounds DEF TypeOK
<1>7. QED
  BY <1>3, <1>4, <1>5, <1>6 DEF IsWriting

LEMMA TypeOKInit == Init => TypeOK
<1> SUFFICES ASSUME Init
             PROVE  TypeOK
  OBVIOUS
<1>1. /\ output \in Seq(Pieces) /\ wire \in Seq(Pieces) /\ accepted \in Seq(Seq(Pieces))
      /\ Len(accepted) = 0
  BY EmptySeq DEF Init
<1>2. pc \in Places /\ event \in Masks /\ interest \in SUBSET {"in", "out"}
  BY DEF Init, Places, Masks
<1>3. room \in 0 .. SendBuffer /\ Len(accepted) <= MaxMessages
  BY <1>1, ConnectionBounds DEF Init
<1>4. QED
  BY <1>1, <1>2, <1>3 DEF Init, TypeOK

(* send() keeps the types, whether the write signals or returns. *)
LEMMA SendTypeOK ==
  ASSUME TypeOK, Send
  PROVE  TypeOK'
<1> USE DEF TypeOK
<1>1. UNCHANGED <<pc, state, closed, data, peer, shut>> /\ state = "connected"
      /\ UserCode /\ Len(accepted) < MaxMessages /\ pc # "accept"
  BY DEF Send, UserCode
<1>2. CASE WriteSignals /\ UNCHANGED <<event, interest, output, accepted, wire, room>>
  BY <1>1, <1>2 DEF WriteSignals
<1>3. CASE /\ WriteReturns
           /\ \E len \in 1 .. MaxLength : \E zeros \in SUBSET (1 .. len) :
                SendMessage(Message(Len(accepted) + 1, len, zeros))
  <2>0. PICK len \in 1 .. MaxLength : \E zeros \in SUBSET (1 .. len) :
               SendMessage(Message(Len(accepted) + 1, len, zeros))
    BY <1>3
  <2>1. PICK zeros \in SUBSET (1 .. len) :
               SendMessage(Message(Len(accepted) + 1, len, zeros))
    BY <2>0
  <2> DEFINE m == Message(Len(accepted) + 1, len, zeros)
  <2>2. Len(accepted) \in Nat
    BY LenProperties
  <2>3. m \in Seq(Pieces)
    BY <1>1, <2>2, MessageIsSeq, ConnectionBounds
  <2> HIDE DEF m
  <2>4. SendMessage(m)
    BY <2>1 DEF m
  <2>5. accepted' \in Seq(Seq(Pieces)) /\ Len(accepted') <= MaxMessages
    <3>1. accepted' = Append(accepted, m)
      BY <2>3, <2>4, SendTypes
    <3>2. Append(accepted, m) \in Seq(Seq(Pieces))
          /\ Len(Append(accepted, m)) = Len(accepted) + 1
      BY <2>3, AppendProperties
    <3>3. QED
      BY <1>1, <2>2, <3>1, <3>2, ConnectionBounds
  <2>6. /\ wire' \in Seq(Pieces) /\ output' \in Seq(Pieces) /\ room' \in 0 .. SendBuffer
        /\ \/ UNCHANGED <<output, event, interest>>
           \/ /\ event' = event \cup {"out"}
              /\ interest' = IF "out" \in event THEN interest ELSE event'
    BY <2>3, <2>4, SendTypes
  <2>7. event' \in Masks /\ interest' \in SUBSET {"in", "out"} /\ "hup" \notin event'
    BY <1>1, <2>6 DEF Masks, UserCode
  <2>8. killed' \in BOOLEAN
    BY <1>3 DEF WriteReturns
  <2>9. QED
    BY <1>1, <2>5, <2>6, <2>7, <2>8
<1>4. QED
  BY <1>2, <1>3 DEF Send

(* handleWrite(): what it takes off the buffer goes to the socket. *)
LEMMA WriteTypeOK ==
  ASSUME TypeOK, HandleWrite
  PROVE  TypeOK'
<1> USE DEF TypeOK
<1>1. /\ UNCHANGED <<state, closed, accepted, data, peer, shut>>
      /\ pc = "write" /\ pc' = "functors" /\ "hup" \notin event
  BY DEF HandleWrite
<1>2. CASE WriteSignals /\ UNCHANGED <<event, interest, output, wire, room>>
  BY <1>1, <1>2 DEF WriteSignals, Places
<1>3. ASSUME WriteReturns, ~(WriteSignals /\ UNCHANGED <<event, interest, output, wire, room>>)
      PROVE  TypeOK'
  <2> DEFINE n == Smaller(Len(output), Takes)
  <2>1. n \in Nat /\ n <= Len(output) /\ n <= room
    BY LenProperties, ConnectionBounds DEF Smaller, Takes
  <2>2. /\ wire' = wire \o SubSeq(output, 1, n)
        /\ room' = room - n
        /\ output' = SubSeq(output, n + 1, Len(output))
        /\ IF OutputDone(n)
           THEN event' = event \ {"out"} /\ interest' = event'
           ELSE UNCHANGED <<event, interest>>
    BY <1>3 DEF HandleWrite
  <2> HIDE DEF n
  <2>3. Len(output) \in Nat
    BY LenProperties
  <2>4. SubSeq(output, 1, n) \in Seq(Pieces) /\ SubSeq(output, n + 1, Len(output)) \in Seq(Pieces)
    BY <2>1, <2>3, PartIsSeq
  <2>5. wire' \in Seq(Pieces) /\ output' \in Seq(Pieces)
    BY <2>2, <2>4, ConcatProperties
  <2>6. event' \in Masks /\ "hup" \notin event' /\ interest' \in SUBSET {"in", "out"}
    BY <1>1, <2>2 DEF Masks
  <2>7. room' \in 0 .. SendBuffer
    BY <2>1, <2>2, ConnectionBounds
  <2>8. pc' \in Places /\ killed' \in BOOLEAN
    BY <1>1, <1>3 DEF Places, WriteReturns
  <2>9. QED
    BY <1>1, <2>5, <2>6, <2>7, <2>8
<1>4. QED
  BY <1>2, <1>3 DEF HandleWrite

LEMMA TypeOKStep == TypeOK /\ [Next]_vars => TypeOK'
<1> SUFFICES ASSUME TypeOK, [Next]_vars
             PROVE  TypeOK'
  OBVIOUS
<1> USE DEF TypeOK, Places, Masks, socket
<1>1. CASE ConnectEstablished
  BY <1>1 DEF ConnectEstablished
<1>2. CASE CallbackReturns
  BY <1>2 DEF CallbackReturns
<1>3. CASE FunctorsDone
  BY <1>3 DEF FunctorsDone
<1>4. CASE ConnectDestroyed
  BY <1>4 DEF ConnectDestroyed
<1>5. CASE Poll
  BY <1>5 DEF Poll, Reported, SocketEvents
<1>6. CASE TestClose
  BY <1>6 DEF TestClose, HandleClose
<1>7. CASE HandleRead
  BY <1>7 DEF HandleRead, HandleClose
<1>8. CASE SkipRead
  BY <1>8 DEF SkipRead
<1>9. CASE SkipWrite
  BY <1>9 DEF SkipWrite
<1>10. CASE HandleWrite
  BY <1>10, WriteTypeOK
<1>11. CASE PollOther
  BY <1>11 DEF PollOther
<1>12. CASE Send
  BY <1>12, SendTypeOK
<1>13. CASE Shutdown
  <2>1. shut' \in BOOLEAN
    BY <1>13 DEF Shutdown, IsWriting
  <2>2. QED
    BY <1>13, <2>1 DEF Shutdown, UserCode
<1>14. CASE PeerReads
  BY <1>14, ConnectionBounds DEF PeerReads
<1>15. CASE PeerSends
  BY <1>15 DEF PeerSends
<1>16. CASE PeerCloses
  BY <1>16 DEF PeerCloses
<1>17. CASE UNCHANGED vars
  BY <1>17 DEF vars
<1>18. QED
  BY <1>1, <1>2, <1>3, <1>4, <1>5, <1>6, <1>7, <1>8, <1>9, <1>10, <1>11, <1>12,
     <1>13, <1>14, <1>15, <1>16, <1>17 DEF Next, LoopStep

(* Every reachable state of a connection is well typed; a hangup is seen   *)
(* only by the first test of handleEvent, and the write side is shut only  *)
(* after shutdown() (TcpConnection.cpp:45-137).                            *)
THEOREM TypeCorrect == Spec => []TypeOK
BY TypeOKInit, TypeOKStep, PTL DEF Spec

----------------------------------------------------------------------------
(* Why the kernel watches the output.  event_ is overwritten with what     *)
(* fired, so it may lack EPOLLOUT that the kernel has; it never has what   *)
(* the kernel lacks, since what fired was asked for.  Hence enableWriting  *)
(* is skipped only when the kernel is already watching, and disableWriting *)
(* happens only when the buffer was emptied.                               *)
WatchInv ==
  ~closed => /\ "out" \in event => "out" \in interest
             /\ output # <<>> => "out" \in interest
             /\ Texts /\ output = <<>> => "out" \notin interest

(* A message that send() took can only make Texts false.                   *)
LEMMA TextsBefore ==
  ASSUME TypeOK, NEW m \in Seq(Pieces), accepted' = Append(accepted, m), Texts'
  PROVE  Texts /\ \A i \in DOMAIN m : ~m[i].zero
<1>1. ToSet(accepted) \subseteq ToSet(accepted') /\ m \in ToSet(accepted')
  <2>1. /\ Len(accepted') = Len(accepted) + 1
        /\ \A i \in 1 .. Len(accepted) : accepted'[i] = accepted[i]
        /\ accepted'[Len(accepted) + 1] = m
        /\ accepted' \in Seq(Seq(Pieces))
    BY AppendProperties DEF TypeOK
  <2>2. DOMAIN accepted = 1 .. Len(accepted) /\ DOMAIN accepted' = 1 .. Len(accepted')
        /\ Len(accepted) \in Nat
    BY <2>1, LenProperties DEF TypeOK
  <2>3. QED
    BY <2>1, <2>2 DEF ToSet
<1>2. QED
  BY <1>1 DEF Texts

(* send() appends something to the buffer whenever it asks for EPOLLOUT,   *)
(* unless a zero byte cut it (TcpConnection.cpp:61-66).                    *)
LEMMA SendWatches ==
  ASSUME TypeOK, WatchInv, Send
  PROVE  WatchInv'
<1>1. CASE WriteSignals /\ UNCHANGED <<event, interest, output, accepted, wire, room>>
  BY <1>1 DEF Send, WatchInv, Texts
<1>2. CASE /\ WriteReturns
           /\ \E len \in 1 .. MaxLength : \E zeros \in SUBSET (1 .. len) :
                SendMessage(Message(Len(accepted) + 1, len, zeros))
  <2>1. PICK len \in 1 .. MaxLength : \E zeros \in SUBSET (1 .. len) :
               SendMessage(Message(Len(accepted) + 1, len, zeros))
    BY <1>2
  <2>2. PICK zeros \in SUBSET (1 .. len) :
               SendMessage(Message(Len(accepted) + 1, len, zeros))
    BY <2>1
  <2> DEFINE m    == Message(Len(accepted) + 1, len, zeros)
             n    == Smaller(Len(m), Takes)
             rest == SubSeq(m, n + 1, Len(m))
  <2>3. m \in Seq(Pieces) /\ Len(m) \in Nat
    <3>1. Len(accepted) \in Nat /\ Len(accepted) < MaxMessages
      BY LenProperties DEF TypeOK, Send
    <3>2. QED
      BY <3>1, MessageIsSeq, ConnectionBounds
  <2> HIDE DEF m
  <2>4. n \in Nat /\ n <= Len(m)
    BY <2>3, ConnectionBounds DEF Smaller, Takes, TypeOK
  <2>5. /\ accepted' = Append(accepted, m)
        /\ IF rest = <<>>
           THEN UNCHANGED <<output, event, interest>>
           ELSE /\ \E text \in CString(rest) : output' = output \o text
                /\ event' = event \cup {"out"}
                /\ interest' = IF IsWriting THEN interest ELSE event'
    BY <2>2 DEF SendMessage, m
  <2> HIDE DEF n
  <2>6. rest \in Seq(Pieces) /\ \A i \in DOMAIN rest : \E j \in DOMAIN m : rest[i] = m[j]
    <3>1. /\ rest \in Seq(Pieces)
          /\ Len(rest) = IF n + 1 <= Len(m) THEN Len(m) - n ELSE 0
          /\ \A i \in 1 .. Len(m) - n : rest[i] = m[n + i]
      <4>1. /\ SubSeq(m, n + 1, Len(m)) \in Seq(Pieces)
            /\ Len(SubSeq(m, n + 1, Len(m)))
                 = IF n + 1 <= Len(m) THEN Len(m) - (n + 1) + 1 ELSE 0
            /\ \A i \in 1 .. Len(m) - (n + 1) + 1 :
                 SubSeq(m, n + 1, Len(m))[i] = m[n + 1 + i - 1]
        BY <2>3, <2>4, PartIsSeq
      <4>2. QED
        BY <2>3, <2>4, <4>1
    <3>2. DOMAIN rest = 1 .. Len(rest) /\ DOMAIN m = 1 .. Len(m)
      BY <2>3, <3>1, LenProperties
    <3> HIDE DEF rest
    <3>3. ASSUME NEW i \in DOMAIN rest
          PROVE  \E j \in DOMAIN m : rest[i] = m[j]
      <4>1. i \in 1 .. Len(rest)
        BY <3>2
      <4>2. Len(rest) = Len(m) - n
        BY <2>3, <2>4, <3>1, <4>1
      <4>3. i \in 1 .. Len(m) - n /\ n + i \in 1 .. Len(m)
        BY <2>3, <2>4, <4>1, <4>2
      <4>4. QED
        BY <3>1, <3>2, <4>3
    <3>4. QED
      BY <3>1, <3>3
  <2> HIDE DEF rest
  <2>7. Texts' => Texts /\ \A i \in DOMAIN m : ~m[i].zero
    BY <2>3, <2>5, TextsBefore
  <2>8. UNCHANGED closed
    BY DEF Send
  <2>9. CASE rest = <<>>
    BY <2>5, <2>7, <2>8, <2>9 DEF WatchInv
  <2>10. CASE rest # <<>>
    <3>1. PICK text \in CString(rest) : output' = output \o text
      BY <2>5, <2>10
    <3>2. text \in Seq(Pieces) /\ (Texts' => text = rest)
      BY <2>6, <2>7, <3>1, CStringParts, SMTT(30)
    <3>3. Texts' => output' # <<>>
      BY <2>6, <2>10, <3>1, <3>2, ConcatProperties, LenProperties, EmptySeq DEF TypeOK
    <3>4. ~closed => "out" \in interest'
      BY <2>5, <2>10 DEF WatchInv, IsWriting
    <3>5. QED
      BY <2>8, <3>3, <3>4 DEF WatchInv
  <2>11. QED
    BY <2>9, <2>10
<1>3. QED
  BY <1>1, <1>2 DEF Send

(* disableWriting() comes exactly when the buffer was emptied, and an empty *)
(* buffer is only written while the kernel was asked for nothing.          *)
LEMMA WriteWatches ==
  ASSUME TypeOK, WatchInv, HandleWrite
  PROVE  WatchInv'
<1>1. UNCHANGED <<closed, accepted>> /\ "out" \in event
  BY DEF HandleWrite
<1>2. CASE WriteSignals /\ UNCHANGED <<event, interest, output, wire, room>>
  BY <1>1, <1>2 DEF WatchInv, Texts
<1>3. ASSUME WriteReturns, ~(WriteSignals /\ UNCHANGED <<event, interest, output, wire, room>>)
      PROVE  WatchInv'
  <2> DEFINE n == Smaller(Len(output), Takes)
  <2>1. n \in Nat /\ n <= Len(output) /\ Len(output) \in Nat
    BY LenProperties, ConnectionBounds DEF Smaller, Takes, TypeOK
  <2>2. /\ output' = SubSeq(output, n + 1, Len(output))
        /\ IF OutputDone(n)
           THEN event' = event \ {"out"} /\ interest' = event'
           ELSE UNCHANGED <<event, interest>>
    BY <1>3 DEF HandleWrite
  <2> HIDE DEF n
  <2>3. CASE OutputDone(n)
    <3>1. output' = <<>>
      BY <2>1, <2>2, <2>3, SubSeqEmpty DEF OutputDone
    <3>2. QED
      BY <1>1, <2>2, <2>3, <3>1 DEF WatchInv
  <2>4. CASE ~OutputDone(n)
    <3>1. output' = <<>> <=> output = <<>>
      <4>1. Len(SubSeq(output, n + 1, Len(output)))
              = IF n + 1 <= Len(output) THEN Len(output) - (n + 1) + 1 ELSE 0
        BY <2>1, PartIsSeq DEF TypeOK
      <4>2. n < Len(output) \/ (n = 0 /\ Len(output) = 0)
        BY <2>1, <2>4 DEF OutputDone
      <4>3. CASE n < Len(output)
        <5>1. Len(output') > 0 /\ Len(output) > 0
          BY <2>1, <2>2, <4>1, <4>3
        <5>2. Len(<<>>) = 0
          OBVIOUS
        <5>3. QED
          BY <5>1, <5>2
      <4>4. CASE n = 0 /\ Len(output) = 0
        BY <2>2, <4>4, SubSeqEmpty, EmptySeq DEF TypeOK
      <4>5. QED
        BY <4>2, <4>3, <4>4
    <3>2. QED
      BY <1>1, <2>2, <2>4, <3>1 DEF WatchInv, Texts
  <2>5. QED
    BY <2>3, <2>4
<1>4. QED
  BY <1>2, <1>3 DEF HandleWrite

LEMMA WatchInvStep == TypeOK /\ WatchInv /\ [Next]_vars => WatchInv'
<1> SUFFICES ASSUME TypeOK, WatchInv, [Next]_vars
             PROVE  WatchInv'
  OBVIOUS
<1> USE DEF WatchInv, Texts, socket
<1>1. CASE ConnectEstablished
  BY <1>1 DEF ConnectEstablished, TypeOK
<1>2. CASE CallbackReturns
  BY <1>2 DEF CallbackReturns
<1>3. CASE FunctorsDone
  BY <1>3 DEF FunctorsDone
<1>4. CASE ConnectDestroyed
  BY <1>4 DEF ConnectDestroyed
<1>5. CASE Poll
  BY <1>5 DEF Poll, Reported
<1>6. CASE TestClose
  BY <1>6 DEF TestClose, HandleClose
<1>7. CASE HandleRead
  BY <1>7 DEF HandleRead, HandleClose
<1>8. CASE SkipRead
  BY <1>8 DEF SkipRead
<1>9. CASE SkipWrite
  BY <1>9 DEF SkipWrite
<1>10. CASE HandleWrite
  BY <1>10, WriteWatches
<1>11. CASE PollOther
  BY <1>11 DEF PollOther
<1>12. CASE Send
  BY <1>12, SendWatches
<1>13. CASE Shutdown
  BY <1>13 DEF Shutdown
<1>14. CASE PeerReads
  BY <1>14 DEF PeerReads
<1>15. CASE PeerSends
  BY <1>15 DEF PeerSends
<1>16. CASE PeerCloses
  BY <1>16 DEF PeerCloses
<1>17. CASE UNCHANGED vars
  BY <1>17 DEF vars
<1>18. QED
  BY <1>1, <1>2, <1>3, <1>4, <1>5, <1>6, <1>7, <1>8, <1>9, <1>10, <1>11, <1>12,
     <1>13, <1>14, <1>15, <1>16, <1>17 DEF Next, LoopStep

(* Whatever the Epoller does to event_, the kernel is asked for EPOLLOUT   *)
(* while there is output, and only then if no message held a zero byte     *)
(* (TcpConnection.cpp:45-68, 112-130).                                     *)
THEOREM OutputWatchedHolds == Spec => []OutputWatched
<1>1. Init => WatchInv
  BY DEF Init, WatchInv
<1>2. WatchInv => OutputWatched
  BY DEF WatchInv, OutputWatched
<1>3. QED
  BY <1>1, <1>2, TypeCorrect, WatchInvStep, PTL DEF Spec

----------------------------------------------------------------------------
(* The pieces.  send() inserts what it writes in front of the buffered     *)
(* output and appends the rest behind it, so the pieces of the earlier     *)
(* messages keep their order and the new ones stand in theirs.             *)
(* Where a place of the result comes from. *)
Origin(W, A, O, B, i) ==
  /\ i \in 1 .. (W + A) + (O + B)
  /\ i <= W => i \in 1 .. W + O /\ i \in 1 .. W + A /\ i <= W + A
  /\ i > W + A /\ i <= W + A + O =>
       /\ i - A \in 1 .. W + O /\ ~(i <= W) /\ ~(i - A <= W) /\ ~(i <= W + A)
       /\ (i - A) - W = i - (W + A)
       /\ i - (W + A) \in 1 .. O + B /\ i - (W + A) <= O
  /\ i > W /\ i <= W + A =>
       ~(i <= W) /\ i - W \in 1 .. A + B /\ i - W <= A /\ i \in 1 .. W + A
  /\ i > W + A /\ ~(i <= W + A + O) =>
       /\ (i - W) - O \in 1 .. A + B /\ ~((i - W) - O <= A) /\ ~(i <= W + A)
       /\ ((i - W) - O) - A = (i - (W + A)) - O
       /\ i - (W + A) \in 1 .. O + B /\ ~(i - (W + A) <= O)

LEMMA HasOrigin ==
  ASSUME NEW W \in Nat, NEW A \in Nat, NEW O \in Nat, NEW B \in Nat, NEW i \in Nat,
         1 <= i, i <= W + A + O + B
  PROVE  Origin(W, A, O, B, i)
BY DEF Origin

(* What the result of the insertion holds, and in which order. *)
InsertedFacts(S, w, a, o, b) ==
  LET x == w \o o
      c == a \o b
      y == (w \o a) \o (o \o b)
  IN  /\ x \in Seq(S) /\ c \in Seq(S) /\ y \in Seq(S)
      /\ ToSet(y) = ToSet(x) \cup ToSet(c)
      /\ \A i \in DOMAIN y :
           \/ \E p \in DOMAIN x : y[i] = x[p]
           \/ \E q \in DOMAIN c : y[i] = c[q]
      /\ \A i, j \in DOMAIN y : i < j =>
           \/ \E p, q \in DOMAIN x : p < q /\ y[i] = x[p] /\ y[j] = x[q]
           \/ \E p, q \in DOMAIN c : p < q /\ y[i] = c[p] /\ y[j] = c[q]
           \/ \E p \in DOMAIN x, q \in DOMAIN c : y[i] = x[p] /\ y[j] = c[q]
           \/ \E p \in DOMAIN c, q \in DOMAIN x : y[i] = c[p] /\ y[j] = x[q]

LEMMA InsertedAt ==
  ASSUME NEW S, NEW w \in Seq(S), NEW a \in Seq(S), NEW o \in Seq(S), NEW b \in Seq(S),
         NEW W \in Nat, NEW A \in Nat, NEW O \in Nat, NEW B \in Nat,
         W = Len(w), A = Len(a), O = Len(o), B = Len(b)
  PROVE  InsertedFacts(S, w, a, o, b)
<1> DEFINE x == w \o o  c == a \o b  wa == w \o a  ob == o \o b  y == wa \o ob
           Old(i) == i <= W \/ (i > W + A /\ i <= W + A + O)
           OldAt(i) == IF i <= W THEN i ELSE i - A
           NewAt(i) == IF i <= W + A THEN i - W ELSE i - W - O
<1>2. /\ x \in Seq(S) /\ Len(x) = W + O
      /\ \A i \in 1 .. W + O : x[i] = IF i <= W THEN w[i] ELSE o[i - W]
  BY ConcatProperties
<1>3. /\ c \in Seq(S) /\ Len(c) = A + B
      /\ \A i \in 1 .. A + B : c[i] = IF i <= A THEN a[i] ELSE b[i - A]
  BY ConcatProperties
<1>4. /\ wa \in Seq(S) /\ Len(wa) = W + A
      /\ \A i \in 1 .. W + A : wa[i] = IF i <= W THEN w[i] ELSE a[i - W]
  BY ConcatProperties
<1>5. /\ ob \in Seq(S) /\ Len(ob) = O + B
      /\ \A i \in 1 .. O + B : ob[i] = IF i <= O THEN o[i] ELSE b[i - O]
  BY ConcatProperties
<1> HIDE DEF wa, ob
<1>6. /\ y \in Seq(S) /\ Len(y) = (W + A) + (O + B)
      /\ \A i \in 1 .. (W + A) + (O + B) : y[i] = IF i <= W + A THEN wa[i] ELSE ob[i - (W + A)]
  <2> DEFINE M == W + A  N == O + B
  <2>1. M \in Nat /\ N \in Nat
    OBVIOUS
  <2>2. wa \in Seq(S) /\ ob \in Seq(S) /\ Len(wa) = M /\ Len(ob) = N
    BY <1>4, <1>5
  <2> HIDE DEF M, N
  <2>3. /\ wa \o ob \in Seq(S) /\ Len(wa \o ob) = M + N
        /\ \A i \in 1 .. M + N : (wa \o ob)[i] = IF i <= M THEN wa[i] ELSE ob[i - M]
    <3>1. \A p, q \in Seq(S) : Len(p) = M /\ Len(q) = N =>
            /\ p \o q \in Seq(S) /\ Len(p \o q) = M + N
            /\ \A i \in 1 .. M + N : (p \o q)[i] = IF i <= M THEN p[i] ELSE q[i - M]
      <4>1. ASSUME NEW p \in Seq(S), NEW q \in Seq(S), Len(p) = M, Len(q) = N
            PROVE  /\ p \o q \in Seq(S) /\ Len(p \o q) = M + N
                   /\ \A i \in 1 .. M + N : (p \o q)[i] = IF i <= M THEN p[i] ELSE q[i - M]
        BY <4>1, ConcatProperties
      <4> QED BY <4>1
    <3> QED BY <2>2, <3>1, Zenon
  <2> QED BY <2>3, Zenon DEF M, N
<1>7. /\ DOMAIN x = 1 .. W + O /\ DOMAIN c = 1 .. A + B
      /\ DOMAIN y = 1 .. (W + A) + (O + B)
  BY <1>2, <1>3, <1>6, LenProperties
<1> HIDE DEF x, c, y
<1>y. \A i \in DOMAIN y : i \in Nat /\ 1 <= i /\ i <= W + A + O + B
  BY <1>7
<1>z. /\ \A i \in Nat : 1 <= i /\ i <= W + A + O + B => i \in DOMAIN y
      /\ \A i \in Nat : 1 <= i /\ i <= W + O => i \in DOMAIN x
      /\ \A i \in Nat : 1 <= i /\ i <= A + B => i \in DOMAIN c
      /\ \A i \in DOMAIN x : i \in Nat /\ 1 <= i /\ i <= W + O
      /\ \A i \in DOMAIN c : i \in Nat /\ 1 <= i /\ i <= A + B
  BY <1>7
<1>8. ASSUME NEW i \in DOMAIN y, Old(i)
      PROVE  OldAt(i) \in DOMAIN x /\ y[i] = x[OldAt(i)]
  <2>1. Origin(W, A, O, B, i)
    BY <1>y, HasOrigin
  <2>2. CASE i <= W
    <3>1. i \in 1 .. W + O /\ i \in 1 .. W + A /\ i \in 1 .. (W + A) + (O + B) /\ i <= W + A
      BY <2>1, <2>2 DEF Origin
    <3>2. y[i] = w[i] /\ x[i] = w[i]
      BY <1>2, <1>4, <1>6, <2>2, <3>1
    <3> QED BY <1>7, <2>2, <3>1, <3>2
  <2>3. CASE i > W + A /\ i <= W + A + O
    <3>1. /\ i - A \in 1 .. W + O /\ ~(i <= W) /\ ~(i - A <= W) /\ ~(i <= W + A)
          /\ (i - A) - W = i - (W + A)
          /\ i - (W + A) \in 1 .. O + B /\ i - (W + A) <= O
          /\ i \in 1 .. (W + A) + (O + B)
      BY <2>1, <2>3, Zenon DEF Origin
    <3>2. y[i] = ob[i - (W + A)] /\ ob[i - (W + A)] = o[i - (W + A)]
      BY <1>5, <1>6, <3>1, Zenon
    <3>3. x[i - A] = o[(i - A) - W]
      BY <1>2, <3>1, Zenon
    <3> QED BY <1>7, <3>1, <3>2, <3>3, Zenon
  <2> QED BY <1>8, <2>2, <2>3
<1>9. ASSUME NEW i \in DOMAIN y, ~Old(i)
      PROVE  NewAt(i) \in DOMAIN c /\ y[i] = c[NewAt(i)]
  <2>1. Origin(W, A, O, B, i)
    BY <1>y, HasOrigin
  <2>2. CASE i > W /\ i <= W + A
    <3>1. /\ ~(i <= W) /\ i - W \in 1 .. A + B /\ i - W <= A
          /\ i \in 1 .. (W + A) + (O + B) /\ i \in 1 .. W + A
      BY <2>1, <2>2, Zenon DEF Origin
    <3>2. y[i] = wa[i] /\ wa[i] = a[i - W] /\ c[i - W] = a[i - W]
      BY <1>3, <1>4, <1>6, <2>2, <3>1, Zenon
    <3> QED BY <1>7, <2>2, <3>1, <3>2, Zenon
  <2>3. CASE i > W + A /\ ~(i <= W + A + O)
    <3>1. /\ (i - W) - O \in 1 .. A + B /\ ~((i - W) - O <= A) /\ ~(i <= W + A)
          /\ ((i - W) - O) - A = (i - (W + A)) - O
          /\ i - (W + A) \in 1 .. O + B /\ ~(i - (W + A) <= O)
          /\ i \in 1 .. (W + A) + (O + B)
      BY <2>1, <2>3, Zenon DEF Origin
    <3>2. y[i] = ob[i - (W + A)] /\ ob[i - (W + A)] = b[(i - (W + A)) - O]
      BY <1>5, <1>6, <3>1, Zenon
    <3>3. c[(i - W) - O] = b[((i - W) - O) - A]
      BY <1>3, <3>1, Zenon
    <3> QED BY <1>7, <3>1, <3>2, <3>3, Zenon
  <2>4. (i > W /\ i <= W + A) \/ (i > W + A /\ ~(i <= W + A + O))
    <3>1. ~(i <= W) /\ ~(i > W + A /\ i <= W + A + O) /\ i \in Nat
      BY <1>y, <1>9
    <3> QED BY <3>1
  <2> QED BY <2>2, <2>3, <2>4
<1>10. ASSUME NEW i \in DOMAIN y, NEW j \in DOMAIN y, i < j
       PROVE  /\ Old(i) /\ Old(j) => OldAt(i) < OldAt(j)
              /\ ~Old(i) /\ ~Old(j) => NewAt(i) < NewAt(j)
  <2>1. i \in Nat /\ j \in Nat
    BY <1>y
  <2> QED BY <1>10, <2>1
<1>11. ASSUME NEW p \in DOMAIN x PROVE \E i \in DOMAIN y : y[i] = x[p]
  <2>1. p \in Nat /\ 1 <= p /\ p <= W + O
    BY <1>z
  <2>2. CASE p <= W
    <3>1. p \in DOMAIN y /\ Old(p) /\ OldAt(p) = p
      <4>1. p <= W + A + O + B
        BY <2>1, <2>2
      <4> QED BY <1>z, <2>1, <2>2, <4>1
    <3> HIDE DEF Old, OldAt
    <3> QED BY <1>8, <3>1
  <2>3. CASE ~(p <= W)
    <3>1. p + A \in DOMAIN y /\ Old(p + A) /\ OldAt(p + A) = p
      <4>1. /\ p + A \in Nat /\ 1 <= p + A /\ p + A <= W + A + O + B
            /\ ~(p + A <= W) /\ p + A > W + A /\ p + A <= W + A + O /\ (p + A) - A = p
        BY <2>1, <2>3
      <4> QED BY <1>z, <4>1
    <3> HIDE DEF Old, OldAt
    <3> QED BY <1>8, <3>1
  <2> QED BY <2>2, <2>3
<1>12. ASSUME NEW q \in DOMAIN c PROVE \E i \in DOMAIN y : y[i] = c[q]
  <2>1. q \in Nat /\ 1 <= q /\ q <= A + B
    BY <1>z
  <2>2. CASE q <= A
    <3>1. q + W \in DOMAIN y /\ ~Old(q + W) /\ NewAt(q + W) = q
      <4>1. /\ q + W \in Nat /\ 1 <= q + W /\ q + W <= W + A + O + B
            /\ ~(q + W <= W) /\ ~(q + W > W + A) /\ q + W <= W + A /\ (q + W) - W = q
        BY <2>1, <2>2
      <4> QED BY <1>z, <4>1
    <3> HIDE DEF Old, NewAt
    <3> QED BY <1>9, <3>1
  <2>3. CASE ~(q <= A)
    <3> DEFINE i == (q + W) + O
    <3>1. i \in DOMAIN y /\ ~Old(i) /\ NewAt(i) = q
      <4>1. /\ i \in Nat /\ 1 <= i /\ i <= W + A + O + B
            /\ ~(i <= W) /\ ~(i <= W + A + O) /\ ~(i <= W + A) /\ (i - W) - O = q
        BY <2>1, <2>3
      <4> HIDE DEF i
      <4> QED BY <1>z, <4>1
    <3> HIDE DEF Old, NewAt, i
    <3> QED BY <1>9, <3>1
  <2> QED BY <2>2, <2>3
<1> HIDE DEF Old, OldAt, NewAt
<1>13. \A i \in DOMAIN y : \/ \E p \in DOMAIN x : y[i] = x[p]
                           \/ \E q \in DOMAIN c : y[i] = c[q]
  BY <1>8, <1>9
<1>14. ToSet(y) = ToSet(x) \cup ToSet(c)
  BY <1>11, <1>12, <1>13 DEF ToSet
<1>15. ASSUME NEW i \in DOMAIN y, NEW j \in DOMAIN y, i < j
       PROVE  \/ \E p, q \in DOMAIN x : p < q /\ y[i] = x[p] /\ y[j] = x[q]
              \/ \E p, q \in DOMAIN c : p < q /\ y[i] = c[p] /\ y[j] = c[q]
              \/ \E p \in DOMAIN x, q \in DOMAIN c : y[i] = x[p] /\ y[j] = c[q]
              \/ \E p \in DOMAIN c, q \in DOMAIN x : y[i] = c[p] /\ y[j] = x[q]
  <2>1. CASE Old(i) /\ Old(j)
    BY <1>8, <1>10, <1>15, <2>1
  <2>2. CASE ~Old(i) /\ ~Old(j)
    BY <1>9, <1>10, <1>15, <2>2
  <2>3. CASE Old(i) /\ ~Old(j)
    BY <1>8, <1>9, <2>3
  <2>4. CASE ~Old(i) /\ Old(j)
    BY <1>8, <1>9, <2>4
  <2> QED BY <2>1, <2>2, <2>3, <2>4
<1> QED BY <1>2, <1>3, <1>6, <1>13, <1>14, <1>15 DEF InsertedFacts, x, c, y, wa, ob

LEMMA Inserted ==
  ASSUME NEW S, NEW w \in Seq(S), NEW a \in Seq(S), NEW o \in Seq(S), NEW b \in Seq(S)
  PROVE  InsertedFacts(S, w, a, o, b)
<1>1. Len(w) \in Nat /\ Len(a) \in Nat /\ Len(o) \in Nat /\ Len(b) \in Nat
  BY LenProperties
<1> QED BY <1>1, InsertedAt

(* The pieces of a message know it and their place in it. *)
PiecesInv ==
  \A n \in DOMAIN accepted : \A k \in DOMAIN accepted[n] :
     accepted[n][k].msg = n /\ accepted[n][k].part = k

(* What send() writes and what it buffers are together the pieces of the   *)
(* message up to its end or to a zero byte (TcpConnection.cpp:49-62).      *)
LEMMA SentPart ==
  ASSUME TypeOK, NEW m \in Seq(Pieces), SendMessage(m)
  PROVE  \E a, b \in Seq(Pieces) : \E K \in 0 .. Len(m) :
            /\ wire' = wire \o a /\ output' = output \o b
            /\ DOMAIN (a \o b) = 1 .. K
            /\ \A i \in 1 .. K : (a \o b)[i] = m[i]
            /\ K < Len(m) => m[K + 1].zero
<1> DEFINE L == Len(m)
           n == Smaller(L, Takes)
           a == SubSeq(m, 1, n)
           rest == SubSeq(m, n + 1, L)
<1>1. L \in Nat /\ n \in Nat /\ n <= L
  BY LenProperties, ConnectionBounds DEF Smaller, Takes, TypeOK
<1>2. /\ wire' = wire \o a
      /\ IF rest = <<>> THEN output' = output
         ELSE \E text \in CString(rest) : output' = output \o text
  BY DEF SendMessage
<1> HIDE DEF n
<1>3. /\ a \in Seq(Pieces) /\ Len(a) = n
      /\ \A i \in 1 .. n : a[i] = m[i]
  <2>1. /\ SubSeq(m, 1, n) \in Seq(Pieces)
        /\ Len(SubSeq(m, 1, n)) = IF 1 <= n THEN n - 1 + 1 ELSE 0
        /\ \A i \in 1 .. n - 1 + 1 : SubSeq(m, 1, n)[i] = m[1 + i - 1]
    BY <1>1, PartIsSeq
  <2> QED BY <1>1, <2>1
<1>4. /\ rest \in Seq(Pieces) /\ Len(rest) = L - n
      /\ \A i \in 1 .. L - n : rest[i] = m[n + i]
  <2>1. /\ SubSeq(m, n + 1, L) \in Seq(Pieces)
        /\ Len(SubSeq(m, n + 1, L)) = IF n + 1 <= L THEN L - (n + 1) + 1 ELSE 0
        /\ \A i \in 1 .. L - (n + 1) + 1 : SubSeq(m, n + 1, L)[i] = m[n + 1 + i - 1]
    BY <1>1, PartIsSeq
  <2> QED BY <1>1, <2>1
<1> HIDE DEF L, a, rest
<1>5. ASSUME NEW b \in Seq(Pieces), NEW k \in 0 .. L - n, output' = output \o b, Len(b) = k,
             \A i \in 1 .. k : b[i] = m[n + i], k < L - n => m[n + k + 1].zero
      PROVE  \E a1, b1 \in Seq(Pieces) : \E K \in 0 .. L :
                /\ wire' = wire \o a1 /\ output' = output \o b1
                /\ DOMAIN (a1 \o b1) = 1 .. K
                /\ \A i \in 1 .. K : (a1 \o b1)[i] = m[i]
                /\ K < L => m[K + 1].zero
  <2>1. /\ a \o b \in Seq(Pieces) /\ Len(a \o b) = n + k
        /\ \A i \in 1 .. n + k : (a \o b)[i] = IF i <= n THEN a[i] ELSE b[i - n]
    <3>1. /\ a \o b \in Seq(Pieces) /\ Len(a \o b) = Len(a) + Len(b)
          /\ \A i \in 1 .. Len(a) + Len(b) :
               (a \o b)[i] = IF i <= Len(a) THEN a[i] ELSE b[i - Len(a)]
      <4> HIDE <1>5
      <4> QED BY <1>3, ConcatProperties
    <3>2. Len(a) = n /\ Len(b) = k
      BY <1>3, <1>5
    <3> QED BY <3>1, <3>2, Zenon
  <2>2. n + k \in 0 .. L /\ (n + k < L => k < L - n)
    BY <1>1
  <2>3. DOMAIN (a \o b) = 1 .. n + k
    BY <2>1, LenProperties
  <2>4. \A i \in 1 .. n + k : (a \o b)[i] = m[i]
    <3>1. ASSUME NEW i \in 1 .. n + k PROVE (a \o b)[i] = m[i]
      <4>1. CASE i <= n
        <5>1. i \in 1 .. n
          BY <1>1, <4>1
        <5> QED BY <1>3, <2>1, <4>1, <5>1
      <4>2. CASE ~(i <= n)
        <5>1. i - n \in 1 .. k /\ n + (i - n) = i
          BY <1>1, <4>2
        <5>2. b[i - n] = m[n + (i - n)]
          BY <1>5, <5>1
        <5> QED BY <2>1, <4>2, <5>1, <5>2
      <4> QED BY <4>1, <4>2
    <3> QED BY <3>1
  <2>5. n + k < L => m[(n + k) + 1].zero
    BY <1>5, <2>2
  <2> DEFINE K == n + k
  <2>6. K \in 0 .. L /\ DOMAIN (a \o b) = 1 .. K
        /\ (\A i \in 1 .. K : (a \o b)[i] = m[i]) /\ (K < L => m[K + 1].zero)
    BY <2>2, <2>3, <2>4, <2>5
  <2> HIDE DEF K
  <2> QED BY <1>2, <1>3, <1>5, <2>6
<1>6. CASE rest = <<>>
  <2>1. L - n = 0
    BY <1>4, <1>6
  <2>2. <<>> \in Seq(Pieces) /\ Len(<<>>) = 0 /\ output \o <<>> = output
    BY EmptySeq, ConcatEmptySeq DEF TypeOK
  <2> DEFINE b == <<>>
  <2>3. b \in Seq(Pieces) /\ output' = output \o b /\ Len(b) = 0
    BY <1>2, <1>6, <2>2
  <2> HIDE DEF b
  <2>4. 0 \in 0 .. L - n /\ ~(0 < L - n) /\ \A i \in 1 .. 0 : b[i] = m[n + i]
    BY <2>1
  <2> QED BY <1>5, <2>3, <2>4 DEF L
<1>7. CASE rest # <<>>
  <2>1. PICK text \in CString(rest) : output' = output \o text
    BY <1>2, <1>7
  <2>2. PICK k \in 0 .. Len(rest) : /\ text = SubSeq(rest, 1, k)
                                    /\ k < Len(rest) => rest[k + 1].zero
    BY DEF CString
  <2>3. /\ SubSeq(rest, 1, k) \in Seq(Pieces)
        /\ Len(SubSeq(rest, 1, k)) = IF 1 <= k THEN k - 1 + 1 ELSE 0
        /\ \A i \in 1 .. k - 1 + 1 : SubSeq(rest, 1, k)[i] = rest[1 + i - 1]
    BY <1>1, <1>4, PartIsSeq
  <2>4. k \in 0 .. L - n /\ k \in Nat /\ text \in Seq(Pieces) /\ Len(text) = k
    BY <1>1, <1>4, <2>2, <2>3
  <2>5. \A i \in 1 .. k : text[i] = m[n + i]
    BY <1>1, <1>4, <2>2, <2>3, <2>4
  <2>6. k < L - n => m[n + k + 1].zero
    <3>1. ASSUME k < L - n PROVE m[n + k + 1].zero
      <4>1. k + 1 \in 1 .. L - n /\ n + (k + 1) = n + k + 1
        BY <1>1, <2>4, <3>1
      <4>2. rest[k + 1] = m[n + (k + 1)]
        BY <1>4, <4>1
      <4> QED BY <1>4, <2>2, <3>1, <4>1, <4>2
    <3> QED BY <3>1
  <2> QED BY <1>5, <2>1, <2>4, <2>5, <2>6 DEF L
<1> QED BY <1>6, <1>7

LEMMA SendKeeps ==
  ASSUME TypeOK, PiecesInv, MessagesKept, NEW m \in Seq(Pieces), SendMessage(m),
         \A i \in DOMAIN m : m[i].msg = Len(accepted) + 1 /\ m[i].part = i
  PROVE  PiecesInv' /\ MessagesKept'
<1> DEFINE N == Len(accepted)
<1>1. PICK a \in Seq(Pieces), b \in Seq(Pieces) : \E K \in 0 .. Len(m) :
            /\ wire' = wire \o a /\ output' = output \o b
            /\ DOMAIN (a \o b) = 1 .. K
            /\ \A i \in 1 .. K : (a \o b)[i] = m[i]
            /\ K < Len(m) => m[K + 1].zero
  BY SentPart
<1>2. PICK K \in 0 .. Len(m) :
            /\ wire' = wire \o a /\ output' = output \o b
            /\ DOMAIN (a \o b) = 1 .. K
            /\ \A i \in 1 .. K : (a \o b)[i] = m[i]
            /\ K < Len(m) => m[K + 1].zero
  BY <1>1
<1> DEFINE x == wire \o output
           c == a \o b
           y == (wire \o a) \o (output \o b)
<1>3. InsertedFacts(Pieces, wire, a, output, b)
  BY Inserted DEF TypeOK
<1>4. /\ ToSet(y) = ToSet(x) \cup ToSet(c)
      /\ \A i \in DOMAIN y : \/ \E p \in DOMAIN x : y[i] = x[p]
                             \/ \E q \in DOMAIN c : y[i] = c[q]
      /\ \A i, j \in DOMAIN y : i < j =>
           \/ \E p, q \in DOMAIN x : p < q /\ y[i] = x[p] /\ y[j] = x[q]
           \/ \E p, q \in DOMAIN c : p < q /\ y[i] = c[p] /\ y[j] = c[q]
           \/ \E p \in DOMAIN x, q \in DOMAIN c : y[i] = x[p] /\ y[j] = c[q]
           \/ \E p \in DOMAIN c, q \in DOMAIN x : y[i] = c[p] /\ y[j] = x[q]
  BY <1>3, Zenon DEF InsertedFacts
<1>5. /\ \A i, j \in DOMAIN x : i < j /\ x[i].msg = x[j].msg => x[i].part < x[j].part
      /\ \A i \in DOMAIN x : \E m0 \in ToSet(accepted) : x[i] \in ToSet(m0)
      /\ \A m0 \in ToSet(accepted) : \A k \in DOMAIN m0 :
           \/ m0[k] \in ToSet(x)
           \/ \E z \in 1 .. k : m0[z].zero /\ \A j \in z .. Len(m0) : m0[j] \notin ToSet(x)
  BY DEF MessagesKept
<1>6. DOMAIN c = 1 .. K /\ (\A i \in 1 .. K : c[i] = m[i]) /\ (K < Len(m) => m[K + 1].zero)
  BY <1>2
<1>7. wire' \o output' = y
  BY <1>2
<1> HIDE DEF x, c, y
<1>8. /\ accepted' = Append(accepted, m) /\ accepted \in Seq(Seq(Pieces)) /\ N \in Nat
      /\ DOMAIN accepted = 1 .. N /\ DOMAIN m = 1 .. Len(m) /\ Len(m) \in Nat
      /\ DOMAIN accepted' = 1 .. N + 1
      /\ \A n \in 1 .. N : accepted'[n] = accepted[n]
      /\ accepted'[N + 1] = m
  <2>1. accepted' = Append(accepted, m) /\ accepted \in Seq(Seq(Pieces))
    BY DEF SendMessage, TypeOK
  <2>2. /\ Len(accepted') = Len(accepted) + 1
        /\ \A n \in 1 .. Len(accepted) : accepted'[n] = accepted[n]
        /\ accepted'[Len(accepted) + 1] = m
        /\ accepted' \in Seq(Seq(Pieces))
    BY <2>1, AppendProperties
  <2> QED BY <2>1, <2>2, LenProperties
<1>9. ToSet(accepted') = ToSet(accepted) \cup {m}
  <2>1. DOMAIN accepted' = (DOMAIN accepted) \cup {N + 1}
    <3>1. 1 .. N + 1 = (1 .. N) \cup {N + 1}
      BY <1>8
    <3> QED BY <1>8, <3>1
  <2>2. \A n \in DOMAIN accepted : accepted'[n] = accepted[n]
    BY <1>8
  <2>3. accepted'[N + 1] = m
    BY <1>8
  <2> HIDE DEF N
  <2>4. ASSUME NEW v \in ToSet(accepted') PROVE v \in ToSet(accepted) \cup {m}
    BY <2>1, <2>2, <2>3 DEF ToSet
  <2>5. ASSUME NEW v \in ToSet(accepted) \cup {m} PROVE v \in ToSet(accepted')
    <3>1. CASE v = m
      BY <2>1, <2>3, <3>1 DEF ToSet
    <3>2. CASE v \in ToSet(accepted)
      BY <2>1, <2>2, <3>2 DEF ToSet
    <3> QED BY <2>5, <3>1, <3>2
  <2> QED BY <2>4, <2>5
<1>10. ASSUME NEW m0 \in ToSet(accepted), NEW k \in DOMAIN m0
       PROVE  m0[k].msg # N + 1
  <2>1. PICK n \in 1 .. N : m0 = accepted[n]
    BY <1>8 DEF ToSet
  <2>2. m0[k].msg = n
    BY <1>8, <2>1 DEF PiecesInv
  <2> QED BY <1>8, <2>2
<1>11. ASSUME NEW p \in DOMAIN x PROVE x[p].msg # N + 1
  <2>1. PICK m0 \in ToSet(accepted) : x[p] \in ToSet(m0)
    BY <1>5
  <2>2. PICK k \in DOMAIN m0 : x[p] = m0[k]
    BY <2>1 DEF ToSet
  <2> QED BY <1>10, <2>2
<1>12. ASSUME NEW q \in DOMAIN c
       PROVE  q \in DOMAIN m /\ c[q] = m[q] /\ c[q].msg = N + 1 /\ c[q].part = q /\ q \in Nat
  <2>1. q \in 1 .. K /\ q \in DOMAIN m
    BY <1>6, <1>8
  <2> QED BY <1>6, <2>1
<1>13. ASSUME NEW i \in DOMAIN y, NEW j \in DOMAIN y, i < j, y[i].msg = y[j].msg
       PROVE  y[i].part < y[j].part
  <2>1. CASE \E p, q \in DOMAIN x : p < q /\ y[i] = x[p] /\ y[j] = x[q]
    BY <1>5, <1>13, <2>1
  <2>2. CASE \E p, q \in DOMAIN c : p < q /\ y[i] = c[p] /\ y[j] = c[q]
    BY <1>12, <2>2
  <2>3. CASE \E p \in DOMAIN x, q \in DOMAIN c : y[i] = x[p] /\ y[j] = c[q]
    BY <1>11, <1>12, <1>13, <2>3
  <2>4. CASE \E p \in DOMAIN c, q \in DOMAIN x : y[i] = c[p] /\ y[j] = x[q]
    BY <1>11, <1>12, <1>13, <2>4
  <2> QED BY <1>4, <1>13, <2>1, <2>2, <2>3, <2>4
<1>14. ASSUME NEW i \in DOMAIN y PROVE \E m0 \in ToSet(accepted') : y[i] \in ToSet(m0)
  <2>1. CASE \E p \in DOMAIN x : y[i] = x[p]
    BY <1>5, <1>9, <2>1
  <2>2. CASE \E q \in DOMAIN c : y[i] = c[q]
    <3>1. PICK q \in DOMAIN c : y[i] = c[q]
      BY <2>2
    <3>2. q \in DOMAIN m /\ y[i] = m[q]
      BY <1>12, <3>1
    <3>3. y[i] \in ToSet(m) /\ m \in ToSet(accepted')
      BY <1>9, <3>2 DEF ToSet
    <3> QED BY <3>3
  <2> QED BY <1>4, <2>1, <2>2
<1>15. ASSUME NEW m0 \in ToSet(accepted), NEW k \in DOMAIN m0
       PROVE  \/ m0[k] \in ToSet(y)
              \/ \E z \in 1 .. k : m0[z].zero /\ \A j \in z .. Len(m0) : m0[j] \notin ToSet(y)
  <2>1. DOMAIN m0 = 1 .. Len(m0) /\ Len(m0) \in Nat
    <3>1. PICK n \in 1 .. N : m0 = accepted[n]
      BY <1>8 DEF ToSet
    <3>2. m0 \in Seq(Pieces)
      BY <1>8, <3>1, ElementOfSeq
    <3> QED BY <3>2, LenProperties
  <2>2. \A j \in DOMAIN m0 : m0[j] \notin ToSet(c)
    BY <1>10, <1>12 DEF ToSet
  <2>3. ASSUME NEW z \in 1 .. k, NEW j \in z .. Len(m0), m0[j] \notin ToSet(x)
        PROVE  m0[j] \notin ToSet(y)
    <3>1. j \in DOMAIN m0
      BY <2>1
    <3> QED BY <1>4, <2>2, <2>3, <3>1
  <2> QED BY <1>4, <1>5, <2>3
<1>16. ASSUME NEW k \in DOMAIN m
       PROVE  \/ m[k] \in ToSet(y)
              \/ \E z \in 1 .. k : m[z].zero /\ \A j \in z .. Len(m) : m[j] \notin ToSet(y)
  <2>1. CASE k \in 1 .. K
    <3>1. m[k] \in ToSet(c)
      BY <1>6, <2>1 DEF ToSet
    <3> QED BY <1>4, <3>1
  <2>2. CASE k \notin 1 .. K
    <3>1. k \in 1 .. Len(m) /\ K \in Nat /\ K < Len(m) /\ K + 1 \in 1 .. k
      BY <1>8, <2>2
    <3>2. ASSUME NEW j \in K + 1 .. Len(m) PROVE m[j] \notin ToSet(y)
      <4>1. j \in DOMAIN m /\ j \notin 1 .. K
        BY <1>8, <3>1
      <4>2. m[j].msg = N + 1 /\ m[j].part = j
        BY <4>1
      <4>3. m[j] \notin ToSet(x)
        BY <1>11, <4>2 DEF ToSet
      <4>4. m[j] \notin ToSet(c)
        <5>1. \A q \in DOMAIN c : q # j
          BY <1>6, <4>1
        <5> QED BY <1>12, <4>2, <5>1 DEF ToSet
      <4> QED BY <1>4, <4>3, <4>4
    <3> QED BY <1>6, <3>1, <3>2
  <2> QED BY <2>1, <2>2
<1>17. MessagesKept'
  <2>1. \A m0 \in ToSet(accepted') : \A k \in DOMAIN m0 :
           \/ m0[k] \in ToSet(y)
           \/ \E z \in 1 .. k : m0[z].zero /\ \A j \in z .. Len(m0) : m0[j] \notin ToSet(y)
    BY <1>9, <1>15, <1>16
  <2> QED BY <1>7, <1>13, <1>14, <2>1, Zenon DEF MessagesKept
<1>18. PiecesInv'
  <2>1. ASSUME NEW n \in DOMAIN accepted', NEW k \in DOMAIN accepted'[n]
        PROVE  accepted'[n][k].msg = n /\ accepted'[n][k].part = k
    <3>1. CASE n \in 1 .. N
      BY <1>8, <2>1, <3>1 DEF PiecesInv
    <3>2. CASE n = N + 1
      BY <1>8, <2>1, <3>2
    <3> QED BY <1>8, <3>1, <3>2
  <2> QED BY <2>1 DEF PiecesInv
<1> QED BY <1>17, <1>18

LEMMA CutAndJoined ==
  ASSUME NEW S, NEW s \in Seq(S), NEW n \in Nat, n <= Len(s)
  PROVE  SubSeq(s, 1, n) \o SubSeq(s, n + 1, Len(s)) = s
<1> DEFINE L == Len(s)
           p == SubSeq(s, 1, n)
           q == SubSeq(s, n + 1, L)
<1>1. L \in Nat
  BY LenProperties
<1>2. p \in Seq(S) /\ Len(p) = n /\ \A i \in 1 .. n : p[i] = s[i]
  <2>1. /\ p \in Seq(S)
        /\ Len(p) = IF 1 <= n THEN n - 1 + 1 ELSE 0
        /\ \A i \in 1 .. n - 1 + 1 : p[i] = s[1 + i - 1]
    BY <1>1, PartIsSeq
  <2> HIDE DEF p
  <2> QED BY <1>1, <2>1
<1>3. q \in Seq(S) /\ Len(q) = L - n /\ \A i \in 1 .. L - n : q[i] = s[n + i]
  <2>1. /\ q \in Seq(S)
        /\ Len(q) = IF n + 1 <= L THEN L - (n + 1) + 1 ELSE 0
        /\ \A i \in 1 .. L - (n + 1) + 1 : q[i] = s[n + 1 + i - 1]
    BY <1>1, PartIsSeq
  <2> HIDE DEF q
  <2> QED BY <1>1, <2>1
<1> HIDE DEF p, q
<1>4. /\ p \o q \in Seq(S) /\ Len(p \o q) = Len(p) + Len(q)
      /\ \A i \in 1 .. Len(p) + Len(q) : (p \o q)[i] = IF i <= Len(p) THEN p[i] ELSE q[i - Len(p)]
  BY <1>2, <1>3, ConcatProperties
<1>5. n + (L - n) = L
  BY <1>1
<1>6. /\ p \o q \in Seq(S) /\ Len(p \o q) = L
      /\ \A i \in 1 .. L : (p \o q)[i] = IF i <= n THEN p[i] ELSE q[i - n]
  <2> HIDE DEF L
  <2> QED BY <1>2, <1>3, <1>4, <1>5, Zenon
<1>7. ASSUME NEW i \in 1 .. L PROVE (p \o q)[i] = s[i]
  <2>1. CASE i <= n
    <3>1. i \in 1 .. n
      BY <1>1, <2>1
    <3> QED BY <1>2, <1>6, <2>1, <3>1
  <2>2. CASE ~(i <= n)
    <3>1. i - n \in 1 .. L - n /\ n + (i - n) = i
      BY <1>1, <2>2
    <3> QED BY <1>3, <1>6, <2>2, <3>1
  <2> QED BY <2>1, <2>2
<1> QED BY <1>6, <1>7, SeqEqual DEF p, q

(* handleWrite() moves pieces from the buffer to the socket.               *)
LEMMA WriteKeeps ==
  ASSUME TypeOK, HandleWrite
  PROVE  wire' \o output' = wire \o output /\ accepted' = accepted
<1>1. CASE UNCHANGED <<output, wire>>
  BY <1>1 DEF HandleWrite
<1>2. CASE ~UNCHANGED <<output, wire>>
  <2> DEFINE n == Smaller(Len(output), Takes)
             p == SubSeq(output, 1, n)
             q == SubSeq(output, n + 1, Len(output))
  <2>1. n \in Nat /\ n <= Len(output) /\ Len(output) \in Nat
    BY LenProperties, ConnectionBounds DEF Smaller, Takes, TypeOK
  <2>2. wire' = wire \o p /\ output' = q
    BY <1>2 DEF HandleWrite
  <2> HIDE DEF n
  <2>3. p \in Seq(Pieces) /\ q \in Seq(Pieces) /\ p \o q = output
    <3>0. output \in Seq(Pieces)
      BY DEF TypeOK
    <3>1. p \in Seq(Pieces) /\ q \in Seq(Pieces)
      BY <2>1, <3>0, PartIsSeq
    <3>2. p \o q = output
      BY <2>1, <3>0, CutAndJoined
    <3> QED BY <3>1, <3>2
  <2> HIDE DEF p, q
  <2>4. (wire \o p) \o q = wire \o (p \o q)
    <3>1. \A s, t, u \in Seq(Pieces) : (s \o t) \o u = s \o (t \o u)
      BY ConcatAssociative
    <3>2. wire \in Seq(Pieces)
      BY DEF TypeOK
    <3> QED BY <2>3, <3>1, <3>2, Zenon
  <2> QED BY <2>2, <2>3, <2>4 DEF HandleWrite
<1> QED BY <1>1, <1>2

LEMMA KeptStep == TypeOK /\ PiecesInv /\ MessagesKept /\ [Next]_vars => PiecesInv' /\ MessagesKept'
<1> SUFFICES ASSUME TypeOK, PiecesInv, MessagesKept, [Next]_vars
             PROVE  PiecesInv' /\ MessagesKept'
  OBVIOUS
<1>1. CASE wire' \o output' = wire \o output /\ accepted' = accepted
  BY <1>1 DEF PiecesInv, MessagesKept
<1>2. CASE HandleWrite
  BY <1>1, <1>2, WriteKeeps
<1>3. CASE Send
  <2>1. CASE UNCHANGED <<output, accepted, wire>>
    BY <1>1, <2>1
  <2>2. CASE \E len \in 1 .. MaxLength : \E zeros \in SUBSET (1 .. len) :
                SendMessage(Message(Len(accepted) + 1, len, zeros))
    <3>0. PICK len \in 1 .. MaxLength : \E zeros \in SUBSET (1 .. len) :
                  SendMessage(Message(Len(accepted) + 1, len, zeros))
      BY <2>2
    <3>1. PICK zeros \in SUBSET (1 .. len) :
                  SendMessage(Message(Len(accepted) + 1, len, zeros))
      BY <3>0
    <3> DEFINE m == Message(Len(accepted) + 1, len, zeros)
    <3>2. m \in Seq(Pieces)
      <4>1. Len(accepted) \in Nat /\ Len(accepted) < MaxMessages
        BY <1>3, LenProperties DEF TypeOK, Send
      <4> QED BY <4>1, MessageIsSeq, ConnectionBounds
    <3>3. \A i \in DOMAIN m : m[i].msg = Len(accepted) + 1 /\ m[i].part = i
      BY DEF Message
    <3> HIDE DEF m
    <3> QED BY <3>1, <3>2, <3>3, SendKeeps DEF m
  <2> QED BY <1>3, <2>1, <2>2 DEF Send
<1>4. CASE UNCHANGED <<output, accepted, wire>>
  BY <1>1, <1>4
<1>5. CASE ~HandleWrite /\ ~Send
  BY <1>4, <1>5 DEF Next, LoopStep, ConnectEstablished, CallbackReturns, FunctorsDone,
     ConnectDestroyed, Poll, TestClose, HandleClose, HandleRead, SkipRead, SkipWrite, PollOther,
     Shutdown, PeerReads, PeerSends, PeerCloses, socket, vars
<1> QED BY <1>2, <1>3, <1>5

(* For send buffers and messages of any size and any number of them: the   *)
(* socket and the buffer hold every piece of a message once and in its     *)
(* order, except what a zero byte cut off (TcpConnection.cpp:45-68,        *)
(* 112-130).                                                               *)
THEOREM MessagesKeptHolds == Spec => []MessagesKept
<1>1. Init => PiecesInv /\ MessagesKept
  <2> SUFFICES ASSUME Init PROVE PiecesInv /\ MessagesKept
    OBVIOUS
  <2>1. wire \o output = <<>> /\ accepted = <<>>
    BY DEF Init
  <2>2. DOMAIN (wire \o output) = {} /\ DOMAIN accepted = {} /\ ToSet(accepted) = {}
    BY <2>1 DEF ToSet
  <2> QED BY <2>2 DEF PiecesInv, MessagesKept
<1>2. QED
  BY <1>1, TypeCorrect, KeptStep, PTL DEF Spec
=============================================================================
