--------------------------- MODULE TcpConnection ---------------------------
(***************************************************************************)
(* The data path of one hquin::TcpConnection that lives on the base loop:  *)
(* send(), the output buffer, handleRead, handleWrite, shutdown(), and the *)
(* two interest masks: event_ of the channel, which the Epoller overwrites *)
(* with the events that fired, and the one the kernel keeps.               *)
(*                                                                         *)
(* A message is a sequence of pieces, some of which hold a zero byte.  The *)
(* kernel's send buffer has room for a few pieces, and the peer makes room *)
(* by reading.  The user calls send() and shutdown() on the loop thread    *)
(* only, from the connection's callbacks and from functors.                *)
(***************************************************************************)
EXTENDS Naturals, Sequences, FiniteSets, SequencesExt

CONSTANTS SendBuffer,   \* pieces the kernel takes before the peer reads
          MaxLength,    \* bound on the pieces of a message
          MaxMessages   \* bound on the calls of send() that take a message

ASSUME ConnectionBounds ==
  SendBuffer \in Nat \ {0} /\ MaxLength \in Nat \ {0} /\ MaxMessages \in Nat

VARIABLES
  pc,         \* what the loop thread does with the connection (see Places)
  state,      \* state_
  event,      \* event_ of the channel
  interest,   \* the kernel's interest mask
  output,     \* outputBuffer_
  closed,     \* handleClose() ran; connectDestroyed() is queued
  accepted,   \* history: the messages send() took
  wire,       \* history: the pieces write(2) took, in order
  room,       \* free pieces in the kernel's send buffer
  data,       \* the peer sent something that was not read
  peer,       \* "open", "fin" or "reset"
  shut,       \* our direction of the socket is shut down
  killed      \* SIGPIPE ended the process

vars == <<pc, state, event, interest, output, closed, accepted, wire, room,
          data, peer, shut, killed>>
socket == <<wire, room, data, peer, shut, killed>>

(* "accept": in newConnection; "established", "message" and "functors":    *)
(* user code may run; "wait": in epoll_wait; "close", "read", "write": the *)
(* three tests of Channel::handleEvent; "gone": destroyed.                 *)
Places == {"accept", "established", "wait", "close", "read", "message", "write",
           "functors", "gone"}

Init == /\ pc = "accept"
        /\ state = "connecting"
        /\ event = {} /\ interest = {}
        /\ output = <<>>
        /\ closed = FALSE
        /\ accepted = <<>>
        /\ wire = <<>>
        /\ room = SendBuffer
        /\ data = FALSE
        /\ peer = "open"
        /\ shut = FALSE
        /\ killed = FALSE

----------------------------------------------------------------------------
(* The kernel and the peer.                                                *)

SocketEvents ==
  (IF data \/ peer # "open" THEN {"in"} ELSE {})
  \cup (IF room > 0 \/ shut \/ peer = "reset" THEN {"out"} ELSE {})
  \cup (IF peer = "reset" \/ (peer = "fin" /\ shut) THEN {"hup"} ELSE {})

Reported == SocketEvents \cap (interest \cup {"hup"})

(* What write(2) takes; it fails on a broken socket. *)
Broken == shut \/ peer = "reset"
Takes == IF Broken THEN 0 ELSE room

(* After our own shutdown the write fails with EPIPE, and nothing ignores  *)
(* the signal.  After a reset the first one may report ECONNRESET instead. *)
WriteSignals == Broken /\ killed' = TRUE
WriteReturns == ~shut /\ UNCHANGED killed

PeerReads == /\ room < SendBuffer
             /\ room' = room + 1
             /\ UNCHANGED <<pc, state, event, interest, output, closed, accepted,
                            wire, data, peer, shut, killed>>

PeerSends == /\ peer = "open"
             /\ ~data
             /\ data' = TRUE
             /\ UNCHANGED <<pc, state, event, interest, output, closed, accepted,
                            wire, room, peer, shut, killed>>

PeerCloses == /\ \/ peer = "open" /\ peer' = "fin" /\ UNCHANGED data
                 \/ peer # "reset" /\ peer' = "reset" /\ data' = FALSE
              /\ UNCHANGED <<pc, state, event, interest, output, closed, accepted,
                             wire, room, shut, killed>>

----------------------------------------------------------------------------
(* Calls of the user.                                                      *)

Message(n, len, zeros) ==
  [i \in 1 .. len |-> [msg |-> n, part |-> i, zero |-> i \in zeros]]

(* The rest of a message is appended as a C string: of its pieces those    *)
(* before the first zero byte.                                             *)
CString(s) ==
  {SubSeq(s, 1, k) : k \in {k \in 0 .. Len(s) :
                             /\ \A i \in 1 .. k : ~s[i].zero
                             /\ k < Len(s) => s[k + 1].zero}}

(* Channel::isWriting() asks event_, not the kernel. *)
IsWriting == "out" \in event

Smaller(a, b) == IF a < b THEN a ELSE b

UserCode == pc \in {"established", "message", "functors"}

(* Mutation: the message is buffered from its start. *)
SendMessageWhole(m) ==
  LET nwrote == Smaller(Len(m), Takes)
  IN /\ accepted' = Append(accepted, m)
     /\ wire' = wire \o SubSeq(m, 1, nwrote)
     /\ room' = room - nwrote
     /\ IF nwrote = Len(m)
        THEN UNCHANGED <<output, event, interest>>
        ELSE /\ \E text \in CString(m) : output' = output \o text
             /\ event' = event \cup {"out"}
             /\ interest' = IF IsWriting THEN interest ELSE event'

(* send() of a message: write what the socket takes, buffer the rest. *)
SendMessage(m) ==
  LET nwrote == Smaller(Len(m), Takes)
      rest   == SubSeq(m, nwrote + 1, Len(m))
  IN /\ accepted' = Append(accepted, m)
     /\ wire' = wire \o SubSeq(m, 1, nwrote)
     /\ room' = room - nwrote
     /\ IF rest = <<>>
        THEN UNCHANGED <<output, event, interest>>
        ELSE /\ \E text \in CString(rest) : output' = output \o text
             /\ event' = event \cup {"out"}
             /\ interest' = IF IsWriting THEN interest ELSE event'

(* In any other state send() does nothing. *)
Send ==
  /\ UserCode
  /\ state = "connected"
  /\ Len(accepted) < MaxMessages
  /\ \/ /\ WriteSignals
        /\ UNCHANGED <<event, interest, output, accepted, wire, room>>
     \/ /\ WriteReturns
        /\ \E len \in 1 .. MaxLength : \E zeros \in SUBSET (1 .. len) :
             SendMessage(Message(Len(accepted) + 1, len, zeros))
  /\ UNCHANGED <<pc, state, closed, data, peer, shut>>

(* Mutation: shutdown() leaves state_ as it is. *)
ShutdownKeepsState ==
  /\ UserCode
  /\ state = "connected"
  /\ shut' = ~IsWriting
  /\ UNCHANGED <<pc, state, event, interest, output, closed, accepted, wire, room, data,
                 peer, killed>>

(* shutdown(); on the loop thread shutdownInLoop() runs at once. *)
Shutdown ==
  /\ UserCode
  /\ state = "connected"
  /\ state' = "disconnecting"
  /\ shut' = ~IsWriting
  /\ UNCHANGED <<pc, event, interest, output, closed, accepted, wire, room, data,
                 peer, killed>>

----------------------------------------------------------------------------
(* The loop.                                                               *)

(* connectEstablished(); the connection callback runs next. *)
ConnectEstablished ==
  /\ pc = "accept"
  /\ pc' = "established"
  /\ state' = "connected"
  /\ event' = event \cup {"in"}
  /\ interest' = event'
  /\ UNCHANGED <<output, closed, accepted, socket>>

(* A callback returns: the event goes on to the next test. *)
CallbackReturns ==
  /\ \/ pc = "established" /\ pc' = "functors"
     \/ pc = "message" /\ pc' = "write"
  /\ UNCHANGED <<state, event, interest, output, closed, accepted, socket>>

(* Without a connection to destroy the functors end with the iteration. *)
FunctorsDone ==
  /\ pc = "functors"
  /\ ~closed
  /\ pc' = "wait"
  /\ UNCHANGED <<state, event, interest, output, closed, accepted, socket>>

(* connectDestroyed() runs in the batch of the iteration that closed. *)
ConnectDestroyed ==
  /\ pc = "functors"
  /\ closed
  /\ pc' = "gone"
  /\ state' = "disconnected"
  /\ event' = {} /\ interest' = {}
  /\ UNCHANGED <<output, closed, accepted, socket>>

(* The channel fired: setEvent() overwrites the mask it asked for. *)
Poll ==
  /\ pc = "wait"
  /\ Reported # {}
  /\ event' = Reported
  /\ pc' = "close"
  /\ UNCHANGED <<state, interest, output, closed, accepted, socket>>

(* epoll_wait returned for another channel, the eventfd, or a timeout. *)
PollOther ==
  /\ pc = "wait"
  /\ Reported = {}
  /\ pc' = "functors"
  /\ UNCHANGED <<state, event, interest, output, closed, accepted, socket>>

(* handleClose(): disableAll(), and removeConnection queues the end. *)
HandleClose ==
  /\ closed' = TRUE
  /\ event' = {} /\ interest' = {}
  /\ pc' = "functors"
  /\ UNCHANGED <<state, output, accepted, socket>>

TestClose ==
  /\ pc = "close"
  /\ IF "hup" \in event
     THEN HandleClose
     ELSE pc' = "read" /\ UNCHANGED <<state, event, interest, output, closed,
                                      accepted, socket>>

(* handleRead(): data, the end of the input, or an error that is logged. *)
HandleRead ==
  /\ pc = "read"
  /\ "in" \in event
  /\ IF peer = "fin" /\ ~data
     THEN HandleClose
     ELSE /\ data' = FALSE
          /\ pc' = IF data THEN "message" ELSE "write"
          /\ UNCHANGED <<state, event, interest, output, closed, accepted, wire, room,
                         peer, shut, killed>>

(* Neither is fired: event_ is read anew before each test. *)
SkipRead ==
  /\ pc = "read"
  /\ "in" \notin event
  /\ pc' = "write"
  /\ UNCHANGED <<state, event, interest, output, closed, accepted, socket>>

SkipWrite ==
  /\ pc = "write"
  /\ "out" \notin event
  /\ pc' = "functors"
  /\ UNCHANGED <<state, event, interest, output, closed, accepted, socket>>

(* Mutation: disableWriting() after every write. *)
OutputDoneAlways(n) == n > 0

(* Mutation: disableWriting() is never called. *)
OutputDoneNever(n) == FALSE

(* n pieces were written and nothing is left: disableWriting(). *)
OutputDone(n) == n > 0 /\ n = Len(output)

(* handleWrite(): write, retrieve what was written, and disableWriting()   *)
(* when nothing is left.  With nothing to write the mask is left alone.    *)
(* The shutdown() that follows in state kDisconnecting does nothing.       *)
HandleWrite ==
  /\ pc = "write"
  /\ "out" \in event
  /\ pc' = "functors"
  /\ \/ /\ WriteSignals
        /\ UNCHANGED <<event, interest, output, wire, room>>
     \/ /\ WriteReturns
        /\ LET n == Smaller(Len(output), Takes) IN
             /\ wire' = wire \o SubSeq(output, 1, n)
             /\ room' = room - n
             /\ output' = SubSeq(output, n + 1, Len(output))
             /\ IF OutputDone(n)
                THEN event' = event \ {"out"} /\ interest' = event'
                ELSE UNCHANGED <<event, interest>>
  /\ UNCHANGED <<state, closed, accepted, data, peer, shut>>

----------------------------------------------------------------------------
LoopStep ==
  \/ ConnectEstablished \/ CallbackReturns \/ FunctorsDone \/ ConnectDestroyed
  \/ Poll \/ TestClose \/ HandleRead \/ SkipRead \/ SkipWrite \/ HandleWrite

Live == ~killed /\ pc # "gone"

Next ==
  Live /\ (LoopStep \/ PollOther \/ Send \/ Shutdown
           \/ PeerReads \/ PeerSends \/ PeerCloses)

(* The loop thread is scheduled, user code returns, and a peer that has    *)
(* not reset the connection reads on.  Nobody has to send or to close, and *)
(* no timeout has to expire.                                               *)
Spec == Init /\ [][Next]_vars /\ WF_vars(Live /\ LoopStep) /\ WF_vars(Live /\ PeerReads)

----------------------------------------------------------------------------
(* Properties.                                                             *)

Masks == SUBSET {"in", "out", "hup"}
Pieces == [msg : 1 .. MaxMessages, part : 1 .. MaxLength, zero : BOOLEAN]

(* The types; a hangup is seen by the first test of handleEvent only, a    *)
(* closed connection waits for its functor, and the write side is shut     *)
(* only after shutdown().                                                  *)
TypeOK ==
  /\ pc \in Places
  /\ state \in {"connecting", "connected", "disconnecting", "disconnected"}
  /\ state = "connecting" <=> pc = "accept"
  /\ state = "disconnected" <=> pc = "gone"
  /\ event \in Masks
  /\ "hup" \in event => pc = "close"
  /\ interest \in SUBSET {"in", "out"}
  /\ output \in Seq(Pieces)
  /\ pc = "accept" => output = <<>>
  /\ wire \in Seq(Pieces)
  /\ accepted \in Seq(Seq(Pieces))
  /\ Len(accepted) <= MaxMessages
  /\ room \in 0 .. SendBuffer
  /\ data \in BOOLEAN /\ closed \in BOOLEAN /\ shut \in BOOLEAN /\ killed \in BOOLEAN
  /\ closed => pc \in {"functors", "gone"}
  /\ peer \in {"open", "fin", "reset"}
  /\ shut => state \in {"disconnecting", "disconnected"}

Texts == \A m \in ToSet(accepted) : \A i \in DOMAIN m : ~m[i].zero

(* Whatever event_ says, the kernel is asked for EPOLLOUT exactly while    *)
(* there is output; for messages with a zero byte, whose rest is cut, at   *)
(* least then.  Otherwise output would wait for ever, or an empty buffer   *)
(* would spin (TcpConnection.cpp:45-68, 112-130, Epoller.cpp:66-67).       *)
OutputWatched ==
  (Live /\ ~closed) =>
    /\ output # <<>> => "out" \in interest
    /\ Texts /\ output = <<>> => "out" \notin interest

(* Whatever short writes and later messages come between, the socket and   *)
(* the buffer together hold every piece of a message, none twice and each  *)
(* behind the earlier ones of its message; only a message with a zero byte *)
(* may lack its pieces from that byte on (TcpConnection.cpp:45-68,         *)
(* 112-130).                                                               *)
MessagesKept ==
  LET out == wire \o output
  IN /\ \A i, j \in DOMAIN out :
          i < j /\ out[i].msg = out[j].msg => out[i].part < out[j].part
     /\ \A i \in DOMAIN out : \E m \in ToSet(accepted) : out[i] \in ToSet(m)
     /\ \A m \in ToSet(accepted) : \A k \in DOMAIN m :
          \/ m[k] \in ToSet(out)
          \/ \E z \in 1 .. k : /\ m[z].zero
                               /\ \A j \in z .. Len(m) : m[j] \notin ToSet(out)

(* Output leaves while the peer reads and neither side breaks the          *)
(* connection (TcpConnection.cpp:112-130).                                 *)
OutputDrains ==
  (Live /\ output # <<>>) ~> (output = <<>> \/ Broken \/ closed \/ ~Live)

(* shutdown() closes our end of the writing, at once or when the output is *)
(* sent (TcpConnection.h:56, TcpConnection.cpp:77), if no zero byte was    *)
(* sent, so that the output is sent in the end.  The code refutes it: the  *)
(* second call of shutdown(), made when the output is sent, does nothing   *)
(* in state kDisconnecting.                                                *)
ShutdownHalfCloses ==
  (state = "disconnecting" /\ Texts) ~> (shut \/ peer # "open" \/ ~Live)

(* A connection whose peer has finished is closed (doc/developing.md:68:   *)
(* the read handler closes it).  The code refutes it: when EPOLLOUT alone  *)
(* fired, disableWriting() leaves no interest in input.                    *)
PeerCloseNoticed == (peer = "fin" /\ pc # "accept") ~> (closed \/ peer = "reset" \/ ~Live)
=============================================================================
