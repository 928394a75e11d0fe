----------------------------- MODULE TcpServer -----------------------------
(***************************************************************************)
(* The life of the connections of a hquin::TcpServer: Acceptor, round-robin*)
(* choice of a loop, connectEstablished, the peer's FIN or RST, handleClose*)
(* on the connection's loop, removeConnectionInLoop on the base loop,      *)
(* connectDestroyed back on the connection's loop, and the destruction of  *)
(* the last reference, which closes the descriptor.                        *)
(*                                                                         *)
(* The loops run concurrently.  Of each EventLoop this module keeps what   *)
(* module EventLoop shows of it: it does not sleep while it has functors,  *)
(* runs them in order, one batch per iteration, after the fired channels.  *)
(*                                                                         *)
(* Of the data path (module TcpConnection) it keeps what acts on event_,   *)
(* which asks for input and for output: a callback's send() may leave a    *)
(* rest, which asks for EPOLLOUT, and a write may empty the output buffer, *)
(* which takes EPOLLOUT back; which of them happens is not determined.     *)
(* SIGPIPE, with which module TcpConnection ends the process, is ignored.  *)
(***************************************************************************)
EXTENDS Naturals, Sequences, FiniteSets, SequencesExt

CONSTANTS MaxThreads,  \* bound on setThreadNum
          MaxConns,    \* bound on the connections made by peers
          MaxFds,      \* descriptors available for connections
          MaxRemovals  \* bound on the removals an I/O loop asks for in vain

ASSUME ServerBounds ==
  MaxThreads \in Nat /\ MaxConns \in Nat \ {0} /\ MaxFds \in Nat /\ MaxRemovals \in Nat

VARIABLES
  threads,      \* numThreads_
  next,         \* next_
  backlog,      \* connections the kernel completed and nobody accepted
  nextConn,     \* nextConnId_
  connections,  \* the keys of connections_
  conn,         \* the TcpConnections, their channels and their sockets
  open,         \* descriptor -> the connection whose socket it is
  channelMap,   \* Epoller::channelMap_ of each loop
  interest,     \* the kernel's interest list of each epoll instance
  loop,         \* where each loop is, with its queues
  aborted       \* an assert() failed

vars == <<threads, next, backlog, nextConn, connections, conn, open, channelMap,
          interest, loop, aborted>>

----------------------------------------------------------------------------
Conns == 1 .. MaxConns
Fds == 1 .. MaxFds
Loops == 0 .. MaxThreads
Base == 0                \* the loop of the Acceptor
Acceptor == 0            \* the listening channel, among the channels fired
Nobody == 0              \* no connection
Unregistered == {"absent"}   \* in place of an interest mask

(* A functor queued on a loop: the member function and its connection. *)
Task(op, c) == [op |-> op, conn |-> c]

Unborn == [state |-> "none", loop |-> Base, fd |-> 0, event |-> {}, rx |-> "open",
           data |-> FALSE, shut |-> FALSE]

Init ==
  /\ threads \in 0 .. MaxThreads
  /\ next = 0
  /\ backlog = 0
  /\ nextConn = 1
  /\ connections = {}
  /\ conn = [c \in Conns |-> Unborn]
  /\ open = [f \in Fds |-> Nobody]
  /\ channelMap = [l \in Loops |-> [f \in Fds |-> Nobody]]
  /\ interest = [l \in Loops |-> [f \in Fds |-> Unregistered]]
  /\ loop = [l \in Loops |-> [place |-> "wait", fired |-> {}, pending |-> <<>>,
                              batch |-> <<>>, held |-> {}, dying |-> {}]]
  /\ aborted = FALSE

----------------------------------------------------------------------------
(* The kernel.                                                             *)

(* No write to the socket of c can succeed any more. *)
Broken(c) == conn[c].shut \/ conn[c].rx = "reset"

(* What the socket of c reports, where room says that its send buffer has  *)
(* some: EPOLLHUP needs both directions shut.                              *)
SocketEvents(c, room) ==
  (IF conn[c].data \/ conn[c].rx # "open" THEN {"in"} ELSE {})
  \cup (IF room \/ Broken(c) THEN {"out"} ELSE {})
  \cup (IF conn[c].rx = "reset" \/ (conn[c].rx = "fin" /\ conn[c].shut)
        THEN {"hup"} ELSE {})

(* epoll reports errors and hangups whatever the interest mask is. *)
Reported(l, f, writable) ==
  IF interest[l][f] = Unregistered THEN {}
  ELSE SocketEvents(open[f], f \in writable) \cap (interest[l][f] \cup {"hup"})

FiredFds(l, writable) ==
  {f \in Fds : Reported(l, f, writable) # {} /\ channelMap[l][f] # Nobody}

(* close(2): the socket loses its descriptor, epoll forgets the pair. *)
Close(f) ==
  /\ open' = [open EXCEPT ![f] = Nobody]
  /\ interest' = [l \in Loops |-> [interest[l] EXCEPT ![f] = Unregistered]]

(* The peers. *)
PeerConnects ==
  /\ nextConn + backlog <= MaxConns
  /\ backlog' = backlog + 1
  /\ UNCHANGED <<threads, next, nextConn, connections, conn, open, channelMap,
                 interest, loop, aborted>>

HasSocket(c) == \E f \in Fds : open[f] = c

PeerActs(c) ==
  /\ HasSocket(c)
  /\ conn[c].rx # "reset"
  /\ \/ /\ conn[c].rx = "open"
        /\ ~conn[c].data
        /\ conn' = [conn EXCEPT ![c].data = TRUE]
     \/ /\ conn[c].rx = "open"
        /\ conn' = [conn EXCEPT ![c].rx = "fin"]
     \/ conn' = [conn EXCEPT ![c].rx = "reset", ![c].data = FALSE]
  /\ UNCHANGED <<threads, next, backlog, nextConn, connections, open, channelMap,
                 interest, loop, aborted>>

----------------------------------------------------------------------------
(* Pieces of handlers.                                                     *)

(* Epoller::updateEvent: add what is not in channelMap_, else modify.  To  *)
(* add a closed descriptor, or to modify one the kernel does not know,     *)
(* fails unnoticed.                                                        *)
UpdateEvent(l, c, mask) ==
  LET f == conn[c].fd IN
  IF channelMap[l][f] = Nobody
  THEN /\ channelMap' = [channelMap EXCEPT ![l][f] = c]
       /\ interest' = [interest EXCEPT ![l][f] =
                         IF open[f] = Nobody THEN Unregistered ELSE mask]
  ELSE /\ UNCHANGED channelMap
       /\ interest' = [interest EXCEPT ![l][f] =
                         IF @ = Unregistered THEN Unregistered ELSE mask]

(* send() from a callback, with a rest that is buffered: enableWriting(). *)
Sent(r, rest) ==
  IF rest /\ r.state = "connected" THEN [r EXCEPT !.event = @ \cup {"out"}] ELSE r

(* shutdown() from a callback, when the user asks for it: shutdownInLoop   *)
(* closes the write side at once unless event_ asks for output.            *)
Shutdown(r, asked) ==
  IF asked /\ r.state = "connected"
  THEN [r EXCEPT !.state = "disconnecting", !.shut = "out" \notin r.event]
  ELSE r

(* What the user's callback does to its connection. *)
Called(r, rest, asked) == Shutdown(Sent(r, rest), asked)

(* connectEstablished(): state, enableReading, the user's callback. *)
Established(r, rest, asked) ==
  Called([r EXCEPT !.state = "connected", !.event = @ \cup {"in"}], rest, asked)

Abort == /\ aborted' = TRUE
         /\ UNCHANGED <<threads, next, backlog, nextConn, connections, conn, open,
                        channelMap, interest, loop>>

----------------------------------------------------------------------------
(* One iteration of loop l: poll, fired channels, functors, release.       *)

Runs(l) == l <= threads /\ ~aborted

(* setEvent() overwrites the mask that the channel asked for. *)
Poll(l, writable) ==
  /\ Runs(l)
  /\ loop[l].place = "wait"
  /\ LET accept == IF l = Base /\ backlog > 0 THEN {Acceptor} ELSE {}
         fds == FiredFds(l, writable)
         chans == {channelMap[l][f] : f \in fds}
         eventOf(c) == Reported(l, CHOOSE f \in fds : channelMap[l][f] = c, writable)
     IN /\ accept \cup chans # {} \/ loop[l].pending # <<>>
        /\ loop' = [loop EXCEPT ![l].place = "events", ![l].fired = accept \cup chans]
        /\ conn' = [c \in Conns |->
                      IF c \in chans THEN [conn[c] EXCEPT !.event = eventOf(c)]
                                     ELSE conn[c]]
  /\ UNCHANGED <<threads, next, backlog, nextConn, connections, open, channelMap,
                 interest, aborted>>

(* getNextLoop() *)
NextLoop == IF threads = 0 THEN Base ELSE next + 1

FreeFds == {f \in Fds : open[f] = Nobody}

(* Acceptor::handleRead and TcpServer::newConnection.  On the base loop    *)
(* runInLoop establishes the connection at once.                           *)
NewConnection(c, rest, asked) ==
  LET f == CHOOSE x \in FreeFds : \A y \in FreeFds : x <= y
      l == NextLoop
      born == [Unborn EXCEPT !.state = "connecting", !.loop = l, !.fd = f]
      established == Established(born, rest, asked)
  IN /\ open' = [open EXCEPT ![f] = c]
     /\ nextConn' = nextConn + 1
     /\ next' = IF threads = 0 THEN next ELSE (next + 1) % threads
     /\ connections' = connections \cup {c}
     /\ IF l = Base
        THEN /\ conn' = [conn EXCEPT ![c] = established]
             /\ channelMap' = [channelMap EXCEPT ![l][f] = IF @ = Nobody THEN c ELSE @]
             /\ interest' = [interest EXCEPT ![l][f] =
                               IF channelMap[l][f] = Nobody THEN established.event ELSE @]
             /\ loop' = [loop EXCEPT ![Base].fired = @ \ {Acceptor}]
        ELSE /\ conn' = [conn EXCEPT ![c] = born]
             /\ loop' = [loop EXCEPT ![Base].fired = @ \ {Acceptor},
                                     ![l].pending = Append(@, Task("establish", c))]
             /\ UNCHANGED <<channelMap, interest>>

HandleAccept ==
  /\ Runs(Base)
  /\ loop[Base].place = "events"
  /\ Acceptor \in loop[Base].fired
  /\ IF FreeFds # {}
     THEN /\ backlog' = backlog - 1
          /\ \E rest, asked \in BOOLEAN : NewConnection(nextConn, rest, asked)
     ELSE \* accept fails; close(-1)
          /\ loop' = [loop EXCEPT ![Base].fired = @ \ {Acceptor}]
          /\ UNCHANGED <<next, backlog, nextConn, connections, conn, open,
                         channelMap, interest>>
  /\ UNCHANGED <<threads, aborted>>

(* Mutation: removeConnectionInLoop drops the map's reference and does not *)
(* queue connectDestroyed.                                                 *)
RemovedUnqueued(q, c) == [q EXCEPT ![conn[c].loop].pending = @]

(* removeConnectionInLoop(), the queueInLoop at its end. *)
Removed(q, c) == [q EXCEPT ![conn[c].loop].pending = Append(@, Task("destroy", c))]

(* TcpConnection::handleClose: on the base loop the connection leaves the  *)
(* map at once, elsewhere the base loop is asked to remove it.             *)
HandleClose(l, c) ==
  IF conn[c].state \notin {"connected", "disconnecting"}
     \/ (l = Base /\ c \notin connections)
  THEN Abort
  ELSE /\ conn' = [conn EXCEPT ![c].event = {}]
       /\ UpdateEvent(l, c, {})
       /\ loop' = LET q == [loop EXCEPT ![l].fired = @ \ {c}]
                  IN IF l = Base THEN Removed(q, c)
                     ELSE [q EXCEPT ![Base].pending = Append(@, Task("remove", c))]
       /\ connections' = IF l = Base THEN connections \ {c} ELSE connections
       /\ UNCHANGED <<threads, next, backlog, nextConn, open, aborted>>

(* The channel after handleRead, when read(2) returns data or an error. *)
Read(r, rest, asked) ==
  IF "in" \in r.event /\ r.data
  THEN [Called(r, rest, asked) EXCEPT !.data = FALSE]
  ELSE r

(* ... and after handleWrite, when its write empties the output buffer:    *)
(* disableWriting().                                                       *)
Written(r) == [r EXCEPT !.event = @ \ {"out"}]

(* handleRead and handleWrite, each when event_ says so, which is read     *)
(* anew before the second.  Each change of event_ is written to epoll.     *)
Handled(r, rest, asked, emptied) ==
  IF "out" \in Read(r, rest, asked).event /\ emptied
  THEN Written(Read(r, rest, asked)) ELSE Read(r, rest, asked)

HandleData(l, c) ==
  /\ \E rest, asked, emptied \in BOOLEAN :
       LET read == Read(conn[c], rest, asked)
           done == Handled(conn[c], rest, asked, emptied)
       IN /\ emptied => ~read.shut /\ read.rx # "reset"
          /\ conn' = [conn EXCEPT ![c] = done]
          /\ IF read.event = conn[c].event /\ done.event = read.event
             THEN UNCHANGED <<channelMap, interest>>
             ELSE UpdateEvent(l, c, done.event)
  /\ loop' = [loop EXCEPT ![l].fired = @ \ {c}]
  /\ UNCHANGED <<threads, next, backlog, nextConn, connections, open, aborted>>

(* Channel::handleEvent for a fired channel with a non-empty mask.  A      *)
(* close clears the mask, so that neither a read nor a write follows it.   *)
HandleEvent(l, c) ==
  /\ Runs(l)
  /\ loop[l].place = "events"
  /\ c \in loop[l].fired
  /\ conn[c].event # {}
  /\ l # Base => Len(loop[Base].pending) < MaxRemovals
  /\ IF \/ "hup" \in conn[c].event
        \/ "in" \in conn[c].event /\ conn[c].rx = "fin" /\ ~conn[c].data
     THEN HandleClose(l, c)
     ELSE HandleData(l, c)

SwapBatch(l) ==
  /\ Runs(l)
  /\ loop[l].place = "events"
  /\ loop[l].fired = {}
  /\ loop' = [loop EXCEPT ![l].place = "batch", ![l].batch = loop[l].pending,
                          ![l].pending = <<>>,
                          ![l].held = {t.conn : t \in ToSet(loop[l].pending)}]
  /\ UNCHANGED <<threads, next, backlog, nextConn, connections, conn, open,
                 channelMap, interest, aborted>>

(* The functor at the head of the batch is an op, and is taken off it. *)
Takes(l, op) ==
  /\ Runs(l)
  /\ loop[l].place = "batch"
  /\ loop[l].batch # <<>>
  /\ Head(loop[l].batch).op = op

Popped(l) == [loop EXCEPT ![l].batch = Tail(@)]

ConnectEstablished(l) ==
  /\ Takes(l, "establish")
  /\ \E rest, asked \in BOOLEAN :
       LET c == Head(loop[l].batch).conn
           established == Established(conn[c], rest, asked)
       IN /\ conn' = [conn EXCEPT ![c] = established]
          /\ UpdateEvent(l, c, established.event)
  /\ loop' = Popped(l)
  /\ UNCHANGED <<threads, next, backlog, nextConn, connections, open, aborted>>

(* Mutation: the connection is not erased from connections_. *)
RemoveConnectionKeepsMap(l) ==
  /\ Takes(l, "remove")
  /\ loop' = Removed(Popped(l), Head(loop[l].batch).conn)
  /\ UNCHANGED <<threads, next, backlog, nextConn, connections, conn, open, channelMap,
                 interest, aborted>>

(* removeConnectionInLoop() asked for by an I/O loop, with its assert. *)
RemoveConnection(l) ==
  /\ Takes(l, "remove")
  /\ LET c == Head(loop[l].batch).conn IN
       IF c \notin connections
       THEN Abort
       ELSE /\ connections' = connections \ {c}
            /\ loop' = Removed(Popped(l), c)
            /\ UNCHANGED <<threads, next, backlog, nextConn, conn, open, channelMap,
                           interest, aborted>>

(* Mutation: connectDestroyed() does not take the channel out of epoll. *)
ConnectDestroyedKeepsChannel(l) ==
  /\ Takes(l, "destroy")
  /\ LET c == Head(loop[l].batch).conn IN
       /\ conn' = [conn EXCEPT ![c].state = "disconnected", ![c].event = {}]
       /\ UpdateEvent(l, c, {})
  /\ loop' = Popped(l)
  /\ UNCHANGED <<threads, next, backlog, nextConn, connections, open, aborted>>

(* Mutation: removeEvent() does not erase the entry of channelMap_. *)
ConnectDestroyedKeepsEntry(l) ==
  /\ Takes(l, "destroy")
  /\ LET c == Head(loop[l].batch).conn IN
       /\ conn' = [conn EXCEPT ![c].state = "disconnected", ![c].event = {}]
       /\ interest' = [interest EXCEPT ![l][conn[c].fd] = Unregistered]
  /\ loop' = Popped(l)
  /\ UNCHANGED <<threads, next, backlog, nextConn, connections, channelMap, open, aborted>>

(* connectDestroyed(): disableAll, which adds the channel if it is absent, *)
(* so that removeEvent always finds it.                                    *)
ConnectDestroyed(l) ==
  /\ Takes(l, "destroy")
  /\ LET c == Head(loop[l].batch).conn
         f == conn[c].fd
     IN /\ conn' = [conn EXCEPT ![c].state = "disconnected", ![c].event = {}]
        /\ channelMap' = [channelMap EXCEPT ![l][f] = Nobody]
        /\ interest' = [interest EXCEPT ![l][f] = Unregistered]
  /\ loop' = Popped(l)
  /\ UNCHANGED <<threads, next, backlog, nextConn, connections, open, aborted>>

(* doPendingFunctors() returns: the batch is destroyed, and this thread    *)
(* destroys the connections nobody references any more.                    *)
BatchDone(l) ==
  /\ Runs(l)
  /\ loop[l].place = "batch"
  /\ loop[l].batch = <<>>
  /\ LET dropped == [loop EXCEPT ![l].held = {}]
         orphan(c) == /\ c \notin connections
                      /\ \A k \in Loops :
                           /\ c \notin dropped[k].held
                           /\ \A t \in ToSet(dropped[k].pending) : t.conn # c
         orphans == {c \in loop[l].held : orphan(c)}
     IN loop' = [dropped EXCEPT ![l].dying = orphans,
                                ![l].place = IF orphans = {} THEN "wait" ELSE "release"]
  /\ UNCHANGED <<threads, next, backlog, nextConn, connections, conn, open,
                 channelMap, interest, aborted>>

(* ~TcpConnection: socket_ closes the descriptor ... *)
DestroySocket(l, c) ==
  /\ Runs(l)
  /\ c \in loop[l].dying
  /\ \A d \in loop[l].dying : conn[d].state # "closing"
  /\ conn' = [conn EXCEPT ![c].state = "closing"]
  /\ Close(conn[c].fd)
  /\ UNCHANGED <<threads, next, backlog, nextConn, connections, channelMap, loop, aborted>>

(* ... and channel_ closes it again.  Then the next iteration can begin. *)
DestroyChannel(l, c) ==
  /\ Runs(l)
  /\ c \in loop[l].dying
  /\ conn[c].state = "closing"
  /\ conn' = [conn EXCEPT ![c].state = "freed"]
  /\ Close(conn[c].fd)
  /\ loop' = [loop EXCEPT ![l].dying = @ \ {c},
                          ![l].place = IF loop[l].dying = {c} THEN "wait" ELSE @]
  /\ UNCHANGED <<threads, next, backlog, nextConn, connections, channelMap, aborted>>

----------------------------------------------------------------------------
LoopStep(l) ==
  \/ \E writable \in SUBSET Fds : Poll(l, writable)
  \/ l = Base /\ HandleAccept
  \/ \E c \in Conns : HandleEvent(l, c) \/ DestroySocket(l, c) \/ DestroyChannel(l, c)
  \/ SwapBatch(l)
  \/ ConnectEstablished(l)
  \/ RemoveConnection(l)
  \/ ConnectDestroyed(l)
  \/ BatchDone(l)

Next ==
  \/ \E l \in Loops : LoopStep(l)
  \/ ~aborted /\ PeerConnects
  \/ ~aborted /\ \E c \in Conns : PeerActs(c)

(* Every loop thread is scheduled; the peers owe nothing. *)
Spec == Init /\ [][Next]_vars /\ \A l \in Loops : WF_vars(LoopStep(l))

----------------------------------------------------------------------------
(* Properties.                                                             *)

Masks == SUBSET {"in", "out", "hup"}
Tasks == [op : {"establish", "remove", "destroy"}, conn : Conns]

(* The types; a connection of the map is not destroyed; loops that were    *)
(* not started hold nothing.                                               *)
TypeOK ==
  /\ threads \in 0 .. MaxThreads
  /\ next \in 0 .. MaxThreads
  /\ nextConn \in 1 .. MaxConns + 1
  /\ backlog \in 0 .. MaxConns
  /\ connections \subseteq {c \in Conns : conn[c].state \in
                              {"connecting", "connected", "disconnecting"}}
  /\ conn \in [Conns -> [state : {"none", "connecting", "connected", "disconnecting",
                                  "disconnected", "closing", "freed"},
                         loop : 0 .. threads, fd : 0 .. MaxFds, event : Masks,
                         rx : {"open", "fin", "reset"}, data : BOOLEAN, shut : BOOLEAN]]
  /\ open \in [Fds -> Conns \cup {Nobody}]
  /\ channelMap \in [Loops -> [Fds -> Conns \cup {Nobody}]]
  /\ interest \in [Loops -> [Fds -> Masks \cup {Unregistered}]]
  /\ \A l \in Loops :
       /\ loop[l].place \in {"wait", "events", "batch", "release"}
       /\ loop[l].fired \subseteq Conns \cup {Acceptor}
       /\ loop[l].pending \in Seq(Tasks) /\ loop[l].batch \in Seq(Tasks)
       /\ loop[l].held \subseteq Conns /\ loop[l].dying \subseteq Conns
       /\ l > threads => loop[l] = [place |-> "wait", fired |-> {}, pending |-> <<>>,
                                    batch |-> <<>>, held |-> {}, dying |-> {}]
  /\ aborted \in BOOLEAN

(* The asserts of the connection's life hold when the base loop does all   *)
(* the I/O: a connection is closed once, while it is connected             *)
(* (TcpServer.cpp:84, TcpConnection.cpp:134).                              *)
SingleLoopAssertsHold == threads = 0 => ~aborted

(* assert(n == 1) in removeConnectionInLoop, for any number of loops       *)
(* (TcpServer.cpp:84).  The code refutes it: an I/O loop that closes a     *)
(* connection keeps being told of its hangup until connectDestroyed comes  *)
(* back from the base loop.                                                *)
ClosedOnce == ~aborted

(* Who holds a shared_ptr to c: the map, a queued functor, a batch that    *)
(* has not been destroyed.                                                 *)
Referenced(c) ==
  \/ c \in connections
  \/ \E l \in Loops : \/ c \in loop[l].held
                      \/ \E t \in ToSet(loop[l].pending) : t.conn = c

(* The Epoller's raw Channel pointers and the list of fired channels never *)
(* outlive the shared_ptr that keeps the connection: connectDestroyed is   *)
(* queued, and its functor holds a reference until the end of its batch    *)
(* (TcpServer.cpp:81-89, doc/developing.md:68).                            *)
ChannelsReferenced ==
  \A l \in Loops :
    \A c \in {channelMap[l][f] : f \in Fds} \cup loop[l].fired :
      c # Nobody => Referenced(c)

(* What the interest mask of a live connection can be: input, output too   *)
(* while something is to be written, or nothing at all, when the mask that *)
(* an event for output alone left in event_ was written back.              *)
LiveMasks == {{"in"}, {"in", "out"}, {}}

(* With one loop, a connection of the map has its own descriptor, its      *)
(* entry in channelMap_ and its registration with epoll, with such a mask: *)
(* neither a late close of a previous connection with the same descriptor  *)
(* nor a stale entry of channelMap_ takes them away, and no sequence of    *)
(* sends, writes and events leaves it waiting for output alone             *)
(* (Epoller.cpp:29-53, Epoller.cpp:67, TcpConnection.cpp:120).             *)
LiveConnectionsRegistered ==
  threads = 0 =>
    \A c \in connections :
      LET f == conn[c].fd IN
      /\ open[f] = c
      /\ channelMap[Base][f] = c
      /\ interest[Base][f] \in LiveMasks

(* Epoll was told to report nothing of a live connection (see the run      *)
(* tcp_connection_deaf): only a hangup still reaches it.                   *)
Deaf(c) == c \in connections /\ interest[Base][conn[c].fd] = {}

(* With one loop, a connection that its peer reset is destroyed in the     *)
(* end, and its descriptor with it; so is one whose peer closed its side,  *)
(* unless it is deaf (doc/developing.md:70).                               *)
ClosedPeerReleased ==
  \A c \in Conns :
    /\ (threads = 0 /\ conn[c].rx = "reset") ~> conn[c].state = "freed"
    /\ (threads = 0 /\ conn[c].rx = "fin") ~> (conn[c].state = "freed" \/ Deaf(c))
=============================================================================
