--------------------------- MODULE TcpServer_proofs ---------------------------
(***************************************************************************)
(* The raw pointers of a server never outlive the connections they point   *)
(* to, for any number of loops, connections and descriptors.  ServerInv    *)
(* says why: whatever a loop knows of a connection is still in the map, or *)
(* a connectDestroyed() of the connection is queued on that loop, behind   *)
(* the connectEstablished() that might register the channel once more.     *)
(* One lemma per action shows that it is kept.                             *)
(*                                                                         *)
(* For a server with one loop more holds: Alone, in the last part but one, *)
(* follows a connection from its descriptor to its end, and no assert()    *)
(* fails.  The last part proves the types, for any number of loops.        *)
(***************************************************************************)
EXTENDS TcpServer, FiniteSetTheorems, TLAPS

----------------------------------------------------------------------------
(* Queues of functors.                                                     *)

Occurs(q, t) == \E j \in 1..Len(q) : q[j] = t
Follows(q, i, t) == \E j \in 1..Len(q) : j > i /\ q[j] = t

(* A functor queued at the end comes after all the others.                 *)
LEMMA AppendQueue ==
  ASSUME NEW q \in Seq(Tasks), NEW x \in Tasks
  PROVE  /\ Append(q, x) \in Seq(Tasks) /\ Len(Append(q, x)) = Len(q) + 1
         /\ \A i \in 1..Len(q) : Append(q, x)[i] = q[i]
         /\ Append(q, x)[Len(q) + 1] = x
         /\ Occurs(Append(q, x), x)
         /\ \A t : Occurs(q, t) => Occurs(Append(q, x), t)
         /\ \A i \in 1..Len(q) : Follows(Append(q, x), i, x)
         /\ \A i \in 1..Len(q) : \A t : Follows(q, i, t) => Follows(Append(q, x), i, t)
<1>1. /\ Append(q, x) \in Seq(Tasks) /\ Len(Append(q, x)) = Len(q) + 1
      /\ \A i \in 1..Len(q) : Append(q, x)[i] = q[i]
      /\ Append(q, x)[Len(q) + 1] = x
  OBVIOUS
<1> DEFINE a == Append(q, x)
<1>2. Len(q) \in Nat
  OBVIOUS
<1> HIDE DEF a
<1>3. Len(a) = Len(q) + 1 /\ (\A i \in 1..Len(q) : a[i] = q[i]) /\ a[Len(q) + 1] = x
  BY <1>1 DEF a
<1>4. Len(q) + 1 \in 1..Len(a) /\ (\A i \in 1..Len(q) : i \in 1..Len(a) /\ Len(q) + 1 > i)
  BY <1>2, <1>3
<1>5. /\ Occurs(a, x)
      /\ \A t : Occurs(q, t) => Occurs(a, t)
      /\ \A i \in 1..Len(q) : Follows(a, i, x)
      /\ \A i \in 1..Len(q) : \A t : Follows(q, i, t) => Follows(a, i, t)
  <2>1. Occurs(a, x)
    BY <1>3, <1>4 DEF Occurs
  <2>2. \A t : Occurs(q, t) => Occurs(a, t)
    BY <1>3, <1>4 DEF Occurs
  <2>3. \A i \in 1..Len(q) : Follows(a, i, x)
    BY <1>3, <1>4 DEF Follows
  <2>4. \A i \in 1..Len(q) : \A t : Follows(q, i, t) => Follows(a, i, t)
    BY <1>3, <1>4 DEF Follows
  <2> QED BY <2>1, <2>2, <2>3, <2>4
<1> QED BY <1>1, <1>5 DEF a

(* Taking the head off a queue loses the head and nothing else.            *)
LEMMA TailQueue ==
  ASSUME NEW q \in Seq(Tasks), q # << >>
  PROVE  /\ Tail(q) \in Seq(Tasks) /\ Head(q) \in Tasks
         /\ Head(q) = q[1] /\ 1 \in 1..Len(q)
         /\ \A i \in 1..Len(Tail(q)) : i + 1 \in 1..Len(q) /\ Tail(q)[i] = q[i + 1]
         /\ \A t : Occurs(q, t) => t = Head(q) \/ Occurs(Tail(q), t)
         /\ \A t : Follows(q, 1, t) => Occurs(Tail(q), t)
         /\ \A i \in 1..Len(Tail(q)) : \A t : Follows(q, i + 1, t) => Follows(Tail(q), i, t)
<1> DEFINE r == Tail(q)
<1>1. /\ r \in Seq(Tasks) /\ Head(q) \in Tasks
      /\ Head(q) = q[1] /\ 1 \in 1..Len(q)
      /\ \A i \in 1..Len(r) : i + 1 \in 1..Len(q) /\ r[i] = q[i + 1]
      /\ Len(q) \in Nat /\ Len(r) = Len(q) - 1
  OBVIOUS
<1> HIDE DEF r
<1>2. \A j \in 1..Len(q) : j # 1 => j - 1 \in 1..Len(r) /\ r[j - 1] = q[j]
  BY <1>1
<1>3. \A t : Occurs(q, t) => t = Head(q) \/ Occurs(r, t)
  BY <1>1, <1>2 DEF Occurs
<1>4. \A t : Follows(q, 1, t) => Occurs(r, t)
  BY <1>1, <1>2 DEF Occurs, Follows
<1>5. ASSUME NEW i \in 1..Len(r), NEW t, Follows(q, i + 1, t)
      PROVE  Follows(r, i, t)
  <2>1. PICK j \in 1..Len(q) : j > i + 1 /\ q[j] = t
    BY <1>5 DEF Follows
  <2>2. j # 1 /\ j - 1 > i
    BY <1>1, <2>1
  <2>3. j - 1 \in 1..Len(r) /\ r[j - 1] = t
    BY <1>2, <2>1, <2>2
  <2> QED BY <2>2, <2>3 DEF Follows
<1> QED BY <1>1, <1>3, <1>4, <1>5 DEF r

----------------------------------------------------------------------------
(* The invariant.                                                          *)

LoopRecord ==
  [place : {"wait", "events", "batch", "release"}, fired : SUBSET (Conns \cup {Acceptor}),
   pending : Seq(Tasks), batch : Seq(Tasks), held : SUBSET Conns, dying : SUBSET Conns]

Shapes ==
  /\ threads \in 0 .. MaxThreads /\ next \in Nat /\ (threads = 0 \/ next < threads)
  /\ nextConn \in Nat \ {0} /\ backlog \in Nat /\ nextConn + backlog <= MaxConns + 1
  /\ loop \in [Loops -> LoopRecord]
  /\ Acceptor \in loop[Base].fired => backlog > 0
  /\ DOMAIN conn = Conns
  /\ \A c \in Conns : {"loop", "fd"} \subseteq DOMAIN conn[c] /\ conn[c].loop \in Loops
  /\ channelMap \in [Loops -> [Fds -> Conns \cup {Nobody}]]
  /\ connections \subseteq Conns

(* Fired channels exist between poll and functors, a batch after that, and *)
(* connections that are being destroyed after the batch.                   *)
Phases ==
  \A l \in Loops : /\ loop[l].place # "batch" => loop[l].batch = << >>
                   /\ loop[l].place # "events" => loop[l].fired = {}
                   /\ loop[l].place # "release" => loop[l].dying = {}

Destroy(c) == Task("destroy", c)
Destroying(l, c) ==
  Occurs(loop[l].batch, Destroy(c)) \/ Occurs(loop[l].pending, Destroy(c))

(* Whoever c is known to on loop l, c is still in the map, or its          *)
(* connectDestroyed() is to come on that loop.                             *)
Kept(l, c) == c \in connections \/ Destroying(l, c)
Belongs(l, c) == c \in Conns /\ c < nextConn /\ conn[c].loop = l

EntriesKept ==
  \A l \in Loops, f \in Fds :
    channelMap[l][f] # Nobody =>
      /\ Belongs(l, channelMap[l][f]) /\ conn[channelMap[l][f]].fd = f
      /\ Kept(l, channelMap[l][f])

FiredKept ==
  \A l \in Loops : \A c \in loop[l].fired : c # Acceptor => Belongs(l, c) /\ Kept(l, c)

(* A connectEstablished() comes before the connectDestroyed() of the same  *)
(* connection.                                                             *)
PendingOrdered ==
  \A l \in Loops : \A i \in 1..Len(loop[l].pending) :
    LET t == loop[l].pending[i] IN
    /\ t.conn < nextConn
    /\ t.op # "remove" => conn[t.conn].loop = l
    /\ t.op = "establish" =>
         t.conn \in connections \/ Follows(loop[l].pending, i, Destroy(t.conn))

BatchOrdered ==
  \A l \in Loops : \A i \in 1..Len(loop[l].batch) :
    LET t == loop[l].batch[i] IN
    /\ t.conn < nextConn /\ t.conn \in loop[l].held
    /\ t.op # "remove" => conn[t.conn].loop = l
    /\ t.op = "establish" =>
         \/ t.conn \in connections
         \/ Follows(loop[l].batch, i, Destroy(t.conn))
         \/ Occurs(loop[l].pending, Destroy(t.conn))

ServerInv ==
  Shapes /\ Phases /\ EntriesKept /\ FiredKept /\ PendingOrdered /\ BatchOrdered
----------------------------------------------------------------------------
(* What most steps leave alone.                                            *)
SameQueues == \A k \in Loops : /\ loop'[k].batch = loop[k].batch
                               /\ loop'[k].pending = loop[k].pending
SameHomes ==
  \A c \in Conns : c < nextConn => conn'[c].loop = conn[c].loop /\ conn'[c].fd = conn[c].fd

(* The tasks of the queues name connections.                               *)
LEMMA QueueTypes ==
  ASSUME Shapes, NEW l \in Loops
  PROVE  /\ loop[l].pending \in Seq(Tasks) /\ loop[l].batch \in Seq(Tasks)
         /\ \A i \in 1..Len(loop[l].pending) : loop[l].pending[i].conn \in Conns
         /\ \A i \in 1..Len(loop[l].batch) : loop[l].batch[i].conn \in Conns
<1>1. loop[l] \in LoopRecord
  BY DEF Shapes
<1>2. loop[l].pending \in Seq(Tasks) /\ loop[l].batch \in Seq(Tasks)
  BY <1>1 DEF LoopRecord
<1> DEFINE p == loop[l].pending
           b == loop[l].batch
<1>3. p \in Seq(Tasks) /\ b \in Seq(Tasks)
  BY <1>2
<1> HIDE DEF p, b
<1>4. (\A i \in 1..Len(p) : p[i] \in Tasks) /\ (\A i \in 1..Len(b) : b[i] \in Tasks)
  BY <1>3
<1>5. (\A i \in 1..Len(p) : p[i].conn \in Conns) /\ (\A i \in 1..Len(b) : b[i].conn \in Conns)
  BY <1>4 DEF Tasks
<1> QED BY <1>2, <1>5 DEF p, b

(* A step that leaves the queues and the map alone keeps the order of the  *)
(* functors, and whatever was known is still known.                        *)
LEMMA QuietStep ==
  ASSUME ServerInv, SameQueues, SameHomes,
         connections' = connections, nextConn' = nextConn,
         \A k \in Loops : loop'[k].held = loop[k].held \/ loop[k].batch = << >>
  PROVE  /\ PendingOrdered' /\ BatchOrdered'
         /\ \A k \in Loops : \A c : Belongs(k, c) => Belongs(k, c)'
         /\ \A k \in Loops : \A c : Kept(k, c) => Kept(k, c)'
<1>1. PendingOrdered'
  <2> SUFFICES ASSUME NEW k \in Loops, NEW i \in 1..Len(loop[k].pending)
               PROVE  LET t == loop[k].pending[i] IN
                      /\ t.conn < nextConn
                      /\ t.op # "remove" => conn'[t.conn].loop = k
                      /\ t.op = "establish" =>
                           t.conn \in connections \/ Follows(loop[k].pending, i, Destroy(t.conn))
    BY DEF PendingOrdered, SameQueues
  <2> QED BY QueueTypes DEF ServerInv, PendingOrdered, SameHomes
<1>2. BatchOrdered'
  <2> SUFFICES ASSUME NEW k \in Loops, NEW i \in 1..Len(loop[k].batch)
               PROVE  LET t == loop[k].batch[i] IN
                      /\ t.conn < nextConn /\ t.conn \in loop'[k].held
                      /\ t.op # "remove" => conn'[t.conn].loop = k
                      /\ t.op = "establish" =>
                           \/ t.conn \in connections
                           \/ Follows(loop[k].batch, i, Destroy(t.conn))
                           \/ Occurs(loop[k].pending, Destroy(t.conn))
    BY DEF BatchOrdered, SameQueues
  <2>1. loop[k].batch # << >>
    BY QueueTypes DEF ServerInv
  <2> QED BY <2>1, QueueTypes DEF ServerInv, BatchOrdered, SameHomes
<1>3. \A k \in Loops : \A c : Belongs(k, c) => Belongs(k, c)'
  BY DEF Belongs, SameHomes
<1>4. \A k \in Loops : \A c : Kept(k, c) => Kept(k, c)'
  BY DEF Kept, Destroying, SameQueues
<1> QED BY <1>1, <1>2, <1>3, <1>4

(* Without new entries nothing new has to be known of entries.             *)
LEMMA EntriesStay ==
  ASSUME ServerInv, SameHomes, channelMap' = channelMap,
         \A k \in Loops : \A c : Belongs(k, c) => Belongs(k, c)',
         \A k \in Loops : \A c : Belongs(k, c) /\ Kept(k, c) => Kept(k, c)'
  PROVE  EntriesKept'
<1> SUFFICES ASSUME NEW k \in Loops, NEW f \in Fds, channelMap[k][f] # Nobody
             PROVE  /\ Belongs(k, channelMap[k][f])' /\ conn'[channelMap[k][f]].fd = f
                    /\ Kept(k, channelMap[k][f])'
  BY DEF EntriesKept, Belongs, Kept, Destroying
<1>1. /\ Belongs(k, channelMap[k][f]) /\ conn[channelMap[k][f]].fd = f
      /\ Kept(k, channelMap[k][f])
  BY DEF ServerInv, EntriesKept
<1>2. conn'[channelMap[k][f]].fd = f
  BY <1>1 DEF Belongs, SameHomes
<1>3. Belongs(k, channelMap[k][f])' /\ Kept(k, channelMap[k][f])'
  BY <1>1 DEF Belongs, Kept, Destroying
<1> QED BY <1>2, <1>3

(* ... and without new fired channels nothing new of those.                *)
LEMMA NothingNew ==
  ASSUME ServerInv, SameQueues, SameHomes,
         connections' = connections, nextConn' = nextConn, channelMap' = channelMap,
         \A k \in Loops : /\ loop'[k].held = loop[k].held \/ loop[k].batch = << >>
                         /\ loop'[k].fired \subseteq loop[k].fired
  PROVE  EntriesKept' /\ FiredKept' /\ PendingOrdered' /\ BatchOrdered'
<1>1. /\ PendingOrdered' /\ BatchOrdered'
      /\ \A k \in Loops : \A c : Belongs(k, c) => Belongs(k, c)'
      /\ \A k \in Loops : \A c : Kept(k, c) => Kept(k, c)'
  BY QuietStep
<1>2. FiredKept'
  BY <1>1 DEF ServerInv, FiredKept
<1> QED BY <1>1, <1>2, EntriesStay

LEMMA FiredTyped ==
  ASSUME NEW q \in [Loops -> LoopRecord], NEW l \in Loops,
         NEW F \in SUBSET (Conns \cup {Acceptor})
  PROVE  [q EXCEPT ![l].fired = F] \in [Loops -> LoopRecord]
BY DEF LoopRecord

LEMMA PollStep ==
  ASSUME ServerInv, NEW l \in Loops, NEW W \in SUBSET Fds, Poll(l, W)
  PROVE  ServerInv'
<1> DEFINE accept == IF l = Base /\ backlog > 0 THEN {Acceptor} ELSE {}
           chans == {channelMap[l][f] : f \in FiredFds(l, W)}
<1>1. /\ loop' = [loop EXCEPT ![l].place = "events", ![l].fired = accept \cup chans]
      /\ loop[l].place = "wait"
      /\ UNCHANGED <<threads, next, backlog, nextConn, connections, channelMap>>
  BY DEF Poll
<1>2. \A c \in chans : c \in Conns /\ \E f \in Fds : channelMap[l][f] = c
  BY DEF FiredFds, ServerInv, Shapes
<1>3. loop' \in [Loops -> LoopRecord]
  <2> HIDE DEF accept, chans
  <2>1. accept \cup chans \in SUBSET (Conns \cup {Acceptor})
    BY <1>2 DEF accept
  <2>2. loop \in [Loops -> LoopRecord]
    BY DEF ServerInv, Shapes
  <2> DEFINE q == [loop EXCEPT ![l].place = "events"]
  <2>3. q \in [Loops -> LoopRecord]
    BY <2>2 DEF LoopRecord
  <2>4. loop' = [q EXCEPT ![l].fired = accept \cup chans]
    BY <1>1
  <2> HIDE DEF q
  <2> QED BY <2>1, <2>3, <2>4, FiredTyped
<1>4. \A k \in Loops :
        /\ loop'[k].batch = loop[k].batch /\ loop'[k].pending = loop[k].pending
        /\ loop'[k].held = loop[k].held /\ loop'[k].dying = loop[k].dying
        /\ loop'[k].place = IF k = l THEN "events" ELSE loop[k].place
        /\ loop'[k].fired = IF k = l THEN accept \cup chans ELSE loop[k].fired
  <2>1. loop \in [Loops -> LoopRecord]
    BY DEF ServerInv, Shapes
  <2> HIDE DEF accept, chans
  <2> QED BY <1>1, <2>1 DEF LoopRecord
<1>5. /\ DOMAIN conn' = Conns
      /\ \A c \in Conns : /\ conn'[c].loop = conn[c].loop /\ conn'[c].fd = conn[c].fd
                          /\ {"loop", "fd"} \subseteq DOMAIN conn'[c]
  BY DEF Poll, ServerInv, Shapes
<1> HIDE DEF accept, chans
<1>6. SameQueues /\ SameHomes
  BY <1>4, <1>5 DEF SameQueues, SameHomes, ServerInv, Shapes
<1>7. Shapes'
  <2>1. \A c \in Conns : conn'[c].loop \in Loops
    BY <1>5 DEF ServerInv, Shapes
  <2>2. Acceptor \in loop'[Base].fired => backlog' > 0
    <3>1. Acceptor \notin chans
      BY <1>2, ServerBounds DEF Acceptor, Conns
    <3>2. Base \in Loops
      BY ServerBounds DEF Base, Loops
    <3>3. Acceptor \in loop[Base].fired => backlog > 0
      BY DEF ServerInv, Shapes
    <3> QED BY <1>1, <1>4, <3>1, <3>2, <3>3 DEF accept
  <2> QED BY <1>1, <1>3, <1>5, <2>1, <2>2 DEF Shapes, ServerInv
<1>8. Phases'
  <2> SUFFICES ASSUME NEW k \in Loops
               PROVE  /\ loop'[k].place # "batch" => loop'[k].batch = << >>
                      /\ loop'[k].place # "events" => loop'[k].fired = {}
                      /\ loop'[k].place # "release" => loop'[k].dying = {}
    BY DEF Phases
  <2>1. /\ loop[k].place # "batch" => loop[k].batch = << >>
        /\ loop[k].place # "events" => loop[k].fired = {}
        /\ loop[k].place # "release" => loop[k].dying = {}
    BY DEF ServerInv, Phases
  <2>2. CASE k = l
    BY <1>1, <1>4, <2>1, <2>2
  <2>3. CASE k # l
    BY <1>4, <2>1, <2>3
  <2> QED BY <2>2, <2>3
<1>9. EntriesKept' /\ FiredKept' /\ PendingOrdered' /\ BatchOrdered'
  <2>1. /\ PendingOrdered' /\ BatchOrdered'
        /\ \A k \in Loops : \A c : Belongs(k, c) => Belongs(k, c)'
        /\ \A k \in Loops : \A c : Kept(k, c) => Kept(k, c)'
    BY <1>1, <1>4, <1>6, QuietStep
  <2>2. \A c \in chans : Belongs(l, c) /\ Kept(l, c)
    BY <1>2 DEF ServerInv, EntriesKept, Acceptor, Nobody, Conns
  <2>3. FiredKept'
    BY <1>4, <2>1, <2>2 DEF ServerInv, FiredKept, accept
  <2>4. EntriesKept'
    BY <1>1, <1>6, <2>1, EntriesStay
  <2> QED BY <2>1, <2>3, <2>4
<1> QED BY <1>7, <1>8, <1>9 DEF ServerInv

----------------------------------------------------------------------------
(* Most steps of handlers leave every connection on its loop and with its  *)
(* descriptor.                                                             *)
HomesKept ==
  /\ DOMAIN conn' = Conns
  /\ \A c \in Conns : /\ conn'[c].loop = conn[c].loop /\ conn'[c].fd = conn[c].fd
                      /\ {"loop", "fd"} \subseteq DOMAIN conn'[c]

LEMMA HomesAreSame ==
  ASSUME ServerInv, HomesKept
  PROVE  SameHomes
BY DEF ServerInv, Shapes, SameHomes, HomesKept

LEMMA SettledShapes ==
  ASSUME ServerInv, HomesKept, UNCHANGED <<threads, next, nextConn, backlog>>,
         loop' \in [Loops -> LoopRecord], connections' \subseteq connections,
         channelMap' \in [Loops -> [Fds -> Conns \cup {Nobody}]],
         loop'[Base].fired \subseteq loop[Base].fired
  PROVE  Shapes'
BY DEF ServerInv, Shapes, HomesKept

(* One queue of one loop is changed.                                       *)
LEMMA PendingField ==
  ASSUME NEW q \in [Loops -> LoopRecord], NEW l \in Loops, NEW t \in Tasks
  PROVE  LET r == [q EXCEPT ![l].pending = Append(@, t)] IN
         /\ r \in [Loops -> LoopRecord]
         /\ \A k \in Loops :
              /\ r[k].pending = IF k = l THEN Append(q[k].pending, t) ELSE q[k].pending
              /\ r[k].held = q[k].held /\ r[k].place = q[k].place /\ r[k].dying = q[k].dying
              /\ r[k].fired = q[k].fired /\ r[k].batch = q[k].batch
<1> DEFINE p == Append(q[l].pending, t)
           r == [q EXCEPT ![l].pending = p]
<1>1. q[l] \in LoopRecord /\ q[l].pending \in Seq(Tasks)
  BY DEF LoopRecord
<1>2. p \in Seq(Tasks)
  BY <1>1
<1> HIDE DEF p
<1>3. r \in [Loops -> LoopRecord]
  BY <1>2 DEF LoopRecord
<1>4. \A k \in Loops :
        /\ r[k].pending = IF k = l THEN p ELSE q[k].pending
        /\ r[k].held = q[k].held /\ r[k].place = q[k].place /\ r[k].dying = q[k].dying
        /\ r[k].fired = q[k].fired /\ r[k].batch = q[k].batch
  BY DEF LoopRecord
<1> QED BY <1>3, <1>4 DEF p

LEMMA BatchField ==
  ASSUME NEW q \in [Loops -> LoopRecord], NEW l \in Loops, q[l].batch # << >>
  PROVE  LET r == [q EXCEPT ![l].batch = Tail(@)] IN
         /\ r \in [Loops -> LoopRecord]
         /\ \A k \in Loops :
              /\ r[k].batch = IF k = l THEN Tail(q[k].batch) ELSE q[k].batch
              /\ r[k].held = q[k].held /\ r[k].place = q[k].place /\ r[k].dying = q[k].dying
              /\ r[k].fired = q[k].fired /\ r[k].pending = q[k].pending
<1> DEFINE p == Tail(q[l].batch)
           r == [q EXCEPT ![l].batch = p]
<1>1. q[l] \in LoopRecord /\ q[l].batch \in Seq(Tasks)
  BY DEF LoopRecord
<1>2. p \in Seq(Tasks)
  BY <1>1
<1> HIDE DEF p
<1>3. r \in [Loops -> LoopRecord]
  BY <1>2 DEF LoopRecord
<1>4. \A k \in Loops :
        /\ r[k].batch = IF k = l THEN p ELSE q[k].batch
        /\ r[k].held = q[k].held /\ r[k].place = q[k].place /\ r[k].dying = q[k].dying
        /\ r[k].fired = q[k].fired /\ r[k].pending = q[k].pending
  BY DEF LoopRecord
<1> QED BY <1>3, <1>4 DEF p

----------------------------------------------------------------------------
(* The steps that leave the queues alone.                                  *)

LEMMA StillStep ==
  ASSUME ServerInv, HomesKept,
         UNCHANGED <<threads, next, nextConn, backlog, connections, channelMap>>,
         loop' \in [Loops -> LoopRecord],
         \A k \in Loops :
           /\ loop'[k].batch = loop[k].batch /\ loop'[k].pending = loop[k].pending
           /\ loop'[k].held = loop[k].held \/ loop[k].batch = << >>
           /\ loop'[k].fired \subseteq loop[k].fired
           /\ \/ loop'[k].place = loop[k].place /\ loop'[k].dying = loop[k].dying
              \/ /\ loop[k].batch = << >> /\ loop'[k].fired = {}
                 /\ loop'[k].place = "release" \/ loop'[k].dying = {}
  PROVE  ServerInv'
<1>1. SameQueues /\ SameHomes
  BY HomesAreSame DEF SameQueues
<1>2. Base \in Loops
  BY ServerBounds DEF Base, Loops
<1>3. Shapes'
  <2>1. /\ channelMap' \in [Loops -> [Fds -> Conns \cup {Nobody}]]
        /\ connections' \subseteq connections
    BY DEF ServerInv, Shapes
  <2>2. loop'[Base].fired \subseteq loop[Base].fired
    BY <1>2
  <2> QED BY <2>1, <2>2, SettledShapes
<1>4. Phases'
  <2> SUFFICES ASSUME NEW k \in Loops
               PROVE  /\ loop'[k].place # "batch" => loop'[k].batch = << >>
                      /\ loop'[k].place # "events" => loop'[k].fired = {}
                      /\ loop'[k].place # "release" => loop'[k].dying = {}
    BY DEF Phases
  <2>1. /\ loop[k].place # "batch" => loop[k].batch = << >>
        /\ loop[k].place # "events" => loop[k].fired = {}
        /\ loop[k].place # "release" => loop[k].dying = {}
    BY DEF ServerInv, Phases
  <2>2. CASE loop'[k].place = loop[k].place /\ loop'[k].dying = loop[k].dying
    BY <2>1, <2>2
  <2>3. CASE /\ loop[k].batch = << >> /\ loop'[k].fired = {}
             /\ loop'[k].place = "release" \/ loop'[k].dying = {}
    BY <2>3
  <2> QED BY <2>2, <2>3
<1> QED BY <1>1, <1>3, <1>4, NothingNew DEF ServerInv

LEMMA RefusedStep ==
  ASSUME ServerInv, UNCHANGED <<threads, next, nextConn, backlog, connections, conn, channelMap>>,
         NEW l \in Loops, NEW c \in Conns \cup {Acceptor},
         loop' = [loop EXCEPT ![l].fired = @ \ {c}]
  PROVE  ServerInv'
<1> DEFINE r == [loop EXCEPT ![l].fired = @ \ {c}]
<1>1. loop \in [Loops -> LoopRecord] /\ loop' = r
  BY DEF ServerInv, Shapes
<1>2. HomesKept
  BY DEF HomesKept, ServerInv, Shapes
<1>3. /\ r \in [Loops -> LoopRecord]
      /\ \A k \in Loops :
           /\ r[k].batch = loop[k].batch /\ r[k].pending = loop[k].pending
           /\ r[k].held = loop[k].held /\ r[k].place = loop[k].place
           /\ r[k].dying = loop[k].dying
           /\ r[k].fired = IF k = l THEN loop[k].fired \ {c} ELSE loop[k].fired
  BY <1>1 DEF LoopRecord
<1> HIDE DEF r
<1>4. UNCHANGED <<threads, next, nextConn, backlog, connections, channelMap>>
  OBVIOUS
<1> QED BY <1>1, <1>2, <1>3, <1>4, StillStep

(* A connection may change in everything but its loop and its descriptor.  *)
LEMMA ConnStep ==
  ASSUME ServerInv, HomesKept,
         UNCHANGED <<threads, next, nextConn, backlog, connections, channelMap, loop>>
  PROVE  ServerInv'
BY StillStep DEF ServerInv, Shapes

LEMMA PeerActsStep ==
  ASSUME ServerInv, NEW c \in Conns, PeerActs(c)
  PROVE  ServerInv'
<1>1. HomesKept
  BY DEF HomesKept, PeerActs, ServerInv, Shapes
<1> QED BY <1>1, ConnStep DEF PeerActs

LEMMA DestroySocketStep ==
  ASSUME ServerInv, NEW l \in Loops, NEW c \in Conns, DestroySocket(l, c)
  PROVE  ServerInv'
<1>1. HomesKept
  BY DEF HomesKept, DestroySocket, ServerInv, Shapes
<1> QED BY <1>1, ConnStep DEF DestroySocket

LEMMA SameStep ==
  ASSUME ServerInv,
         UNCHANGED <<threads, next, nextConn, backlog, connections, channelMap, loop, conn>>
  PROVE  ServerInv'
<1>1. HomesKept
  BY DEF HomesKept, ServerInv, Shapes
<1> QED BY <1>1, ConnStep

LEMMA PeerConnectsStep ==
  ASSUME ServerInv, PeerConnects
  PROVE  ServerInv'
<1>1. /\ UNCHANGED <<threads, next, nextConn, connections, channelMap, loop, conn>>
      /\ backlog' = backlog + 1 /\ nextConn + backlog <= MaxConns
  BY DEF PeerConnects
<1>2. backlog' \in Nat /\ nextConn + backlog' <= MaxConns + 1 /\ backlog' > 0
  BY <1>1, ServerBounds DEF ServerInv, Shapes
<1>3. Shapes'
  BY <1>1, <1>2 DEF ServerInv, Shapes
<1>4. SameQueues /\ SameHomes
  BY <1>1 DEF SameQueues, SameHomes
<1>5. Phases'
  BY <1>1 DEF ServerInv, Phases
<1>6. EntriesKept' /\ FiredKept' /\ PendingOrdered' /\ BatchOrdered'
  BY <1>1, <1>4, NothingNew
<1> QED BY <1>3, <1>5, <1>6 DEF ServerInv

LEMMA DestroyChannelStep ==
  ASSUME ServerInv, NEW l \in Loops, NEW c \in Conns, DestroyChannel(l, c)
  PROVE  ServerInv'
<1>1. HomesKept
  BY DEF HomesKept, DestroyChannel, ServerInv, Shapes
<1> DEFINE place == IF loop[l].dying = {c} THEN "wait" ELSE loop[l].place
<1>2. loop[l].place = "release" /\ loop[l].batch = << >> /\ loop[l].fired = {}
  BY DEF DestroyChannel, ServerInv, Phases
<1>3. place \in {"wait", "release"} /\ (place = "release" \/ loop[l].dying \ {c} = {})
  BY <1>2
<1>4. loop \in [Loops -> LoopRecord]
  BY DEF ServerInv, Shapes
<1>5. loop' = [loop EXCEPT ![l].dying = @ \ {c}, ![l].place = place]
  BY DEF DestroyChannel
<1> HIDE DEF place
<1>6. loop' \in [Loops -> LoopRecord]
  BY <1>3, <1>4, <1>5 DEF LoopRecord
<1>7. \A k \in Loops :
        /\ loop'[k].batch = loop[k].batch /\ loop'[k].pending = loop[k].pending
        /\ loop'[k].held = loop[k].held /\ loop'[k].fired = loop[k].fired
        /\ k # l => loop'[k] = loop[k]
  BY <1>4, <1>5 DEF LoopRecord
<1>8. loop'[l].place = place /\ loop'[l].dying = loop[l].dying \ {c}
  BY <1>4, <1>5 DEF LoopRecord
<1> QED BY <1>1, <1>2, <1>3, <1>6, <1>7, <1>8, StillStep DEF DestroyChannel

LEMMA BatchDoneStep ==
  ASSUME ServerInv, NEW l \in Loops, BatchDone(l)
  PROVE  ServerInv'
<1>1. PICK orphans \in SUBSET loop[l].held :
        loop' = [[loop EXCEPT ![l].held = {}] EXCEPT
                   ![l].dying = orphans,
                   ![l].place = IF orphans = {} THEN "wait" ELSE "release"]
  BY DEF BatchDone
<1> DEFINE place == IF orphans = {} THEN "wait" ELSE "release"
<1>2. loop[l].place = "batch" /\ loop[l].batch = << >> /\ loop[l].fired = {}
  BY DEF BatchDone, ServerInv, Phases
<1>3. place \in {"wait", "release"} /\ (place = "release" \/ orphans = {})
  OBVIOUS
<1>4. loop \in [Loops -> LoopRecord] /\ HomesKept
  BY DEF ServerInv, Shapes, BatchDone, HomesKept
<1>5. loop' = [loop EXCEPT ![l].held = {}, ![l].dying = orphans, ![l].place = place]
  BY <1>1
<1>6. orphans \in SUBSET Conns
  BY <1>4 DEF LoopRecord
<1> HIDE DEF place
<1>7. loop' \in [Loops -> LoopRecord]
  <2> DEFINE q == [loop EXCEPT ![l].held = {}, ![l].dying = orphans]
  <2>1. q \in [Loops -> LoopRecord]
    BY <1>4, <1>6 DEF LoopRecord
  <2>2. loop' = [q EXCEPT ![l].place = place]
    BY <1>5
  <2> HIDE DEF q
  <2> QED BY <1>3, <2>1, <2>2 DEF LoopRecord
<1>8. \A k \in Loops :
        /\ loop'[k].batch = loop[k].batch /\ loop'[k].pending = loop[k].pending
        /\ loop'[k].fired = loop[k].fired
        /\ k # l => loop'[k] = loop[k]
  BY <1>4, <1>5 DEF LoopRecord
<1>9. loop'[l].place = place /\ loop'[l].dying = orphans
  BY <1>4, <1>5 DEF LoopRecord
<1> QED BY <1>2, <1>3, <1>4, <1>7, <1>8, <1>9, StillStep DEF BatchDone

----------------------------------------------------------------------------
(* The steps that change the queues.                                       *)

(* The head of the batch of k is taken; t is queued behind the others, and *)
(* is a functor that may be there.                                         *)
Taken(k) == loop[k].batch # << >> /\ loop'[k].batch = Tail(loop[k].batch)
Queued(k, t) ==
  /\ t \in Tasks /\ loop'[k].pending = Append(loop[k].pending, t)
  /\ t.conn < nextConn' /\ (t.op # "remove" => conn'[t.conn].loop = k)
  /\ t.op = "establish" => t.conn \in connections'

NumbersGrow == nextConn <= nextConn' /\ nextConn' \in Nat
BatchesMove == \A k \in Loops : loop'[k].batch = loop[k].batch \/ Taken(k)
PendingsMove ==
  \A k \in Loops : loop'[k].pending = loop[k].pending \/ \E t \in Tasks : Queued(k, t)
HeldStays == \A k \in Loops : loop'[k].held = loop[k].held
MapMove == \A c \in connections : c \notin connections' => Queued(conn[c].loop, Destroy(c))

(* A functor is taken or queued, or both, and a connection leaves the map  *)
(* only when its connectDestroyed() is queued: the order of the functors   *)
(* is kept, and whatever was known is still known, except to a             *)
(* connectDestroyed() that runs.                                           *)
LEMMA QueueStep ==
  ASSUME ServerInv, SameHomes, NumbersGrow, BatchesMove, PendingsMove,
         HeldStays, MapMove
  PROVE  /\ PendingOrdered' /\ BatchOrdered'
         /\ \A k \in Loops : \A c : Belongs(k, c) => Belongs(k, c)'
         /\ \A k \in Loops : \A c :
              Belongs(k, c) /\ Kept(k, c) =>
                Kept(k, c)' \/ (Taken(k) /\ Head(loop[k].batch) = Destroy(c))
<1>1. \A k \in Loops : loop[k].pending \in Seq(Tasks) /\ loop[k].batch \in Seq(Tasks)
  BY QueueTypes DEF ServerInv
<1>2. \A c \in Conns : c < nextConn => c < nextConn'
  BY DEF ServerInv, Shapes, Conns, NumbersGrow
<1>3. \A k \in Loops : \A c : Belongs(k, c) => Belongs(k, c)'
  BY <1>2 DEF Belongs, SameHomes
<1>4. \A k \in Loops : \A t : Occurs(loop[k].pending, t) => Occurs(loop'[k].pending, t)
  <2> SUFFICES ASSUME NEW k \in Loops, NEW t, Occurs(loop[k].pending, t)
               PROVE  Occurs(loop'[k].pending, t)
    OBVIOUS
  <2>1. CASE loop'[k].pending = loop[k].pending
    BY <2>1
  <2>2. ASSUME NEW x \in Tasks, Queued(k, x) PROVE Occurs(loop'[k].pending, t)
    BY <2>2, <1>1, AppendQueue DEF Queued
  <2> QED BY <2>1, <2>2 DEF PendingsMove
<1>5. \A k \in Loops : \A t : Occurs(loop[k].batch, t) =>
        Occurs(loop'[k].batch, t) \/ (Taken(k) /\ Head(loop[k].batch) = t)
  <2> SUFFICES ASSUME NEW k \in Loops, NEW t, Occurs(loop[k].batch, t)
               PROVE  Occurs(loop'[k].batch, t) \/ (Taken(k) /\ Head(loop[k].batch) = t)
    OBVIOUS
  <2>1. CASE loop'[k].batch = loop[k].batch
    BY <2>1
  <2>2. CASE Taken(k)
    <3> DEFINE q == loop[k].batch
    <3>1. q \in Seq(Tasks) /\ q # << >> /\ loop'[k].batch = Tail(q) /\ Occurs(q, t)
      BY <2>2, <1>1 DEF Taken
    <3> HIDE DEF q
    <3>2. t = Head(q) \/ Occurs(Tail(q), t)
      BY <3>1, TailQueue
    <3> QED BY <2>2, <3>1, <3>2 DEF q
  <2> QED BY <2>1, <2>2 DEF BatchesMove
<1>6. \A c \in connections : c \notin connections' =>
        Occurs(loop'[conn[c].loop].pending, Destroy(c))
  <2> SUFFICES ASSUME NEW c \in connections, c \notin connections'
               PROVE  Occurs(loop'[conn[c].loop].pending, Destroy(c))
    OBVIOUS
  <2>1. conn[c].loop \in Loops
    BY DEF ServerInv, Shapes
  <2>2. Queued(conn[c].loop, Destroy(c))
    BY DEF MapMove
  <2> QED BY <2>1, <2>2, <1>1, AppendQueue DEF Queued
<1>7. ASSUME NEW k \in Loops, NEW c, Belongs(k, c), Kept(k, c)
      PROVE  Kept(k, c)' \/ (Taken(k) /\ Head(loop[k].batch) = Destroy(c))
  <2>1. CASE c \in connections
    BY <2>1, <1>6, <1>7 DEF Kept, Destroying, Belongs
  <2>2. CASE Occurs(loop[k].pending, Destroy(c))
    BY <2>2, <1>4 DEF Kept, Destroying
  <2>3. CASE Occurs(loop[k].batch, Destroy(c))
    BY <2>3, <1>5 DEF Kept, Destroying
  <2> QED BY <2>1, <2>2, <2>3, <1>7 DEF Kept, Destroying
<1>8. PendingOrdered'
  <2> SUFFICES ASSUME NEW k \in Loops, NEW i \in 1..Len(loop'[k].pending)
               PROVE  LET t == loop'[k].pending[i] IN
                      /\ t.conn < nextConn'
                      /\ t.op # "remove" => conn'[t.conn].loop = k
                      /\ t.op = "establish" =>
                           t.conn \in connections' \/ Follows(loop'[k].pending, i, Destroy(t.conn))
    BY DEF PendingOrdered
  <2> DEFINE t == loop'[k].pending[i]
  <2>1. CASE i \in 1..Len(loop[k].pending) /\ loop'[k].pending[i] = loop[k].pending[i]
    <3>1. /\ t.conn \in Conns /\ t.conn < nextConn /\ (t.op # "remove" => conn[t.conn].loop = k)
          /\ t.op = "establish" =>
                t.conn \in connections \/ Follows(loop[k].pending, i, Destroy(t.conn))
      BY <2>1, QueueTypes DEF ServerInv, PendingOrdered
    <3>2. t.conn < nextConn' /\ (t.op # "remove" => conn'[t.conn].loop = k)
      <4>1. t.conn < nextConn'
        BY <3>1, <1>2
      <4> QED BY <3>1, <4>1 DEF SameHomes
    <3> DEFINE p == loop[k].pending
    <3>. p \in Seq(Tasks) /\ i \in 1..Len(p)
      BY <1>1, <2>1
    <3>3. CASE Follows(loop[k].pending, i, Destroy(t.conn))
      <4>1. Follows(loop'[k].pending, i, Destroy(t.conn))
        <5>1. CASE loop'[k].pending = loop[k].pending
          BY <5>1, <3>3
        <5>2. ASSUME NEW x \in Tasks, Queued(k, x)
              PROVE  Follows(loop'[k].pending, i, Destroy(t.conn))
          <6> DEFINE d == Destroy(t.conn)
          <6>1. x \in Tasks /\ loop'[k].pending = Append(p, x) /\ Follows(p, i, d)
            BY <5>2, <3>3 DEF Queued
          <6> HIDE DEF p, d
          <6>2. Follows(Append(p, x), i, d)
            BY <6>1, AppendQueue
          <6> QED BY <6>1, <6>2 DEF d
        <5> QED BY <5>1, <5>2 DEF PendingsMove
      <4> QED BY <4>1, <3>2
    <3>4. CASE t.op = "establish" /\ t.conn \in connections /\ t.conn \notin connections'
      <4>1. Queued(k, Destroy(t.conn))
        BY <3>1, <3>4 DEF MapMove
      <4>2. Follows(loop'[k].pending, i, Destroy(t.conn))
        <5> DEFINE d == Destroy(t.conn)
        <5>1. d \in Tasks /\ loop'[k].pending = Append(p, d)
          BY <4>1 DEF Queued
        <5> HIDE DEF p, d
        <5>2. Follows(Append(p, d), i, d)
          BY <5>1, AppendQueue
        <5> QED BY <5>1, <5>2 DEF d
      <4> QED BY <4>2, <3>2
    <3> QED BY <3>1, <3>2, <3>3, <3>4
  <2>2. CASE Queued(k, t)
    BY <2>2 DEF Queued
  <2>3. \/ i \in 1..Len(loop[k].pending) /\ loop'[k].pending[i] = loop[k].pending[i]
        \/ Queued(k, t)
    <3>1. CASE loop'[k].pending = loop[k].pending
      BY <3>1
    <3>2. ASSUME NEW x \in Tasks, Queued(k, x)
          PROVE  \/ i \in 1..Len(loop[k].pending) /\ loop'[k].pending[i] = loop[k].pending[i]
                 \/ t = x
      <4> DEFINE p == loop[k].pending
      <4>1. p \in Seq(Tasks) /\ x \in Tasks /\ loop'[k].pending = Append(p, x)
        BY <3>2, <1>1 DEF Queued
      <4> HIDE DEF p
      <4>2. i \in 1..Len(p) \/ i = Len(p) + 1
        BY <4>1
      <4>3. /\ i \in 1..Len(p) => loop'[k].pending[i] = p[i]
            /\ i = Len(p) + 1 => loop'[k].pending[i] = x
        BY <4>1
      <4> QED BY <4>2, <4>3 DEF p
    <3> QED BY <3>1, <3>2 DEF PendingsMove
  <2> QED BY <2>1, <2>2, <2>3
<1>9. BatchOrdered'
  <2> SUFFICES ASSUME NEW k \in Loops, NEW i \in 1..Len(loop'[k].batch)
               PROVE  LET t == loop'[k].batch[i] IN
                      /\ t.conn < nextConn' /\ t.conn \in loop'[k].held
                      /\ t.op # "remove" => conn'[t.conn].loop = k
                      /\ t.op = "establish" =>
                           \/ t.conn \in connections'
                           \/ Follows(loop'[k].batch, i, Destroy(t.conn))
                           \/ Occurs(loop'[k].pending, Destroy(t.conn))
    BY DEF BatchOrdered
  <2> DEFINE t == loop'[k].batch[i]
  <2>1. PICK n \in 1..Len(loop[k].batch) :
          /\ loop[k].batch[n] = t
          /\ \A x : Follows(loop[k].batch, n, x) => Follows(loop'[k].batch, i, x)
    <3>1. CASE loop'[k].batch = loop[k].batch
      BY <3>1
    <3>2. CASE Taken(k)
      <4> DEFINE q == loop[k].batch
      <4>1. q \in Seq(Tasks) /\ q # << >> /\ loop'[k].batch = Tail(q)
        BY <3>2, <1>1 DEF Taken
      <4> HIDE DEF q
      <4>2. /\ i + 1 \in 1..Len(q) /\ Tail(q)[i] = q[i + 1]
            /\ \A x : Follows(q, i + 1, x) => Follows(Tail(q), i, x)
        BY <4>1, TailQueue
      <4>3. q[i + 1] = t
        BY <4>1, <4>2
      <4>4. \E n \in 1..Len(q) :
              /\ q[n] = t
              /\ \A x : Follows(q, n, x) => Follows(loop'[k].batch, i, x)
        BY <4>1, <4>2, <4>3
      <4> QED BY <4>4 DEF q
    <3>3. loop'[k].batch = loop[k].batch \/ Taken(k)
      BY DEF BatchesMove
    <3> QED BY <3>1, <3>2, <3>3
  <2>2. /\ t.conn \in Conns /\ t.conn < nextConn /\ (t.op # "remove" => conn[t.conn].loop = k)
        /\ t.conn \in loop[k].held
        /\ t.op = "establish" => \/ t.conn \in connections
                                 \/ Follows(loop[k].batch, n, Destroy(t.conn))
                                 \/ Occurs(loop[k].pending, Destroy(t.conn))
    <3> DEFINE u == loop[k].batch[n]
    <3>1. u.conn \in Conns
      BY QueueTypes DEF ServerInv
    <3>2. /\ u.conn < nextConn /\ (u.op # "remove" => conn[u.conn].loop = k)
          /\ u.conn \in loop[k].held
          /\ u.op = "establish" => \/ u.conn \in connections
                                   \/ Follows(loop[k].batch, n, Destroy(u.conn))
                                   \/ Occurs(loop[k].pending, Destroy(u.conn))
      BY DEF ServerInv, BatchOrdered
    <3>3. u = t
      BY <2>1
    <3> HIDE DEF u, t
    <3> QED BY <3>1, <3>2, <3>3
  <2> HIDE DEF t
  <2>3. t.conn < nextConn' /\ (t.op # "remove" => conn'[t.conn].loop = k)
    <3>1. t.conn < nextConn'
      BY <2>2, <1>2
    <3> QED BY <2>2, <3>1 DEF SameHomes
  <2>4. t.op = "establish" /\ t.conn \in connections /\ t.conn \notin connections' =>
          Occurs(loop'[k].pending, Destroy(t.conn))
    BY <2>2, <1>6
  <2>5. t.conn \in loop'[k].held
    BY <2>2 DEF HeldStays
  <2>6. t.op = "establish" =>
          \/ t.conn \in connections'
          \/ Follows(loop'[k].batch, i, Destroy(t.conn))
          \/ Occurs(loop'[k].pending, Destroy(t.conn))
    BY <2>1, <2>2, <2>4, <1>4
  <2> QED BY <2>3, <2>5, <2>6 DEF t
<1> QED BY <1>3, <1>7, <1>8, <1>9

(* A channel that is registered with a loop is one of the loop's, and      *)
(* known to stay.                                                          *)
LEMMA EntryAdded ==
  ASSUME ServerInv, SameHomes, NEW l \in Loops, NEW c \in Conns,
         channelMap' = channelMap
           \/ channelMap' = [channelMap EXCEPT ![l][conn[c].fd] = c],
         Belongs(l, c), Kept(l, c)',
         \A k \in Loops : \A d : Belongs(k, d) => Belongs(k, d)',
         \A k \in Loops : \A d : Belongs(k, d) /\ Kept(k, d) => Kept(k, d)'
  PROVE  channelMap' \in [Loops -> [Fds -> Conns \cup {Nobody}]] /\ EntriesKept'
<1>1. channelMap \in [Loops -> [Fds -> Conns \cup {Nobody}]]
  BY DEF ServerInv, Shapes
<1>2. channelMap' \in [Loops -> [Fds -> Conns \cup {Nobody}]]
  BY <1>1
<1>3. ASSUME NEW k \in Loops, NEW f \in Fds
      PROVE  \/ channelMap'[k][f] = channelMap[k][f]
             \/ channelMap'[k][f] = c /\ k = l /\ f = conn[c].fd
  BY <1>1
<1>4. ASSUME NEW k \in Loops, NEW f \in Fds, NEW d, d = channelMap'[k][f], d # Nobody
      PROVE  Belongs(k, d)' /\ conn'[d].fd = f /\ Kept(k, d)'
  <2>1. CASE d = channelMap[k][f]
    <3>1. Belongs(k, d) /\ conn[d].fd = f /\ Kept(k, d)
      BY <1>4, <2>1 DEF ServerInv, EntriesKept
    <3>2. conn'[d].fd = f
      BY <3>1 DEF Belongs, SameHomes
    <3> QED BY <3>1, <3>2
  <2>2. CASE d = c /\ k = l /\ f = conn[c].fd
    <3>1. conn'[c].fd = conn[c].fd
      BY DEF Belongs, SameHomes
    <3> QED BY <2>2, <3>1
  <2> QED BY <2>1, <2>2, <1>3, <1>4
<1>5. EntriesKept'
  BY <1>4 DEF EntriesKept, Belongs, Kept, Destroying
<1> QED BY <1>2, <1>5

(* What the handlers do to a connection keeps its loop and descriptor.     *)
SameHome(r, s) ==
  {"loop", "fd"} \subseteq DOMAIN s /\ s.loop = r.loop /\ s.fd = r.fd

LEMMA CalledHome ==
  ASSUME NEW r, {"loop", "fd"} \subseteq DOMAIN r,
         NEW rest \in BOOLEAN, NEW asked \in BOOLEAN
  PROVE  SameHome(r, Called(r, rest, asked))
<1> DEFINE s == Sent(r, rest)
<1>1. SameHome(r, s)
  BY DEF Sent, SameHome
<1>2. Called(r, rest, asked) = Shutdown(s, asked)
  BY DEF Called
<1> HIDE DEF s
<1> QED BY <1>1, <1>2 DEF Shutdown, SameHome

LEMMA EstablishedHome ==
  ASSUME NEW r, {"loop", "fd"} \subseteq DOMAIN r,
         NEW rest \in BOOLEAN, NEW asked \in BOOLEAN
  PROVE  SameHome(r, Established(r, rest, asked))
<1> DEFINE s == [r EXCEPT !.state = "connected", !.event = @ \cup {"in"}]
<1>1. SameHome(r, s)
  BY DEF SameHome
<1>2. Established(r, rest, asked) = Called(s, rest, asked)
  BY DEF Established
<1> HIDE DEF s
<1>3. SameHome(s, Called(s, rest, asked))
  BY <1>1, CalledHome DEF SameHome
<1> QED BY <1>1, <1>2, <1>3 DEF SameHome

LEMMA ReadHome ==
  ASSUME NEW r, {"loop", "fd"} \subseteq DOMAIN r,
         NEW rest \in BOOLEAN, NEW asked \in BOOLEAN
  PROVE  /\ SameHome(r, Read(r, rest, asked))
         /\ SameHome(r, Written(Read(r, rest, asked)))
<1> DEFINE s == Called(r, rest, asked)
           t == Read(r, rest, asked)
<1>1. SameHome(r, s)
  BY CalledHome
<1>2. t = r \/ t = [s EXCEPT !.data = FALSE]
  BY DEF Read
<1> HIDE DEF s, t
<1>3. SameHome(r, t)
  BY <1>1, <1>2 DEF SameHome
<1>4. SameHome(r, Written(t))
  BY <1>3 DEF Written, SameHome
<1> QED BY <1>3, <1>4 DEF t

LEMMA HandleDataHomes ==
  ASSUME ServerInv, NEW l \in Loops, NEW c \in Conns, HandleData(l, c)
  PROVE  HomesKept
<1>1. PICK rest \in BOOLEAN, asked \in BOOLEAN, emptied \in BOOLEAN :
        conn' = [conn EXCEPT ![c] =
                   IF "out" \in Read(conn[c], rest, asked).event /\ emptied
                   THEN Written(Read(conn[c], rest, asked))
                   ELSE Read(conn[c], rest, asked)]
  <2>1. \E rest, asked, emptied \in BOOLEAN :
          conn' = [conn EXCEPT ![c] = Handled(conn[c], rest, asked, emptied)]
    BY Zenon DEF HandleData
  <2> QED BY <2>1, Zenon DEF Handled
<1>2. /\ SameHome(conn[c], Read(conn[c], rest, asked))
      /\ SameHome(conn[c], Written(Read(conn[c], rest, asked)))
  BY ReadHome DEF ServerInv, Shapes
<1> DEFINE s == IF "out" \in Read(conn[c], rest, asked).event /\ emptied
                THEN Written(Read(conn[c], rest, asked))
                ELSE Read(conn[c], rest, asked)
<1>3. SameHome(conn[c], s) /\ conn' = [conn EXCEPT ![c] = s]
  BY <1>1, <1>2
<1> HIDE DEF s
<1> QED BY <1>3 DEF SameHome, HomesKept, ServerInv, Shapes

LEMMA HandleDataStep ==
  ASSUME ServerInv, NEW l \in Loops, NEW c \in Conns, c \in loop[l].fired, HandleData(l, c)
  PROVE  ServerInv'
<1>1. loop \in [Loops -> LoopRecord] /\ loop' = [loop EXCEPT ![l].fired = @ \ {c}]
  BY DEF ServerInv, Shapes, HandleData
<1>2. HomesKept
  BY HandleDataHomes
<1>3. /\ loop' \in [Loops -> LoopRecord]
      /\ \A k \in Loops :
           /\ loop'[k].batch = loop[k].batch /\ loop'[k].pending = loop[k].pending
           /\ loop'[k].held = loop[k].held /\ loop'[k].place = loop[k].place
           /\ loop'[k].dying = loop[k].dying
           /\ loop'[k].fired = IF k = l THEN loop[k].fired \ {c} ELSE loop[k].fired
  BY <1>1 DEF LoopRecord
<1>4. /\ channelMap' = channelMap \/ channelMap' = [channelMap EXCEPT ![l][conn[c].fd] = c]
      /\ UNCHANGED <<threads, next, nextConn, backlog, connections>>
  BY DEF HandleData, UpdateEvent
<1>5. Belongs(l, c) /\ Kept(l, c)
  BY ServerBounds DEF ServerInv, FiredKept, Acceptor, Conns
<1>6. SameQueues /\ SameHomes
  BY <1>2, <1>3, HomesAreSame DEF SameQueues
<1>7. /\ PendingOrdered' /\ BatchOrdered'
      /\ \A k \in Loops : \A d : Belongs(k, d) => Belongs(k, d)'
      /\ \A k \in Loops : \A d : Kept(k, d) => Kept(k, d)'
  BY <1>3, <1>4, <1>6, QuietStep
<1>8. FiredKept'
  BY <1>3, <1>7 DEF ServerInv, FiredKept
<1>9. Kept(l, c)'
  BY <1>5, <1>7
<1>10. EntriesKept' /\ channelMap' \in [Loops -> [Fds -> Conns \cup {Nobody}]]
  BY <1>4, <1>5, <1>6, <1>7, <1>9, EntryAdded
<1>11. Shapes'
  <2>1. Base \in Loops
    BY ServerBounds DEF Base, Loops
  <2> QED BY <1>2, <1>3, <1>4, <1>10, <2>1, SettledShapes
<1>12. Phases'
  BY <1>3 DEF ServerInv, Phases
<1> QED BY <1>7, <1>8, <1>10, <1>11, <1>12 DEF ServerInv

LEMMA SwapBatchStep ==
  ASSUME ServerInv, NEW l \in Loops, SwapBatch(l)
  PROVE  ServerInv'
<1> DEFINE p == loop[l].pending
           h == {t.conn : t \in ToSet(p)}
<1>1. loop \in [Loops -> LoopRecord] /\ HomesKept
  BY DEF ServerInv, Shapes, SwapBatch, HomesKept
<1>2. /\ p \in Seq(Tasks) /\ loop[l].place = "events" /\ loop[l].fired = {}
      /\ loop[l].batch = << >> /\ loop[l].dying = {}
  BY QueueTypes DEF ServerInv, Phases, SwapBatch
<1>3. \A i \in 1..Len(p) : p[i].conn \in h
  BY DEF ToSet
<1>4. h \subseteq Conns
  <2> SUFFICES ASSUME NEW t \in ToSet(p) PROVE t.conn \in Conns
    OBVIOUS
  <2>1. t \in Tasks
    <3> HIDE DEF p
    <3> QED BY <1>2 DEF ToSet
  <2> QED BY <2>1 DEF Tasks
<1>5. loop' = [loop EXCEPT ![l].place = "batch", ![l].batch = p,
                           ![l].pending = << >>, ![l].held = h]
  BY DEF SwapBatch
<1> HIDE DEF h, p
<1>6. loop' \in [Loops -> LoopRecord]
  <2>1. << >> \in Seq(Tasks)
    OBVIOUS
  <2> DEFINE q == [loop EXCEPT ![l].place = "batch", ![l].batch = p]
  <2>2. q \in [Loops -> LoopRecord]
    BY <1>1, <1>2 DEF LoopRecord
  <2>3. loop' = [q EXCEPT ![l].pending = << >>, ![l].held = h]
    BY <1>5
  <2> HIDE DEF q
  <2> QED BY <1>4, <2>1, <2>2, <2>3 DEF LoopRecord
<1>7. \A k \in Loops :
        /\ loop'[k].fired = loop[k].fired /\ loop'[k].dying = loop[k].dying
        /\ k # l => /\ loop'[k].batch = loop[k].batch /\ loop'[k].pending = loop[k].pending
                    /\ loop'[k].held = loop[k].held /\ loop'[k].place = loop[k].place
  BY <1>1, <1>5 DEF LoopRecord
<1>8. /\ loop'[l].batch = p /\ loop'[l].pending = << >>
      /\ loop'[l].held = h /\ loop'[l].place = "batch"
  BY <1>1, <1>5 DEF LoopRecord
<1>9. UNCHANGED <<threads, next, backlog, nextConn, connections, conn, channelMap>>
  BY DEF SwapBatch
<1>10. Shapes'
  <2>1. Base \in Loops
    BY ServerBounds DEF Base, Loops
  <2>2. /\ channelMap' \in [Loops -> [Fds -> Conns \cup {Nobody}]]
        /\ connections' \subseteq connections
    BY <1>9 DEF ServerInv, Shapes
  <2>3. loop'[Base].fired \subseteq loop[Base].fired
    BY <2>1, <1>7
  <2> QED BY <1>1, <1>6, <1>9, <2>2, <2>3, SettledShapes
<1>11. Phases'
  BY <1>2, <1>7, <1>8 DEF ServerInv, Phases
<1>12. SameHomes
  BY <1>1, HomesAreSame
<1>13. \A k \in Loops : \A c : Belongs(k, c) => Belongs(k, c)'
  BY <1>9 DEF Belongs
<1>14. \A k \in Loops : \A c : Kept(k, c) => Kept(k, c)'
  <2>1. \A c : Occurs(loop[l].batch, Destroy(c)) => FALSE
    BY <1>2 DEF Occurs
  <2>2. \A c : Destroying(l, c) => Destroying(l, c)'
    BY <2>1, <1>8 DEF Destroying, p
  <2>3. \A k \in Loops : \A c : k # l /\ Destroying(k, c) => Destroying(k, c)'
    BY <1>7 DEF Destroying
  <2> QED BY <2>2, <2>3, <1>9 DEF Kept
<1>15. EntriesKept'
  BY <1>9, <1>12, <1>13, <1>14, EntriesStay
<1>16. FiredKept'
  BY <1>7, <1>13, <1>14 DEF ServerInv, FiredKept
<1>17. PendingOrdered'
  <2> SUFFICES ASSUME NEW k \in Loops, NEW i \in 1..Len(loop'[k].pending)
               PROVE  LET t == loop'[k].pending[i] IN
                      /\ t.conn < nextConn'
                      /\ t.op # "remove" => conn'[t.conn].loop = k
                      /\ t.op = "establish" =>
                           t.conn \in connections' \/ Follows(loop'[k].pending, i, Destroy(t.conn))
    BY DEF PendingOrdered
  <2>1. CASE k = l
    BY <2>1, <1>8
  <2>2. CASE k # l
    BY <2>2, <1>7, <1>9 DEF ServerInv, PendingOrdered
  <2> QED BY <2>1, <2>2
<1>18. BatchOrdered'
  <2> SUFFICES ASSUME NEW k \in Loops, NEW i \in 1..Len(loop'[k].batch)
               PROVE  LET t == loop'[k].batch[i] IN
                      /\ t.conn < nextConn' /\ t.conn \in loop'[k].held
                      /\ t.op # "remove" => conn'[t.conn].loop = k
                      /\ t.op = "establish" =>
                           \/ t.conn \in connections'
                           \/ Follows(loop'[k].batch, i, Destroy(t.conn))
                           \/ Occurs(loop'[k].pending, Destroy(t.conn))
    BY DEF BatchOrdered
  <2>1. CASE k = l
    <3>1. i \in 1..Len(p)
      BY <2>1, <1>8
    <3>2. /\ p[i].conn < nextConn
          /\ p[i].op # "remove" => conn[p[i].conn].loop = l
          /\ p[i].op = "establish" =>
               p[i].conn \in connections \/ Follows(p, i, Destroy(p[i].conn))
      BY <3>1 DEF ServerInv, PendingOrdered, p
    <3> QED BY <2>1, <3>1, <3>2, <1>3, <1>8, <1>9
  <2>2. CASE k # l
    BY <2>2, <1>7, <1>9 DEF ServerInv, BatchOrdered
  <2> QED BY <2>1, <2>2
<1> QED BY <1>10, <1>11, <1>15, <1>16, <1>17, <1>18 DEF ServerInv

(* The fields that the steps below leave alone.                            *)
RestStays == \A k \in Loops : /\ loop'[k].held = loop[k].held
                              /\ loop'[k].dying = loop[k].dying
                              /\ loop'[k].place = loop[k].place
                              /\ loop'[k].fired \subseteq loop[k].fired

(* The place of a loop whose batch is not empty.                           *)
LEMMA InBatch ==
  ASSUME ServerInv, NEW l \in Loops, loop[l].batch # << >>
  PROVE  loop[l].place = "batch" /\ loop[l].fired = {}
BY DEF ServerInv, Phases

LEMMA NotTaken ==
  ASSUME ServerInv, NEW k \in Loops, loop'[k].batch = loop[k].batch
  PROVE  ~Taken(k)
<1> DEFINE b == loop[k].batch
<1>1. b \in Seq(Tasks)
  BY QueueTypes DEF ServerInv
<1> HIDE DEF b
<1>2. b # << >> => Tail(b) # b
  <2>1. b # << >> => Len(Tail(b)) = Len(b) - 1 /\ Len(b) \in Nat
    BY <1>1
  <2> QED BY <2>1
<1> QED BY <1>2 DEF Taken, b

LEMMA RestPhases ==
  ASSUME ServerInv, RestStays, BatchesMove
  PROVE  Phases'
<1> SUFFICES ASSUME NEW k \in Loops
             PROVE  /\ loop'[k].place # "batch" => loop'[k].batch = << >>
                    /\ loop'[k].place # "events" => loop'[k].fired = {}
                    /\ loop'[k].place # "release" => loop'[k].dying = {}
  BY DEF Phases
<1>1. /\ loop[k].place # "batch" => loop[k].batch = << >>
      /\ loop[k].place # "events" => loop[k].fired = {}
      /\ loop[k].place # "release" => loop[k].dying = {}
  BY DEF ServerInv, Phases
<1>2. /\ loop'[k].dying = loop[k].dying /\ loop'[k].place = loop[k].place
      /\ loop'[k].fired \subseteq loop[k].fired
  BY DEF RestStays
<1>3. loop[k].batch = << >> => loop'[k].batch = << >>
  BY DEF BatchesMove, Taken
<1> QED BY <1>1, <1>2, <1>3

LEMMA RestShapes ==
  ASSUME ServerInv, HomesKept, RestStays, UNCHANGED <<threads, next, nextConn, backlog>>,
         loop' \in [Loops -> LoopRecord], connections' \subseteq connections,
         channelMap' \in [Loops -> [Fds -> Conns \cup {Nobody}]]
  PROVE  Shapes'
<1>1. Base \in Loops
  BY ServerBounds DEF Base, Loops
<1>2. loop'[Base].fired \subseteq loop[Base].fired
  BY <1>1 DEF RestStays
<1> QED BY <1>2, SettledShapes

LEMMA SameNumbers ==
  ASSUME ServerInv, nextConn' = nextConn
  PROVE  NumbersGrow
BY DEF ServerInv, Shapes, NumbersGrow

(* The functor at the head of the batch of l is known to the queue.        *)
LEMMA HeadKnown ==
  ASSUME ServerInv, NEW l \in Loops, NEW op, Takes(l, op)
  PROVE  LET c == Head(loop[l].batch).conn IN
         /\ Head(loop[l].batch) = Task(op, c) /\ c \in Conns /\ c < nextConn
         /\ op # "remove" => Belongs(l, c)
         /\ op = "establish" => \/ c \in connections
                                \/ Occurs(Tail(loop[l].batch), Destroy(c))
                                \/ Occurs(loop[l].pending, Destroy(c))
<1> DEFINE b == loop[l].batch
<1>1. b \in Seq(Tasks) /\ b # << >> /\ Head(b).op = op
  BY QueueTypes DEF ServerInv, Takes
<1> HIDE DEF b
<1>2. /\ Head(b) \in Tasks /\ Head(b) = b[1] /\ 1 \in 1..Len(b)
      /\ \A t : Follows(b, 1, t) => Occurs(Tail(b), t)
  BY <1>1, TailQueue
<1>3. Head(b) = Task(op, Head(b).conn) /\ Head(b).conn \in Conns
  BY <1>1, <1>2 DEF Tasks, Task
<1>4. /\ b[1].conn < nextConn
      /\ b[1].op # "remove" => conn[b[1].conn].loop = l
      /\ b[1].op = "establish" => \/ b[1].conn \in connections
                                  \/ Follows(b, 1, Destroy(b[1].conn))
                                  \/ Occurs(loop[l].pending, Destroy(b[1].conn))
  BY <1>2 DEF ServerInv, BatchOrdered, b
<1> QED BY <1>1, <1>2, <1>3, <1>4 DEF Belongs, b

LEMMA RemoveConnectionStep ==
  ASSUME ServerInv, NEW l \in Loops, RemoveConnection(l),
         Head(loop[l].batch).conn \in connections
  PROVE  ServerInv'
<1> DEFINE c == Head(loop[l].batch).conn
           m == conn[c].loop
           q == Popped(l)
<1>1. /\ Takes(l, "remove") /\ loop' = [q EXCEPT ![m].pending = Append(@, Destroy(c))]
      /\ connections' = connections \ {c}
      /\ UNCHANGED <<threads, next, backlog, nextConn, conn, channelMap>>
  BY DEF RemoveConnection, Removed, Destroy
<1>2. c \in Conns /\ m \in Loops /\ Destroy(c) \in Tasks /\ c < nextConn
      /\ Head(loop[l].batch) = Task("remove", c)
  <2>1. c \in Conns /\ Head(loop[l].batch) = Task("remove", c) /\ c < nextConn
    BY <1>1, HeadKnown
  <2> HIDE DEF c
  <2> QED BY <2>1 DEF ServerInv, Shapes, Destroy, Task, Tasks
<1>3. loop \in [Loops -> LoopRecord] /\ loop[l].batch # << >> /\ HomesKept
  BY <1>1 DEF ServerInv, Shapes, Takes, HomesKept
<1>4. /\ q \in [Loops -> LoopRecord]
      /\ \A k \in Loops :
           /\ q[k].batch = IF k = l THEN Tail(loop[k].batch) ELSE loop[k].batch
           /\ q[k].held = loop[k].held /\ q[k].place = loop[k].place
           /\ q[k].dying = loop[k].dying
           /\ q[k].fired = loop[k].fired /\ q[k].pending = loop[k].pending
  BY <1>3, BatchField DEF Popped
<1> HIDE DEF q, c, m
<1>5. /\ loop' \in [Loops -> LoopRecord]
      /\ \A k \in Loops :
           /\ loop'[k].pending = IF k = m THEN Append(q[k].pending, Destroy(c)) ELSE q[k].pending
           /\ loop'[k].held = q[k].held /\ loop'[k].place = q[k].place
           /\ loop'[k].dying = q[k].dying
           /\ loop'[k].fired = q[k].fired /\ loop'[k].batch = q[k].batch
  BY <1>1, <1>2, <1>4, PendingField
<1>6. RestStays /\ HeldStays
  BY <1>4, <1>5 DEF RestStays, HeldStays
<1>7. BatchesMove
  BY <1>3, <1>4, <1>5 DEF BatchesMove, Taken
<1>8. Queued(m, Destroy(c))
  <2>1. Destroy(c).conn = c /\ Destroy(c).op = "destroy"
    BY DEF Destroy, Task
  <2> QED BY <1>1, <1>2, <1>4, <1>5, <2>1 DEF Queued, m
<1>9. PendingsMove
  BY <1>2, <1>4, <1>5, <1>8 DEF PendingsMove
<1>10. MapMove
  BY <1>1, <1>8 DEF MapMove, m
<1>11. SameHomes /\ NumbersGrow
  BY <1>1, <1>3, HomesAreSame, SameNumbers
<1>12. /\ PendingOrdered' /\ BatchOrdered'
       /\ \A k \in Loops : \A d : Belongs(k, d) => Belongs(k, d)'
       /\ \A k \in Loops : \A d : Belongs(k, d) /\ Kept(k, d) =>
            Kept(k, d)' \/ (Taken(k) /\ Head(loop[k].batch) = Destroy(d))
  BY <1>6, <1>7, <1>9, <1>10, <1>11, QueueStep
<1>13. \A k \in Loops : \A d : Belongs(k, d) /\ Kept(k, d) => Kept(k, d)'
  <2>1. \A k \in Loops : \A d : ~(Taken(k) /\ Head(loop[k].batch) = Destroy(d))
    <3>1. \A d : Task("remove", c) # Destroy(d)
      BY DEF Task, Destroy
    <3> SUFFICES ASSUME NEW k \in Loops, NEW d, Taken(k), Head(loop[k].batch) = Destroy(d)
                 PROVE  FALSE
      OBVIOUS
    <3>2. CASE k = l
      BY <3>1, <3>2, <1>2
    <3>3. CASE k # l
      BY <3>3, <1>4, <1>5, NotTaken
    <3> QED BY <3>2, <3>3
  <2> QED BY <1>12, <2>1
<1>14. FiredKept'
  BY <1>6, <1>12, <1>13 DEF ServerInv, FiredKept, RestStays
<1>15. EntriesKept'
  BY <1>1, <1>11, <1>12, <1>13, EntriesStay
<1>16. Shapes' /\ Phases'
  <2>1. /\ channelMap' \in [Loops -> [Fds -> Conns \cup {Nobody}]]
        /\ connections' \subseteq connections
    BY <1>1 DEF ServerInv, Shapes
  <2> QED BY <1>1, <1>3, <1>5, <1>6, <1>7, <2>1, RestShapes, RestPhases
<1> QED BY <1>12, <1>14, <1>15, <1>16 DEF ServerInv

(* A functor that queues nothing and leaves the map alone.                 *)
LEMMA PoppedStep ==
  ASSUME ServerInv, NEW l \in Loops, loop[l].batch # << >>, loop' = Popped(l), HomesKept,
         UNCHANGED <<threads, next, backlog, nextConn, connections>>
  PROVE  /\ loop' \in [Loops -> LoopRecord]
         /\ RestStays /\ Phases' /\ FiredKept' /\ PendingOrdered' /\ BatchOrdered' /\ SameHomes
         /\ loop'[l].batch = Tail(loop[l].batch) /\ loop'[l].pending = loop[l].pending
         /\ \A k \in Loops : \A d : Belongs(k, d) => Belongs(k, d)'
         /\ \A k \in Loops : \A d : Belongs(k, d) /\ Kept(k, d) =>
              Kept(k, d)' \/ (k = l /\ Head(loop[l].batch) = Destroy(d))
<1>1. loop \in [Loops -> LoopRecord]
  BY DEF ServerInv, Shapes
<1>2. /\ loop' \in [Loops -> LoopRecord]
      /\ \A k \in Loops :
           /\ loop'[k].batch = IF k = l THEN Tail(loop[k].batch) ELSE loop[k].batch
           /\ loop'[k].held = loop[k].held /\ loop'[k].place = loop[k].place
           /\ loop'[k].dying = loop[k].dying
           /\ loop'[k].fired = loop[k].fired /\ loop'[k].pending = loop[k].pending
  BY <1>1, BatchField DEF Popped
<1>3. RestStays /\ HeldStays /\ BatchesMove /\ PendingsMove /\ MapMove
  BY <1>2 DEF RestStays, HeldStays, BatchesMove, PendingsMove, MapMove, Taken
<1>4. SameHomes /\ NumbersGrow
  BY HomesAreSame, SameNumbers
<1>5. /\ PendingOrdered' /\ BatchOrdered'
      /\ \A k \in Loops : \A d : Belongs(k, d) => Belongs(k, d)'
      /\ \A k \in Loops : \A d : Belongs(k, d) /\ Kept(k, d) =>
           Kept(k, d)' \/ (Taken(k) /\ Head(loop[k].batch) = Destroy(d))
  BY <1>3, <1>4, QueueStep
<1>6. \A k \in Loops : Taken(k) => k = l
  BY <1>2, NotTaken
<1>7. \A k \in Loops : \A d : Belongs(k, d) /\ Kept(k, d) =>
        Kept(k, d)' \/ (k = l /\ Head(loop[l].batch) = Destroy(d))
  BY <1>5, <1>6
<1>8. FiredKept'
  <2> SUFFICES ASSUME NEW k \in Loops, NEW d \in loop'[k].fired, d # Acceptor
               PROVE  Belongs(k, d)' /\ Kept(k, d)'
    BY DEF FiredKept, Belongs, Kept, Destroying
  <2>1. d \in loop[k].fired
    BY <1>2
  <2>2. k # l
    BY <2>1, InBatch
  <2>3. Belongs(k, d) /\ Kept(k, d)
    BY <2>1 DEF ServerInv, FiredKept
  <2> QED BY <2>2, <2>3, <1>5, <1>7
<1>9. Phases'
  BY <1>3, RestPhases
<1> QED BY <1>2, <1>3, <1>4, <1>5, <1>7, <1>8, <1>9

LEMMA ConnectEstablishedStep ==
  ASSUME ServerInv, NEW l \in Loops, ConnectEstablished(l)
  PROVE  ServerInv'
<1> DEFINE c == Head(loop[l].batch).conn
<1>1. /\ Takes(l, "establish") /\ loop' = Popped(l) /\ loop[l].batch # << >>
      /\ UNCHANGED <<threads, next, backlog, nextConn, connections>>
  BY DEF ConnectEstablished, Takes
<1>2. PICK rest \in BOOLEAN, asked \in BOOLEAN :
        conn' = [conn EXCEPT ![c] = Established(conn[c], rest, asked)]
  BY DEF ConnectEstablished
<1>3. HomesKept
  <2> DEFINE s == Established(conn[c], rest, asked)
  <2>1. c \in Conns
    BY <1>1, HeadKnown
  <2>2. SameHome(conn[c], s) /\ conn' = [conn EXCEPT ![c] = s]
    BY <1>2, <2>1, EstablishedHome DEF ServerInv, Shapes
  <2> HIDE DEF s, c
  <2> QED BY <2>1, <2>2 DEF SameHome, HomesKept, ServerInv, Shapes
<1>4. channelMap' = channelMap \/ channelMap' = [channelMap EXCEPT ![l][conn[c].fd] = c]
  BY DEF ConnectEstablished, UpdateEvent
<1>5. /\ Head(loop[l].batch) = Task("establish", c) /\ c \in Conns /\ Belongs(l, c)
      /\ \/ c \in connections
         \/ Occurs(Tail(loop[l].batch), Destroy(c))
         \/ Occurs(loop[l].pending, Destroy(c))
  BY <1>1, HeadKnown
<1> HIDE DEF c
<1>6. /\ loop' \in [Loops -> LoopRecord]
      /\ RestStays /\ Phases' /\ FiredKept' /\ PendingOrdered' /\ BatchOrdered' /\ SameHomes
      /\ loop'[l].batch = Tail(loop[l].batch) /\ loop'[l].pending = loop[l].pending
      /\ \A k \in Loops : \A d : Belongs(k, d) => Belongs(k, d)'
      /\ \A k \in Loops : \A d : Belongs(k, d) /\ Kept(k, d) =>
           Kept(k, d)' \/ (k = l /\ Head(loop[l].batch) = Destroy(d))
  BY <1>1, <1>3, PoppedStep
<1>7. \A d : Head(loop[l].batch) # Destroy(d)
  BY <1>5 DEF Task, Destroy
<1>8. \A k \in Loops : \A d : Belongs(k, d) /\ Kept(k, d) => Kept(k, d)'
  BY <1>6, <1>7
<1>9. \/ c \in connections'
      \/ Occurs(loop'[l].batch, Destroy(c))
      \/ Occurs(loop'[l].pending, Destroy(c))
  BY <1>1, <1>5, <1>6
<1>10. EntriesKept' /\ channelMap' \in [Loops -> [Fds -> Conns \cup {Nobody}]]
  <2> SUFFICES ASSUME NEW e, e = c  \* so that the prime below is not of c
               PROVE  /\ EntriesKept'
                      /\ channelMap' \in [Loops -> [Fds -> Conns \cup {Nobody}]]
    OBVIOUS
  <2>1. Kept(l, e)'
    BY <1>9 DEF Kept, Destroying
  <2> QED BY <1>4, <1>5, <1>6, <1>8, <2>1, EntryAdded
<1>11. Shapes'
  BY <1>1, <1>3, <1>6, <1>10, RestShapes DEF ServerInv, Shapes
<1> QED BY <1>6, <1>10, <1>11 DEF ServerInv

LEMMA ConnectDestroyedStep ==
  ASSUME ServerInv, NEW l \in Loops, ConnectDestroyed(l)
  PROVE  ServerInv'
<1> DEFINE c == Head(loop[l].batch).conn
           f == conn[c].fd
<1>1. /\ Takes(l, "destroy") /\ loop' = Popped(l) /\ loop[l].batch # << >>
      /\ UNCHANGED <<threads, next, backlog, nextConn, connections>>
      /\ conn' = [conn EXCEPT ![c].state = "disconnected", ![c].event = {}]
      /\ channelMap' = [channelMap EXCEPT ![l][f] = Nobody]
  BY DEF ConnectDestroyed, Takes
<1>2. HomesKept
  BY <1>1 DEF ServerInv, Shapes, HomesKept
<1>3. Head(loop[l].batch) = Task("destroy", c)
  BY <1>1, HeadKnown
<1> HIDE DEF c
<1>4. /\ loop' \in [Loops -> LoopRecord]
      /\ RestStays /\ Phases' /\ FiredKept' /\ PendingOrdered' /\ BatchOrdered' /\ SameHomes
      /\ \A k \in Loops : \A d : Belongs(k, d) => Belongs(k, d)'
      /\ \A k \in Loops : \A d : Belongs(k, d) /\ Kept(k, d) =>
           Kept(k, d)' \/ (k = l /\ Head(loop[l].batch) = Destroy(d))
  BY <1>1, <1>2, PoppedStep
<1>5. \A d : Head(loop[l].batch) = Destroy(d) => d = c
  BY <1>3 DEF Task, Destroy
<1>6. channelMap \in [Loops -> [Fds -> Conns \cup {Nobody}]]
  BY DEF ServerInv, Shapes
<1>7. channelMap' \in [Loops -> [Fds -> Conns \cup {Nobody}]]
  BY <1>1, <1>6
<1>8. EntriesKept'
  <2>1. ASSUME NEW k \in Loops, NEW g \in Fds, NEW d, d = channelMap'[k][g], d # Nobody
        PROVE  Belongs(k, d)' /\ conn'[d].fd = g /\ Kept(k, d)'
    <3>1. d = channelMap[k][g] /\ (k # l \/ g # f)
      BY <1>1, <1>6, <2>1
    <3>2. Belongs(k, d) /\ conn[d].fd = g /\ Kept(k, d)
      BY <2>1, <3>1 DEF ServerInv, EntriesKept
    <3>3. k # l \/ d # c
      BY <3>1, <3>2
    <3>4. Belongs(k, d)' /\ Kept(k, d)'
      BY <3>2, <3>3, <1>4, <1>5
    <3>5. conn'[d].fd = g
      BY <3>2, <1>4 DEF SameHomes, Belongs
    <3> QED BY <3>4, <3>5
  <2> QED BY <2>1 DEF EntriesKept, Belongs, Kept, Destroying
<1>9. Shapes'
  BY <1>1, <1>2, <1>4, <1>7, RestShapes DEF ServerInv, Shapes
<1> QED BY <1>4, <1>8, <1>9 DEF ServerInv

LEMMA HandleCloseStep ==
  ASSUME ServerInv, NEW l \in Loops, NEW c \in Conns, c \in loop[l].fired, HandleClose(l, c)
  PROVE  ServerInv'
<1>1. CASE Abort
  BY <1>1, SameStep DEF Abort
<1> SUFFICES ASSUME ~Abort PROVE ServerInv'
  BY <1>1
<1> DEFINE q == [loop EXCEPT ![l].fired = @ \ {c}]
           m == Base
           t == IF l = Base THEN Destroy(c) ELSE Task("remove", c)
<1>2. /\ conn' = [conn EXCEPT ![c].event = {}]
      /\ channelMap' = channelMap \/ channelMap' = [channelMap EXCEPT ![l][conn[c].fd] = c]
      /\ connections' = IF l = Base THEN connections \ {c} ELSE connections
      /\ UNCHANGED <<threads, next, nextConn, backlog>>
  BY DEF HandleClose, UpdateEvent
<1>3. Belongs(l, c) /\ Kept(l, c)
  BY ServerBounds DEF ServerInv, FiredKept, Acceptor, Conns
<1>4. m \in Loops /\ t \in Tasks /\ (t = Destroy(c) \/ l # Base)
      /\ t.conn = c /\ (t.op = "remove" \/ l = Base) /\ t.op # "establish"
  BY ServerBounds DEF Base, Loops, Tasks, Task, Destroy
<1>5. loop' = [q EXCEPT ![m].pending = Append(@, t)]
  <2>1. CASE l = Base
    <3>1. conn[c].loop = m
      BY <1>3, <2>1 DEF Belongs
    <3> QED BY <2>1, <3>1 DEF HandleClose, Removed, Destroy
  <2>2. CASE l # Base
    BY <2>2 DEF HandleClose
  <2> QED BY <2>1, <2>2
<1>6. loop \in [Loops -> LoopRecord] /\ HomesKept
  BY <1>2 DEF ServerInv, Shapes, HomesKept
<1>7. /\ q \in [Loops -> LoopRecord]
      /\ \A k \in Loops :
           /\ q[k].batch = loop[k].batch /\ q[k].pending = loop[k].pending
           /\ q[k].held = loop[k].held /\ q[k].place = loop[k].place
           /\ q[k].dying = loop[k].dying
           /\ q[k].fired = IF k = l THEN loop[k].fired \ {c} ELSE loop[k].fired
  BY <1>6 DEF LoopRecord
<1> HIDE DEF q, t, m
<1>8. /\ loop' \in [Loops -> LoopRecord]
      /\ \A k \in Loops :
           /\ loop'[k].pending = IF k = m THEN Append(q[k].pending, t) ELSE q[k].pending
           /\ loop'[k].held = q[k].held /\ loop'[k].place = q[k].place
           /\ loop'[k].dying = q[k].dying
           /\ loop'[k].fired = q[k].fired /\ loop'[k].batch = q[k].batch
  BY <1>4, <1>5, <1>7, PendingField
<1>9. RestStays /\ HeldStays /\ BatchesMove
  BY <1>7, <1>8 DEF RestStays, HeldStays, BatchesMove
<1>10. Queued(m, t)
  <2>1. conn'[c].loop = l /\ c < nextConn'
    BY <1>2, <1>3, <1>6 DEF HomesKept, Belongs
  <2> QED BY <1>4, <1>7, <1>8, <2>1 DEF Queued, m
<1>11. PendingsMove
  BY <1>4, <1>7, <1>8, <1>10 DEF PendingsMove
<1>12. MapMove
  <2> SUFFICES ASSUME NEW d \in connections, d \notin connections'
               PROVE  Queued(conn[d].loop, Destroy(d))
    BY DEF MapMove
  <2>1. d = c /\ l = Base
    BY <1>2
  <2>2. conn[d].loop = m /\ t = Destroy(d)
    BY <1>3, <1>4, <2>1 DEF Belongs, m
  <2> QED BY <1>10, <2>2
<1>13. SameHomes /\ NumbersGrow
  BY <1>2, <1>6, HomesAreSame, SameNumbers
<1>14. /\ PendingOrdered' /\ BatchOrdered'
       /\ \A k \in Loops : \A d : Belongs(k, d) => Belongs(k, d)'
       /\ \A k \in Loops : \A d : Belongs(k, d) /\ Kept(k, d) =>
            Kept(k, d)' \/ (Taken(k) /\ Head(loop[k].batch) = Destroy(d))
  BY <1>9, <1>11, <1>12, <1>13, QueueStep
<1>15. \A k \in Loops : ~Taken(k)
  BY <1>7, <1>8, NotTaken
<1>16. \A k \in Loops : \A d : Belongs(k, d) /\ Kept(k, d) => Kept(k, d)'
  BY <1>14, <1>15
<1>17. FiredKept'
  BY <1>9, <1>14, <1>16 DEF ServerInv, FiredKept, RestStays
<1>18. EntriesKept' /\ channelMap' \in [Loops -> [Fds -> Conns \cup {Nobody}]]
  BY <1>2, <1>3, <1>13, <1>14, <1>16, EntryAdded
<1>19. Shapes'
  <2>1. connections' \subseteq connections
    BY <1>2
  <2> QED BY <1>2, <1>6, <1>8, <1>9, <1>18, <2>1, RestShapes
<1>20. Phases'
  BY <1>9, RestPhases
<1> QED BY <1>14, <1>17, <1>18, <1>19, <1>20 DEF ServerInv

(* getNextLoop() returns a loop of the pool, or the base loop.             *)
LEMMA RoundRobin ==
  ASSUME Shapes
  PROVE  /\ NextLoop \in Loops
         /\ threads # 0 => (next + 1) % threads \in Nat /\ (next + 1) % threads < threads
<1>1. threads \in Nat /\ next \in Nat /\ (threads = 0 \/ next < threads) /\ MaxThreads \in Nat
      /\ threads <= MaxThreads
  BY ServerBounds DEF Shapes
<1>2. NextLoop \in Loops
  BY <1>1 DEF NextLoop, Loops, Base
<1>3. \A a \in Nat, b \in Nat \ {0} : a % b \in Nat /\ a % b < b
  OBVIOUS
<1> QED BY <1>1, <1>2, <1>3

LEMMA NewConnectionStep ==
  ASSUME ServerInv, Acceptor \in loop[Base].fired,
         NEW rest \in BOOLEAN, NEW asked \in BOOLEAN,
         NewConnection(nextConn, rest, asked), backlog' = backlog - 1, threads' = threads
  PROVE  ServerInv'
<1> DEFINE c == nextConn
           f == CHOOSE x \in FreeFds : \A y \in FreeFds : x <= y
           l == NextLoop
           born == [Unborn EXCEPT !.state = "connecting", !.loop = l, !.fd = f]
           made == IF l = Base THEN Established(born, rest, asked) ELSE born
           q == [loop EXCEPT ![Base].fired = @ \ {Acceptor}]
           t == Task("establish", c)
<1>1. /\ nextConn' = c + 1 /\ next' = IF threads = 0 THEN next ELSE (next + 1) % threads
      /\ connections' = connections \cup {c}
      /\ conn' = [conn EXCEPT ![c] = made]
      /\ \/ channelMap' = channelMap
         \/ l = Base /\ channelMap' = [channelMap EXCEPT ![l][f] = IF @ = Nobody THEN c ELSE @]
      /\ loop' = q \/ loop' = [q EXCEPT ![l].pending = Append(@, t)]
  <2>1. CASE l = Base
    BY <2>1 DEF NewConnection
  <2>2. CASE l # Base
    BY <2>2 DEF NewConnection
  <2> QED BY <2>1, <2>2
<1>2. made.loop = l /\ made.fd = f /\ {"loop", "fd"} \subseteq DOMAIN made
  <2>1. born.loop = l /\ born.fd = f /\ {"loop", "fd"} \subseteq DOMAIN born
    BY DEF Unborn
  <2> HIDE DEF born, l, f
  <2>2. SameHome(born, Established(born, rest, asked))
    BY <2>1, EstablishedHome
  <2> QED BY <2>1, <2>2 DEF SameHome
<1>3. c \in Conns /\ c \in Nat /\ backlog' \in Nat /\ c + 1 + backlog' <= MaxConns + 1
  BY ServerBounds DEF ServerInv, Shapes, Conns
<1>4. l \in Loops /\ Base \in Loops
  BY RoundRobin, ServerBounds DEF ServerInv, Base, Loops
<1>5. t \in Tasks /\ t.conn = c /\ t.op = "establish"
  BY <1>3 DEF Task, Tasks
<1>6. loop \in [Loops -> LoopRecord] /\ DOMAIN conn = Conns
      /\ channelMap \in [Loops -> [Fds -> Conns \cup {Nobody}]]
      /\ connections \subseteq Conns
  BY DEF ServerInv, Shapes
<1>7. /\ q \in [Loops -> LoopRecord]
      /\ \A k \in Loops :
           /\ q[k].batch = loop[k].batch /\ q[k].pending = loop[k].pending
           /\ q[k].held = loop[k].held /\ q[k].place = loop[k].place
           /\ q[k].dying = loop[k].dying
           /\ q[k].fired = IF k = Base THEN loop[k].fired \ {Acceptor} ELSE loop[k].fired
  <2>1. q \in [Loops -> LoopRecord]
    <3>1. loop[Base].fired \ {Acceptor} \in SUBSET (Conns \cup {Acceptor})
      BY <1>4, <1>6 DEF LoopRecord
    <3> QED BY <1>4, <1>6, <3>1, FiredTyped
  <2>2. \A k \in Loops :
          /\ q[k].batch = loop[k].batch /\ q[k].pending = loop[k].pending
          /\ q[k].held = loop[k].held /\ q[k].place = loop[k].place
          /\ q[k].dying = loop[k].dying
          /\ q[k].fired = IF k = Base THEN loop[k].fired \ {Acceptor} ELSE loop[k].fired
    BY <1>4, <1>6 DEF LoopRecord
  <2> QED BY <2>1, <2>2
<1>8. threads # 0 => (next + 1) % threads \in Nat /\ (next + 1) % threads < threads
  BY RoundRobin DEF ServerInv
<1> HIDE DEF q, t, c, f, l, made
<1>9. /\ loop' \in [Loops -> LoopRecord]
      /\ \A k \in Loops :
           /\ \/ loop'[k].pending = q[k].pending
              \/ k = l /\ loop'[k].pending = Append(q[k].pending, t)
           /\ loop'[k].held = q[k].held /\ loop'[k].place = q[k].place
           /\ loop'[k].dying = q[k].dying
           /\ loop'[k].fired = q[k].fired /\ loop'[k].batch = q[k].batch
  <2>1. CASE loop' = q
    BY <2>1, <1>7
  <2>2. CASE loop' = [q EXCEPT ![l].pending = Append(@, t)]
    BY <2>2, <1>4, <1>5, <1>7, PendingField
  <2> QED BY <2>1, <2>2, <1>1
<1>10. conn'[c].loop = l /\ conn'[c].fd = f /\ c \in connections' /\ c < nextConn'
  BY <1>1, <1>2, <1>3, <1>6
<1>11. SameHomes
  <2>1. \A d \in Conns : d < nextConn => d # c
    BY <1>3 DEF c, Conns
  <2> QED BY <2>1, <1>1, <1>6 DEF SameHomes
<1>12. NumbersGrow
  BY <1>1, <1>3 DEF NumbersGrow, c
<1>13. RestStays /\ HeldStays /\ BatchesMove
  <2>1. \A k \in Loops :
          /\ loop'[k].held = loop[k].held /\ loop'[k].place = loop[k].place
          /\ loop'[k].dying = loop[k].dying /\ loop'[k].batch = loop[k].batch
          /\ loop'[k].fired = IF k = Base THEN loop[k].fired \ {Acceptor} ELSE loop[k].fired
    BY <1>7, <1>9
  <2>2. RestStays
    BY <2>1, <1>9 DEF RestStays
  <2>3. HeldStays /\ BatchesMove
    BY <2>1 DEF HeldStays, BatchesMove
  <2> QED BY <2>2, <2>3
<1>14. PendingsMove
  <2> SUFFICES ASSUME NEW k \in Loops, loop'[k].pending # loop[k].pending
               PROVE  Queued(k, t)
    BY <1>5 DEF PendingsMove
  <2>1. k = l /\ loop'[k].pending = Append(loop[k].pending, t)
    BY <1>7, <1>9
  <2> QED BY <2>1, <1>5, <1>10 DEF Queued
<1>15. MapMove
  BY <1>1 DEF MapMove
<1>16. /\ PendingOrdered' /\ BatchOrdered'
       /\ \A k \in Loops : \A d : Belongs(k, d) => Belongs(k, d)'
       /\ \A k \in Loops : \A d : Belongs(k, d) /\ Kept(k, d) =>
            Kept(k, d)' \/ (Taken(k) /\ Head(loop[k].batch) = Destroy(d))
  BY <1>11, <1>12, <1>13, <1>14, <1>15, QueueStep
<1>17. \A k \in Loops : ~Taken(k)
  BY <1>7, <1>9, NotTaken
<1>18. \A k \in Loops : \A d : Belongs(k, d) /\ Kept(k, d) => Kept(k, d)'
  BY <1>16, <1>17
<1>19. FiredKept'
  BY <1>13, <1>16, <1>18 DEF ServerInv, FiredKept, RestStays
<1>20. channelMap' \in [Loops -> [Fds -> Conns \cup {Nobody}]]
  <2> DEFINE old == channelMap
             new == [old EXCEPT ![l][f] = IF @ = Nobody THEN c ELSE @]
  <2>1. new \in [Loops -> [Fds -> Conns \cup {Nobody}]]
    BY <1>3, <1>6
  <2> QED BY <1>1, <1>6, <2>1
<1>21. EntriesKept'
  <2>1. ASSUME NEW k \in Loops, NEW g \in Fds, NEW d, d = channelMap'[k][g], d # Nobody
        PROVE  Belongs(k, d)' /\ conn'[d].fd = g /\ Kept(k, d)'
    <3>1. d = channelMap[k][g] \/ (d = c /\ k = l /\ g = f)
      BY <1>1, <1>6, <2>1
    <3>2. CASE d = channelMap[k][g]
      <4>1. Belongs(k, d) /\ conn[d].fd = g /\ Kept(k, d)
        BY <2>1, <3>2 DEF ServerInv, EntriesKept
      <4>2. conn'[d].fd = g
        BY <4>1, <1>11 DEF SameHomes, Belongs
      <4> QED BY <4>1, <4>2, <1>16, <1>18
    <3>3. CASE d = c /\ k = l /\ g = f
      <4>1. d \in Conns /\ d < nextConn' /\ conn'[d].loop = k /\ d \in connections'
        BY <3>3, <1>3, <1>10
      <4>2. conn'[d].fd = g
        BY <3>3, <1>10
      <4> QED BY <4>1, <4>2 DEF Belongs, Kept
    <3> QED BY <3>1, <3>2, <3>3
  <2> QED BY <2>1 DEF EntriesKept, Belongs, Kept, Destroying
<1>22. Phases'
  BY <1>13, RestPhases
<1>23. Shapes'
  <2>1. threads \in 0..MaxThreads /\ next' \in Nat /\ (threads = 0 \/ next' < threads)
    BY <1>1, <1>8 DEF ServerInv, Shapes
  <2>2. nextConn' \in Nat \ {0} /\ nextConn' + backlog' <= MaxConns + 1
    BY <1>1, <1>3
  <2>3. Acceptor \notin loop'[Base].fired
    BY <1>4, <1>7, <1>9
  <2>4. DOMAIN conn' = Conns /\ connections' \subseteq Conns
    BY <1>1, <1>3, <1>6
  <2>5. \A d \in Conns : {"loop", "fd"} \subseteq DOMAIN conn'[d] /\ conn'[d].loop \in Loops
    BY <1>1, <1>2, <1>4, <1>6 DEF ServerInv, Shapes
  <2> QED BY <1>3, <1>9, <1>20, <2>1, <2>2, <2>3, <2>4, <2>5 DEF Shapes
<1> QED BY <1>16, <1>19, <1>21, <1>22, <1>23 DEF ServerInv

LEMMA HandleAcceptStep ==
  ASSUME ServerInv, HandleAccept
  PROVE  ServerInv'
<1>1. CASE FreeFds # {}
  BY <1>1, NewConnectionStep DEF HandleAccept
<1>2. CASE FreeFds = {}
  <2>1. Base \in Loops /\ Acceptor \in Conns \cup {Acceptor}
    BY ServerBounds DEF Base, Loops
  <2>2. /\ loop' = [loop EXCEPT ![Base].fired = @ \ {Acceptor}]
        /\ UNCHANGED <<threads, next, nextConn, backlog, connections, conn, channelMap>>
    BY <1>2 DEF HandleAccept
  <2> QED BY <2>1, <2>2, RefusedStep
<1> QED BY <1>1, <1>2

LEMMA HandleEventStep ==
  ASSUME ServerInv, NEW l \in Loops, NEW c \in Conns, HandleEvent(l, c)
  PROVE  ServerInv'
<1>1. CASE HandleClose(l, c)
  BY <1>1, HandleCloseStep DEF HandleEvent
<1>2. CASE HandleData(l, c)
  BY <1>2, HandleDataStep DEF HandleEvent
<1> QED BY <1>1, <1>2 DEF HandleEvent

LEMMA RemovalStep ==
  ASSUME ServerInv, NEW l \in Loops, RemoveConnection(l)
  PROVE  ServerInv'
<1>1. CASE Head(loop[l].batch).conn \in connections
  BY <1>1, RemoveConnectionStep
<1>2. CASE Head(loop[l].batch).conn \notin connections
  <2>1. Abort
    BY <1>2 DEF RemoveConnection
  <2> QED BY <2>1, SameStep DEF Abort
<1> QED BY <1>1, <1>2

----------------------------------------------------------------------------
LEMMA InvInit == Init => ServerInv
<1> SUFFICES ASSUME Init PROVE ServerInv
  OBVIOUS
<1> DEFINE idle == [place |-> "wait", fired |-> {}, pending |-> <<>>,
                    batch |-> <<>>, held |-> {}, dying |-> {}]
<1>1. /\ threads \in 0 .. MaxThreads /\ next = 0 /\ backlog = 0 /\ nextConn = 1
      /\ connections = {} /\ conn = [c \in Conns |-> Unborn]
      /\ channelMap = [l \in Loops |-> [f \in Fds |-> Nobody]]
      /\ loop = [l \in Loops |-> idle]
  BY DEF Init
<1>2. idle \in LoopRecord
  <2>1. << >> \in Seq(Tasks)
    OBVIOUS
  <2> QED BY <2>1 DEF LoopRecord
<1>3. /\ idle.place = "wait" /\ idle.fired = {} /\ idle.pending = << >>
      /\ idle.batch = << >> /\ idle.dying = {}
  OBVIOUS
<1>4. Base \in Loops /\ \A l \in Loops : loop[l] = idle
  BY <1>1, ServerBounds DEF Base, Loops
<1> HIDE DEF idle
<1>5. Shapes
  <2>1. threads \in 0 .. MaxThreads /\ next \in Nat /\ (threads = 0 \/ next < threads)
    BY <1>1, ServerBounds
  <2>2. nextConn \in Nat \ {0} /\ backlog \in Nat /\ nextConn + backlog <= MaxConns + 1
    BY <1>1, ServerBounds
  <2>3. loop \in [Loops -> LoopRecord] /\ Acceptor \notin loop[Base].fired
    BY <1>1, <1>2, <1>3, <1>4
  <2>4. DOMAIN conn = Conns
        /\ \A c \in Conns : {"loop", "fd"} \subseteq DOMAIN conn[c] /\ conn[c].loop \in Loops
    BY <1>1, <1>4 DEF Unborn
  <2>5. channelMap \in [Loops -> [Fds -> Conns \cup {Nobody}]] /\ connections \subseteq Conns
    BY <1>1
  <2> QED BY <2>1, <2>2, <2>3, <2>4, <2>5 DEF Shapes
<1>6. Phases /\ FiredKept
  BY <1>3, <1>4 DEF Phases, FiredKept
<1>7. EntriesKept
  BY <1>1 DEF EntriesKept
<1>8. PendingOrdered /\ BatchOrdered
  BY <1>3, <1>4 DEF PendingOrdered, BatchOrdered
<1> QED BY <1>5, <1>6, <1>7, <1>8 DEF ServerInv

LEMMA InvStep == ServerInv /\ [Next]_vars => ServerInv'
<1> SUFFICES ASSUME ServerInv, [Next]_vars PROVE ServerInv'
  OBVIOUS
<1>1. ASSUME NEW l \in Loops, LoopStep(l) PROVE ServerInv'
  <2>1. CASE \E W \in SUBSET Fds : Poll(l, W)
    BY <2>1, PollStep
  <2>2. CASE HandleAccept
    BY <2>2, HandleAcceptStep
  <2>3. ASSUME NEW c \in Conns, HandleEvent(l, c) PROVE ServerInv'
    BY <2>3, HandleEventStep
  <2>4. ASSUME NEW c \in Conns, DestroySocket(l, c) PROVE ServerInv'
    BY <2>4, DestroySocketStep
  <2>5. ASSUME NEW c \in Conns, DestroyChannel(l, c) PROVE ServerInv'
    BY <2>5, DestroyChannelStep
  <2>6. CASE SwapBatch(l)
    BY <2>6, SwapBatchStep
  <2>7. CASE ConnectEstablished(l)
    BY <2>7, ConnectEstablishedStep
  <2>8. CASE RemoveConnection(l)
    BY <2>8, RemovalStep
  <2>9. CASE ConnectDestroyed(l)
    BY <2>9, ConnectDestroyedStep
  <2>10. CASE BatchDone(l)
    BY <2>10, BatchDoneStep
  <2> QED BY <1>1, <2>1, <2>2, <2>3, <2>4, <2>5, <2>6, <2>7, <2>8, <2>9, <2>10 DEF LoopStep
<1>2. CASE PeerConnects
  BY <1>2, PeerConnectsStep
<1>3. ASSUME NEW c \in Conns, PeerActs(c) PROVE ServerInv'
  BY <1>3, PeerActsStep
<1>4. CASE UNCHANGED vars
  BY <1>4, SameStep DEF vars
<1> QED BY <1>1, <1>2, <1>3, <1>4 DEF Next

(* A connection in the map, or with a connectDestroyed() to come, is       *)
(* referenced: by the map, the functor in the queue or the batch.          *)
LEMMA KeptIsReferenced ==
  ASSUME ServerInv, NEW l \in Loops, NEW c, Kept(l, c)
  PROVE  Referenced(c)
<1> DEFINE p == loop[l].pending
           b == loop[l].batch
<1>1. CASE c \in connections
  BY <1>1 DEF Referenced
<1>2. CASE Occurs(p, Destroy(c))
  <2>1. PICK j \in 1..Len(p) : p[j] = Destroy(c)
    BY <1>2 DEF Occurs
  <2>2. Destroy(c) \in ToSet(p) /\ Destroy(c).conn = c
    <3>1. p \in Seq(Tasks)
      BY QueueTypes DEF ServerInv
    <3> HIDE DEF p
    <3> QED BY <2>1, <3>1 DEF ToSet, Destroy, Task
  <2> QED BY <2>2 DEF Referenced
<1>3. CASE Occurs(b, Destroy(c))
  <2>1. PICK j \in 1..Len(b) : b[j] = Destroy(c)
    BY <1>3 DEF Occurs
  <2>2. b[j].conn \in loop[l].held
    BY DEF ServerInv, BatchOrdered
  <2>3. Destroy(c).conn = c
    BY DEF Destroy, Task
  <2> QED BY <2>1, <2>2, <2>3 DEF Referenced
<1> QED BY <1>1, <1>2, <1>3 DEF Kept, Destroying

(* For any number of loops, connections and descriptors, and any           *)
(* interleaving of the loops and the peers: the raw pointers of an Epoller *)
(* and of the fired channels never outlive the last shared_ptr             *)
(* (TcpServer.cpp:81-89, Epoller.cpp:29-53).                               *)
THEOREM ChannelsReferencedHolds == Spec => []ChannelsReferenced
<1>1. ServerInv => ChannelsReferenced
  <2> SUFFICES ASSUME ServerInv, NEW l \in Loops,
                      NEW c \in {channelMap[l][f] : f \in Fds} \cup loop[l].fired, c # Nobody
               PROVE  Referenced(c)
    BY DEF ChannelsReferenced
  <2>1. Kept(l, c)
    <3>1. CASE c \in loop[l].fired
      BY <3>1 DEF ServerInv, FiredKept, Acceptor, Nobody
    <3>2. CASE c \in {channelMap[l][f] : f \in Fds}
      BY <3>2 DEF ServerInv, EntriesKept
    <3> QED BY <3>1, <3>2
  <2> QED BY <2>1, KeptIsReferenced
<1> QED BY <1>1, InvInit, InvStep, PTL DEF Spec

----------------------------------------------------------------------------
(* Facts used below.                                                       *)
LEMMA BaseIsLoop == Base \in Loops /\ Acceptor \notin Conns /\ Nobody \notin Conns
BY ServerBounds DEF Base, Loops, Acceptor, Nobody, Conns

(* accept() gives the lowest descriptor that is free: there is one.        *)
LEMMA LowestFree ==
  ASSUME FreeFds # {}
  PROVE  (CHOOSE x \in FreeFds : \A y \in FreeFds : x <= y) \in FreeFds
<1> DEFINE F == FreeFds
           below(x) == {y \in F : y <= x}
           S == {below(x) : x \in F}
<1>1. F \in SUBSET Fds /\ IsFiniteSet(Fds) /\ Fds \subseteq Nat /\ F # {}
  BY FS_Interval, ServerBounds DEF FreeFds, Fds
<1> HIDE DEF F
<1>2. IsFiniteSet(F) /\ F \subseteq Nat
  BY <1>1, FS_Subset
<1>3. S \subseteq FiniteSubsetsOf(F) /\ S # {}
  <2>1. FiniteSubsetsOf(F) = SUBSET F
    BY <1>2, FS_FiniteSubsetsOfFinite
  <2>2. S \subseteq SUBSET F
    OBVIOUS
  <2>3. S # {}
    BY <1>1
  <2> QED BY <2>1, <2>2, <2>3
<1>4. IsWellFoundedOn(StrictSubsetOrdering(F), FiniteSubsetsOf(F))
  BY FS_StrictSubsetOrderingWellFounded
<1>5. \E s \in S : \A t \in S : <<t, s>> \notin StrictSubsetOrdering(F)
  <2> HIDE DEF S
  <2> QED BY <1>3, <1>4, WFMin
<1>6. PICK x \in F : \A t \in S : <<t, below(x)>> \notin StrictSubsetOrdering(F)
  BY <1>5
<1>7. ASSUME NEW y \in F, ~(x <= y) PROVE FALSE
  <2>1. y <= x /\ y # x /\ y \in Nat /\ x \in Nat
    BY <1>2, <1>7
  <2>2. below(y) \subseteq below(x)
    <3>1. ASSUME NEW z \in F, z <= y PROVE z <= x
      BY <1>2, <2>1, <3>1
    <3> QED BY <3>1
  <2>3. x \in below(x) /\ x \notin below(y)
    BY <1>2, <1>7, <2>1
  <2> HIDE DEF below
  <2>4. <<below(y), below(x)>> \in StrictSubsetOrdering(F)
    <3>1. below(y) \in SUBSET F /\ below(x) \in SUBSET F
      BY DEF below
    <3> QED BY <2>2, <2>3, <3>1 DEF StrictSubsetOrdering
  <2> QED BY <1>6, <2>4
<1> QED BY <1>7 DEF F

(* A server keeps the number of its loops.                                 *)
LEMMA ThreadsStay == [Next]_vars => threads' = threads
<1> SUFFICES ASSUME [Next]_vars PROVE threads' = threads
  OBVIOUS
<1>1. ASSUME NEW l \in Loops, LoopStep(l) PROVE threads' = threads
  <2>1. ASSUME NEW c \in Conns, HandleEvent(l, c) PROVE threads' = threads
    BY <2>1 DEF HandleEvent, HandleClose, HandleData, Abort
  <2>2. ASSUME NEW c \in Conns, DestroySocket(l, c) \/ DestroyChannel(l, c)
        PROVE  threads' = threads
    BY <2>2 DEF DestroySocket, DestroyChannel
  <2>3. CASE BatchDone(l)
    BY <2>3, Zenon DEF BatchDone
  <2>4. CASE (\E W \in SUBSET Fds : Poll(l, W)) \/ HandleAccept \/ SwapBatch(l)
    BY <2>4 DEF Poll, HandleAccept, SwapBatch
  <2>5. CASE ConnectEstablished(l) \/ RemoveConnection(l) \/ ConnectDestroyed(l)
    BY <2>5, Zenon DEF ConnectEstablished, RemoveConnection, ConnectDestroyed, Abort
  <2> QED BY <1>1, <2>1, <2>2, <2>3, <2>4, <2>5 DEF LoopStep
<1> QED BY <1>1 DEF Next, PeerConnects, PeerActs, vars

----------------------------------------------------------------------------
(* The types.  A connection of the map is not being destroyed, for any     *)
(* number of loops: its connectDestroyed() is queued when it has left.     *)

States == {"none", "connecting", "connected", "disconnecting", "disconnected", "closing",
           "freed"}
ConnRecord ==
  [state : States, loop : 0 .. threads, fd : 0 .. MaxFds, event : Masks,
   rx : {"open", "fin", "reset"}, data : BOOLEAN, shut : BOOLEAN]
Records == conn \in [Conns -> ConnRecord]
Kernel == /\ open \in [Fds -> Conns \cup {Nobody}]
          /\ interest \in [Loops -> [Fds -> Masks \cup {Unregistered}]]
MapStates == \A c \in connections : conn[c].state \in {"connecting", "connected", "disconnecting"}
Idle == [place |-> "wait", fired |-> {}, pending |-> <<>>, batch |-> <<>>, held |-> {},
         dying |-> {}]
UnstartedIdle == \A l \in Loops : l > threads => loop[l] = Idle

DestroyedLeft == \A l \in Loops : \A c \in Conns : Destroying(l, c) => c \notin connections
DyingLeft == \A l \in Loops : /\ \A c \in loop[l].held : c < nextConn
                              /\ \A c \in loop[l].dying : c < nextConn /\ c \notin connections

Typed == /\ Records /\ Kernel /\ MapStates /\ UnstartedIdle /\ DestroyedLeft /\ DyingLeft
         /\ next \in 0 .. MaxThreads /\ aborted \in BOOLEAN

LEMMA TypedTypes == ServerInv /\ Typed => TypeOK
<1> SUFFICES ASSUME ServerInv, Typed PROVE TypeOK
  OBVIOUS
<1>1. ASSUME NEW l \in Loops
      PROVE  /\ loop[l].place \in {"wait", "events", "batch", "release"}
             /\ loop[l].fired \subseteq Conns \cup {Acceptor}
             /\ loop[l].pending \in Seq(Tasks) /\ loop[l].batch \in Seq(Tasks)
             /\ loop[l].held \subseteq Conns /\ loop[l].dying \subseteq Conns
  <2>1. loop[l] \in LoopRecord
    BY DEF ServerInv, Shapes
  <2> QED BY <2>1 DEF LoopRecord
<1>2. nextConn \in 1 .. MaxConns + 1 /\ backlog \in 0 .. MaxConns
  BY ServerBounds DEF ServerInv, Shapes
<1>3. connections \subseteq {c \in Conns : conn[c].state \in
                               {"connecting", "connected", "disconnecting"}}
  BY DEF Typed, MapStates, ServerInv, Shapes
<1>4. threads \in 0 .. MaxThreads /\ channelMap \in [Loops -> [Fds -> Conns \cup {Nobody}]]
  BY DEF ServerInv, Shapes
<1>5. conn \in [Conns -> ConnRecord]
  BY DEF Typed, Records
<1>6. \A l \in Loops : l > threads => loop[l] = Idle
  BY DEF Typed, UnstartedIdle
<1> QED BY <1>1, <1>2, <1>3, <1>4, <1>5, <1>6 DEF Typed, Kernel, TypeOK, ConnRecord, States, Idle

(* Fields of a connection.                                                 *)
LEMMA StateTyped ==
  ASSUME NEW r \in ConnRecord, NEW s \in States
  PROVE  [r EXCEPT !.state = s] \in ConnRecord
BY DEF ConnRecord

LEMMA EventTyped ==
  ASSUME NEW r \in ConnRecord, NEW e \in Masks
  PROVE  [r EXCEPT !.event = e] \in ConnRecord
BY DEF ConnRecord

LEMMA SocketTyped ==
  ASSUME NEW r \in ConnRecord, NEW b \in BOOLEAN, NEW x \in {"open", "fin", "reset"}
  PROVE  /\ [r EXCEPT !.data = b] \in ConnRecord /\ [r EXCEPT !.rx = x] \in ConnRecord
         /\ [r EXCEPT !.shut = b] \in ConnRecord
<1>1. [r EXCEPT !.data = b] \in ConnRecord
  BY DEF ConnRecord
<1>2. [r EXCEPT !.rx = x] \in ConnRecord
  BY DEF ConnRecord
<1>3. [r EXCEPT !.shut = b] \in ConnRecord
  BY DEF ConnRecord
<1> QED BY <1>1, <1>2, <1>3

LEMMA ShutdownTyped ==
  ASSUME NEW r \in ConnRecord, NEW asked \in BOOLEAN
  PROVE  /\ Shutdown(r, asked) \in ConnRecord
         /\ r.state \in {"connecting", "connected", "disconnecting"} =>
              Shutdown(r, asked).state \in {"connecting", "connected", "disconnecting"}
         /\ Shutdown(r, asked).event = r.event
<1> DEFINE d == [r EXCEPT !.state = "disconnecting"]
           t == [d EXCEPT !.shut = "out" \notin r.event]
<1>1. "disconnecting" \in States /\ ("out" \notin r.event) \in BOOLEAN
  BY DEF States
<1>2. d \in ConnRecord
  BY <1>1, StateTyped
<1>3. d.event = r.event /\ d.state = "disconnecting"
  BY DEF ConnRecord
<1> HIDE DEF d
<1>4. t \in ConnRecord
  BY <1>1, <1>2, SocketTyped
<1>5. Shutdown(r, asked) = r \/ Shutdown(r, asked) = t
  BY DEF Shutdown, d
<1>6. t.state = "disconnecting" /\ t.event = r.event
  BY <1>2, <1>3 DEF ConnRecord
<1> HIDE DEF t
<1> QED BY <1>4, <1>5, <1>6

LEMMA CalledTyped ==
  ASSUME NEW r \in ConnRecord, NEW rest \in BOOLEAN, NEW asked \in BOOLEAN
  PROVE  /\ Called(r, rest, asked) \in ConnRecord
         /\ r.state \in {"connecting", "connected", "disconnecting"} =>
              Called(r, rest, asked).state \in {"connecting", "connected", "disconnecting"}
         /\ Called(r, rest, asked).event \in {r.event, r.event \cup {"out"}}
<1> DEFINE t == [r EXCEPT !.event = r.event \cup {"out"}]
           s == Sent(r, rest)
<1>1. r.event \cup {"out"} \in Masks
  BY DEF Masks, ConnRecord
<1>2. t \in ConnRecord
  BY <1>1, EventTyped
<1>3. t.state = r.state /\ t.event = r.event \cup {"out"}
  BY DEF ConnRecord
<1>4. s = r \/ s = t
  BY DEF Sent
<1>5. Called(r, rest, asked) = Shutdown(s, asked)
  BY DEF Called
<1> HIDE DEF s, t
<1>6. s \in ConnRecord /\ s.state = r.state /\ s.event \in {r.event, r.event \cup {"out"}}
  BY <1>2, <1>3, <1>4
<1> QED BY <1>5, <1>6, ShutdownTyped

LEMMA EstablishedTyped ==
  ASSUME NEW r \in ConnRecord, NEW rest \in BOOLEAN, NEW asked \in BOOLEAN
  PROVE  /\ Established(r, rest, asked) \in ConnRecord
         /\ Established(r, rest, asked).state \in {"connecting", "connected", "disconnecting"}
         /\ Established(r, rest, asked).event \in
              {r.event \cup {"in"}, r.event \cup {"in"} \cup {"out"}}
<1> DEFINE s == [r EXCEPT !.state = "connected"]
           t == [s EXCEPT !.event = r.event \cup {"in"}]
<1>1. "connected" \in States /\ r.event \cup {"in"} \in Masks
  BY DEF States, Masks, ConnRecord
<1>2. s \in ConnRecord
  BY <1>1, StateTyped
<1>3. s.event = r.event /\ s.state = "connected"
  BY DEF ConnRecord
<1>4. Established(r, rest, asked) = Called(t, rest, asked)
  BY <1>3 DEF Established
<1> HIDE DEF s
<1>5. t \in ConnRecord
  BY <1>1, <1>2, EventTyped
<1>6. t.state = "connected" /\ t.event = r.event \cup {"in"}
  BY <1>2, <1>3 DEF ConnRecord
<1> HIDE DEF t
<1> QED BY <1>4, <1>5, <1>6, CalledTyped

LEMMA ReadTyped ==
  ASSUME NEW r \in ConnRecord, NEW rest \in BOOLEAN, NEW asked \in BOOLEAN
  PROVE  /\ Read(r, rest, asked) \in ConnRecord
         /\ r.state \in {"connecting", "connected", "disconnecting"} =>
              Read(r, rest, asked).state \in {"connecting", "connected", "disconnecting"}
         /\ \/ Read(r, rest, asked).event = r.event
            \/ "in" \in r.event /\ Read(r, rest, asked).event = r.event \cup {"out"}
<1> DEFINE s == Called(r, rest, asked)
           t == [s EXCEPT !.data = FALSE]
<1>1. s \in ConnRecord /\ s.event \in {r.event, r.event \cup {"out"}}
      /\ (r.state \in {"connecting", "connected", "disconnecting"} =>
            s.state \in {"connecting", "connected", "disconnecting"})
  BY CalledTyped
<1>2. Read(r, rest, asked) = r \/ ("in" \in r.event /\ Read(r, rest, asked) = t)
  BY DEF Read
<1> HIDE DEF s
<1>3. t \in ConnRecord
  BY <1>1, SocketTyped
<1>4. t.state = s.state /\ t.event = s.event
  BY <1>1 DEF ConnRecord
<1> HIDE DEF t
<1> QED BY <1>1, <1>2, <1>3, <1>4

LEMMA WrittenTyped ==
  ASSUME NEW r \in ConnRecord
  PROVE  /\ Written(r) \in ConnRecord /\ Written(r).state = r.state
         /\ Written(r).event = r.event \ {"out"}
<1>1. r.event \ {"out"} \in Masks
  BY DEF ConnRecord, Masks
<1> QED BY <1>1, EventTyped DEF Written, ConnRecord

LEMMA StoredTyped ==
  ASSUME Records, NEW c \in Conns, NEW r \in ConnRecord
  PROVE  [conn EXCEPT ![c] = r] \in [Conns -> ConnRecord]
BY DEF Records

MapSet == {"connecting", "connected", "disconnecting"}

(* One connection changes.                                                 *)
LEMMA OneChanges ==
  ASSUME Typed, threads' = threads, NEW c \in Conns, NEW r \in ConnRecord,
         conn' = [conn EXCEPT ![c] = r], connections' \subseteq connections,
         c \in connections' => r.state \in MapSet
  PROVE  Records' /\ MapStates'
<1>1. conn' \in [Conns -> ConnRecord] /\ conn \in [Conns -> ConnRecord]
  BY StoredTyped DEF Typed, Records
<1>2. Records'
  BY <1>1 DEF Records, ConnRecord
<1>3. ASSUME NEW d \in connections' PROVE conn'[d].state \in MapSet
  <2>1. conn[d].state \in MapSet
    BY <1>3 DEF Typed, MapStates, MapSet
  <2>2. conn'[d] = conn[d] \/ (d = c /\ conn'[d] = r)
    BY <1>1
  <2> QED BY <1>3, <2>1, <2>2
<1> QED BY <1>2, <1>3 DEF MapStates, MapSet

LEMMA NoneChanges ==
  ASSUME Typed, threads' = threads, conn' = conn, connections' \subseteq connections
  PROVE  Records' /\ MapStates'
BY DEF Typed, Records, MapStates, ConnRecord

LEMMA PollTyped ==
  ASSUME ServerInv, Typed, NEW l \in Loops, NEW W \in SUBSET Fds, Poll(l, W)
  PROVE  Records' /\ MapStates'
<1> DEFINE chans == {channelMap[l][f] : f \in FiredFds(l, W)}
           eventOf(c) == Reported(l, CHOOSE f \in FiredFds(l, W) : channelMap[l][f] = c, W)
<1>1. conn' = [c \in Conns |-> IF c \in chans THEN [conn[c] EXCEPT !.event = eventOf(c)]
                               ELSE conn[c]]
      /\ threads' = threads /\ connections' = connections
  BY DEF Poll
<1>2. \A f : Reported(l, f, W) \in Masks
  BY DEF Reported, SocketEvents, Masks
<1>3. \A c : eventOf(c) \in Masks
  BY <1>2
<1> HIDE DEF chans, eventOf
<1>4. ASSUME NEW c \in Conns PROVE conn'[c] \in ConnRecord /\ conn'[c].state = conn[c].state
  <2>1. conn[c] \in ConnRecord
    BY DEF Typed, Records
  <2> DEFINE r == [conn[c] EXCEPT !.event = eventOf(c)]
  <2>2. r \in ConnRecord
    BY <1>3, <2>1, EventTyped
  <2>3. r.state = conn[c].state
    BY <2>1 DEF ConnRecord
  <2>4. conn'[c] = IF c \in chans THEN r ELSE conn[c]
    BY <1>1
  <2> HIDE DEF r
  <2> QED BY <2>1, <2>2, <2>3, <2>4
<1>5. conn' \in [Conns -> ConnRecord]
  BY <1>1, <1>4
<1>6. Records'
  BY <1>1, <1>5 DEF Records, ConnRecord
<1>7. MapStates'
  BY <1>1, <1>4 DEF Typed, MapStates, ServerInv, Shapes
<1> QED BY <1>6, <1>7

LEMMA PeerActsTyped ==
  ASSUME Typed, NEW c \in Conns, PeerActs(c)
  PROVE  Records' /\ MapStates'
<1> DEFINE r == conn[c]
<1>1. r \in ConnRecord /\ (c \in connections => r.state \in MapSet)
  BY DEF Typed, Records, MapStates, MapSet
<1>2. threads' = threads /\ connections' = connections /\ conn \in [Conns -> ConnRecord]
  BY DEF PeerActs, Typed, Records
<1>3. \/ conn' = [conn EXCEPT ![c] = [r EXCEPT !.data = TRUE]]
      \/ conn' = [conn EXCEPT ![c] = [r EXCEPT !.rx = "fin"]]
      \/ conn' = [conn EXCEPT ![c] = [[r EXCEPT !.rx = "reset"] EXCEPT !.data = FALSE]]
  BY DEF PeerActs
<1> HIDE DEF r
<1>4. /\ [r EXCEPT !.data = TRUE] \in ConnRecord /\ [r EXCEPT !.rx = "fin"] \in ConnRecord
      /\ [r EXCEPT !.rx = "reset"] \in ConnRecord
  BY <1>1, SocketTyped
<1>5. [[r EXCEPT !.rx = "reset"] EXCEPT !.data = FALSE] \in ConnRecord
  BY <1>4, SocketTyped
<1>6. /\ [r EXCEPT !.data = TRUE].state = r.state /\ [r EXCEPT !.rx = "fin"].state = r.state
      /\ [[r EXCEPT !.rx = "reset"] EXCEPT !.data = FALSE].state = r.state
  BY <1>1 DEF ConnRecord
<1>7. CASE conn' = [conn EXCEPT ![c] = [r EXCEPT !.data = TRUE]]
  BY <1>1, <1>2, <1>4, <1>6, <1>7, OneChanges
<1>8. CASE conn' = [conn EXCEPT ![c] = [r EXCEPT !.rx = "fin"]]
  BY <1>1, <1>2, <1>4, <1>6, <1>8, OneChanges
<1>9. CASE conn' = [conn EXCEPT ![c] = [[r EXCEPT !.rx = "reset"] EXCEPT !.data = FALSE]]
  BY <1>1, <1>2, <1>5, <1>6, <1>9, OneChanges
<1> QED BY <1>3, <1>7, <1>8, <1>9

(* What handleRead and handleWrite write to epoll.                         *)
LEMMA HandledTyped ==
  ASSUME NEW r \in ConnRecord, NEW rest \in BOOLEAN, NEW asked \in BOOLEAN,
         NEW emptied \in BOOLEAN
  PROVE  /\ Handled(r, rest, asked, emptied) \in ConnRecord
         /\ r.state \in {"connecting", "connected", "disconnecting"} =>
              Handled(r, rest, asked, emptied).state \in
                {"connecting", "connected", "disconnecting"}
         /\ "hup" \notin r.event =>
              \/ /\ Read(r, rest, asked).event = r.event
                 /\ Handled(r, rest, asked, emptied).event = Read(r, rest, asked).event
              \/ Handled(r, rest, asked, emptied).event \in LiveMasks
<1> DEFINE t == Read(r, rest, asked)
           d == Handled(r, rest, asked, emptied)
           w == Written(t)
<1>1. /\ t \in ConnRecord
      /\ r.state \in {"connecting", "connected", "disconnecting"} =>
           t.state \in {"connecting", "connected", "disconnecting"}
      /\ t.event = r.event \/ ("in" \in r.event /\ t.event = r.event \cup {"out"})
  BY ReadTyped
<1>2. w \in ConnRecord /\ w.state = t.state /\ w.event = t.event \ {"out"}
  BY <1>1, WrittenTyped
<1>3. d = t \/ ("out" \in t.event /\ d = w)
  BY DEF Handled
<1> HIDE DEF t, w, d
<1>4. ASSUME "hup" \notin r.event
      PROVE  (t.event = r.event /\ d.event = t.event) \/ d.event \in LiveMasks
  <2> DEFINE e == r.event
  <2>1. e \subseteq {"in", "out"}
    BY <1>4 DEF ConnRecord, Masks
  <2> HIDE DEF e
  <2>2. "in" \in e => e \cup {"out"} = {"in", "out"}
    BY <2>1
  <2>3. e \ {"out"} \in {{"in"}, {}}
    <3>1. CASE "in" \in e
      <4>1. e \ {"out"} = {"in"}
        BY <2>1, <3>1
      <4> QED BY <4>1
    <3>2. CASE "in" \notin e
      <4>1. e \ {"out"} = {}
        BY <2>1, <3>2
      <4> QED BY <4>1
    <3> QED BY <3>1, <3>2
  <2>4. (e \cup {"out"}) \ {"out"} = e \ {"out"}
    OBVIOUS
  <2>5. t.event = e \/ ("in" \in e /\ t.event = e \cup {"out"})
    BY <1>1 DEF e
  <2>6. d.event = t.event \/ d.event = t.event \ {"out"}
    BY <1>2, <1>3
  <2>7. CASE d.event = t.event
    <3>1. CASE t.event = e
      BY <2>7, <3>1 DEF e
    <3>2. CASE "in" \in e /\ t.event = e \cup {"out"}
      BY <2>2, <2>7, <3>2 DEF LiveMasks
    <3> QED BY <2>5, <3>1, <3>2
  <2>8. CASE d.event = t.event \ {"out"}
    <3>1. d.event = e \ {"out"}
      BY <2>4, <2>5, <2>8
    <3> QED BY <2>3, <3>1 DEF LiveMasks
  <2> QED BY <2>6, <2>7, <2>8
<1> QED BY <1>1, <1>2, <1>3, <1>4 DEF t, d

LEMMA HandledLive ==
  ASSUME NEW r \in ConnRecord, r.state \in {"connected", "disconnecting"},
         NEW rest \in BOOLEAN, NEW asked \in BOOLEAN, NEW emptied \in BOOLEAN
  PROVE  Handled(r, rest, asked, emptied).state \in {"connected", "disconnecting"}
<1> DEFINE s == Sent(r, rest)
           u == Called(r, rest, asked)
           t == Read(r, rest, asked)
<1>1. s.state = r.state /\ "state" \in DOMAIN s
  BY DEF Sent, ConnRecord
<1>2. u = Shutdown(s, asked)
  BY DEF Called
<1> HIDE DEF s
<1>3. u.state \in {"connected", "disconnecting"} /\ "state" \in DOMAIN u
  BY <1>1, <1>2 DEF Shutdown
<1>4. t = r \/ t = [u EXCEPT !.data = FALSE]
  BY DEF Read
<1> HIDE DEF u
<1>5. t.state \in {"connected", "disconnecting"} /\ "state" \in DOMAIN t
  BY <1>3, <1>4 DEF ConnRecord
<1>6. Handled(r, rest, asked, emptied) \in {t, Written(t)}
  BY DEF Handled
<1> HIDE DEF t
<1> QED BY <1>5, <1>6 DEF Written

(* HandleData in terms of it.                                              *)
LEMMA HandleDataIs ==
  ASSUME NEW l \in Loops, NEW c \in Conns, HandleData(l, c)
  PROVE  \E rest \in BOOLEAN, asked \in BOOLEAN, emptied \in BOOLEAN :
           /\ conn' = [conn EXCEPT ![c] = Handled(conn[c], rest, asked, emptied)]
           /\ \/ /\ Read(conn[c], rest, asked).event = conn[c].event
                 /\ Handled(conn[c], rest, asked, emptied).event =
                      Read(conn[c], rest, asked).event
                 /\ UNCHANGED <<channelMap, interest>>
              \/ /\ ~ /\ Read(conn[c], rest, asked).event = conn[c].event
                      /\ Handled(conn[c], rest, asked, emptied).event =
                           Read(conn[c], rest, asked).event
                 /\ UpdateEvent(l, c, Handled(conn[c], rest, asked, emptied).event)
<1>1. PICK rest, asked, emptied \in BOOLEAN :
        /\ conn' = [conn EXCEPT ![c] = Handled(conn[c], rest, asked, emptied)]
        /\ IF /\ Read(conn[c], rest, asked).event = conn[c].event
              /\ Handled(conn[c], rest, asked, emptied).event =
                   Read(conn[c], rest, asked).event
           THEN UNCHANGED <<channelMap, interest>>
           ELSE UpdateEvent(l, c, Handled(conn[c], rest, asked, emptied).event)
  BY DEF HandleData
<1> QED BY <1>1

LEMMA HandleDataTyped ==
  ASSUME Typed, NEW l \in Loops, NEW c \in Conns, HandleData(l, c)
  PROVE  Records' /\ MapStates'
<1>1. PICK rest \in BOOLEAN, asked \in BOOLEAN, emptied \in BOOLEAN :
        conn' = [conn EXCEPT ![c] = Handled(conn[c], rest, asked, emptied)]
  BY HandleDataIs
<1>2. threads' = threads /\ connections' = connections
  BY DEF HandleData
<1> DEFINE r == Handled(conn[c], rest, asked, emptied)
<1>3. conn[c] \in ConnRecord /\ (c \in connections => conn[c].state \in MapSet)
  BY DEF Typed, Records, MapStates, MapSet
<1>4. r \in ConnRecord /\ (c \in connections => r.state \in MapSet)
  BY <1>3, HandledTyped DEF MapSet
<1>5. conn' = [conn EXCEPT ![c] = r]
  BY <1>1
<1> HIDE DEF r
<1> QED BY <1>2, <1>4, <1>5, OneChanges

LEMMA HandleCloseTyped ==
  ASSUME Typed, NEW l \in Loops, NEW c \in Conns, HandleClose(l, c)
  PROVE  Records' /\ MapStates'
<1>1. CASE Abort
  BY <1>1, NoneChanges DEF Abort
<1>2. CASE ~Abort
  <2> DEFINE r == [conn[c] EXCEPT !.event = {}]
  <2>1. /\ conn' = [conn EXCEPT ![c] = r] /\ threads' = threads
        /\ connections' \subseteq connections
    BY <1>2 DEF HandleClose
  <2>2. conn[c] \in ConnRecord /\ (c \in connections => conn[c].state \in MapSet)
    BY DEF Typed, Records, MapStates, MapSet
  <2>3. r \in ConnRecord /\ r.state = conn[c].state
    <3>1. {} \in Masks
      BY DEF Masks
    <3>2. r \in ConnRecord
      BY <2>2, <3>1, EventTyped
    <3> QED BY <2>2, <3>2 DEF ConnRecord
  <2> HIDE DEF r
  <2> QED BY <2>1, <2>2, <2>3, OneChanges
<1> QED BY <1>1, <1>2

LEMMA ConnectEstablishedTyped ==
  ASSUME ServerInv, Typed, NEW l \in Loops, ConnectEstablished(l)
  PROVE  Records' /\ MapStates'
<1> DEFINE c == Head(loop[l].batch).conn
<1>1. PICK rest \in BOOLEAN, asked \in BOOLEAN :
        conn' = [conn EXCEPT ![c] = Established(conn[c], rest, asked)]
  BY DEF ConnectEstablished
<1>2. c \in Conns
  BY HeadKnown DEF ConnectEstablished
<1>3. threads' = threads /\ connections' = connections
  BY DEF ConnectEstablished
<1> HIDE DEF c
<1> DEFINE r == Established(conn[c], rest, asked)
<1>4. r \in ConnRecord /\ r.state \in MapSet
  BY <1>2, EstablishedTyped DEF Typed, Records, MapSet
<1>5. conn' = [conn EXCEPT ![c] = r]
  BY <1>1
<1> HIDE DEF r
<1> QED BY <1>2, <1>3, <1>4, <1>5, OneChanges

(* The destruction of a connection that is not in the map.                 *)
LEMMA StateChangesTyped ==
  ASSUME Typed, NEW c \in Conns, NEW s \in States, c \notin connections, threads' = threads,
         connections' = connections,
         \/ conn' = [conn EXCEPT ![c].state = s]
         \/ conn' = [conn EXCEPT ![c].state = s, ![c].event = {}]
  PROVE  Records' /\ MapStates'
<1> DEFINE r == [conn[c] EXCEPT !.state = s]
           e == [r EXCEPT !.event = {}]
<1>1. r \in ConnRecord
  BY StateTyped DEF Typed, Records
<1>2. conn' = [conn EXCEPT ![c] = r] \/ conn' = [conn EXCEPT ![c] = e]
  BY DEF Typed, Records
<1> HIDE DEF r
<1>3. e \in ConnRecord
  <2>1. {} \in Masks
    BY DEF Masks
  <2> QED BY <1>1, <2>1, EventTyped
<1> HIDE DEF e
<1>4. CASE conn' = [conn EXCEPT ![c] = r]
  BY <1>1, <1>4, OneChanges
<1>5. CASE conn' = [conn EXCEPT ![c] = e]
  BY <1>3, <1>5, OneChanges
<1> QED BY <1>2, <1>4, <1>5

LEMMA NewConnectionTyped ==
  ASSUME ServerInv, Typed, NEW rest \in BOOLEAN, NEW asked \in BOOLEAN,
         NewConnection(nextConn, rest, asked),
         nextConn \in Conns, FreeFds # {}, threads' = threads
  PROVE  Records' /\ MapStates'
<1> DEFINE c == nextConn
           f == CHOOSE x \in FreeFds : \A y \in FreeFds : x <= y
           born == [Unborn EXCEPT !.state = "connecting", !.loop = NextLoop, !.fd = f]
           r == IF NextLoop = Base THEN Established(born, rest, asked) ELSE born
<1>1. conn' = [conn EXCEPT ![c] = r] /\ connections' = connections \cup {c}
  BY DEF NewConnection
<1>2. f \in Fds
  BY LowestFree DEF FreeFds
<1>3. NextLoop \in 0 .. threads
  BY ServerBounds DEF NextLoop, Base, ServerInv, Shapes
<1>4. f \in 0 .. MaxFds
  <2> HIDE DEF f
  <2> QED BY <1>2, ServerBounds DEF Fds
<1> HIDE DEF f
<1>5. born \in ConnRecord /\ born.state = "connecting"
  BY <1>3, <1>4 DEF Unborn, ConnRecord, States, Masks
<1> HIDE DEF born
<1>6. r \in ConnRecord /\ r.state \in MapSet
  BY <1>5, EstablishedTyped DEF MapSet
<1> HIDE DEF r, c
<1>7. conn' \in [Conns -> ConnRecord] /\ conn \in [Conns -> ConnRecord]
  <2>1. c \in Conns
    BY DEF c
  <2> QED BY <1>1, <1>6, <2>1, StoredTyped DEF Typed, Records
<1>8. Records'
  BY <1>7 DEF Records, ConnRecord
<1>9. ASSUME NEW d \in connections' PROVE conn'[d].state \in MapSet
  <2>1. CASE d = c
    <3>1. c \in Conns
      BY DEF c
    <3> QED BY <1>1, <1>6, <1>7, <2>1, <3>1
  <2>2. CASE d # c
    <3>1. d \in connections /\ conn'[d] = conn[d]
      BY <1>1, <1>7, <1>9, <2>2 DEF ServerInv, Shapes
    <3> QED BY <3>1 DEF Typed, MapStates, MapSet
  <2> QED BY <2>1, <2>2
<1> QED BY <1>8, <1>9 DEF MapStates, MapSet

LEMMA RecordsStep ==
  ASSUME ServerInv, Typed, [Next]_vars
  PROVE  Records' /\ MapStates'
<1>1. threads' = threads
  BY ThreadsStay
<1>2. ASSUME NEW l \in Loops, LoopStep(l) PROVE Records' /\ MapStates'
  <2>1. CASE \E W \in SUBSET Fds : Poll(l, W)
    BY <2>1, PollTyped
  <2>2. CASE HandleAccept
    <3>1. CASE FreeFds = {}
      BY <1>1, <2>2, <3>1, NoneChanges DEF HandleAccept
    <3>2. CASE FreeFds # {}
      <4>1. PICK rest \in BOOLEAN, asked \in BOOLEAN : NewConnection(nextConn, rest, asked)
        BY <2>2, <3>2 DEF HandleAccept
      <4>2. nextConn \in Conns
        BY <2>2, ServerBounds DEF HandleAccept, ServerInv, Shapes, Conns
      <4> QED BY <1>1, <3>2, <4>1, <4>2, NewConnectionTyped
    <3> QED BY <3>1, <3>2
  <2>3. ASSUME NEW c \in Conns, HandleEvent(l, c) PROVE Records' /\ MapStates'
    BY <2>3, HandleCloseTyped, HandleDataTyped DEF HandleEvent
  <2>4. ASSUME NEW c \in Conns, DestroySocket(l, c) PROVE Records' /\ MapStates'
    <3>1. c \notin connections /\ "closing" \in States
      BY <2>4 DEF DestroySocket, Typed, DyingLeft, States
    <3> QED BY <1>1, <2>4, <3>1, StateChangesTyped DEF DestroySocket
  <2>5. ASSUME NEW c \in Conns, DestroyChannel(l, c) PROVE Records' /\ MapStates'
    <3>1. c \notin connections /\ "freed" \in States
      BY <2>5 DEF DestroyChannel, Typed, DyingLeft, States
    <3> QED BY <1>1, <2>5, <3>1, StateChangesTyped DEF DestroyChannel
  <2>6. CASE SwapBatch(l)
    BY <1>1, <2>6, NoneChanges DEF SwapBatch
  <2>7. CASE ConnectEstablished(l)
    BY <2>7, ConnectEstablishedTyped
  <2>8. CASE RemoveConnection(l)
    <3>1. conn' = conn /\ connections' \subseteq connections
      BY <2>8, Zenon DEF RemoveConnection, Abort
    <3> QED BY <1>1, <3>1, NoneChanges
  <2>9. CASE ConnectDestroyed(l)
    <3> DEFINE c == Head(loop[l].batch).conn
    <3>1. /\ conn' = [conn EXCEPT ![c].state = "disconnected", ![c].event = {}]
          /\ connections' = connections /\ Takes(l, "destroy")
      BY <2>9 DEF ConnectDestroyed
    <3>2. c \in Conns /\ c \notin connections
      <4> DEFINE b == loop[l].batch
      <4>1. b \in Seq(Tasks) /\ b # << >> /\ Head(b) = Task("destroy", c) /\ c \in Conns
        BY <3>1, HeadKnown, QueueTypes DEF ServerInv, Takes
      <4> HIDE DEF b, c
      <4>2. Occurs(b, Task("destroy", c))
        BY <4>1, TailQueue DEF Occurs
      <4>3. Destroying(l, c)
        BY <4>2 DEF Destroying, Destroy, b
      <4> QED BY <4>1, <4>3 DEF Typed, DestroyedLeft
    <3>3. "disconnected" \in States
      BY DEF States
    <3> HIDE DEF c
    <3> QED BY <1>1, <3>1, <3>2, <3>3, StateChangesTyped
  <2>10. CASE BatchDone(l)
    <3>1. conn' = conn /\ connections' = connections
      BY <2>10, Zenon DEF BatchDone
    <3> QED BY <1>1, <3>1, NoneChanges
  <2> QED BY <1>2, <2>1, <2>2, <2>3, <2>4, <2>5, <2>6, <2>7, <2>8, <2>9, <2>10 DEF LoopStep
<1>3. CASE PeerConnects
  BY <1>1, <1>3, NoneChanges DEF PeerConnects
<1>4. ASSUME NEW c \in Conns, PeerActs(c) PROVE Records' /\ MapStates'
  BY <1>4, PeerActsTyped
<1>5. CASE UNCHANGED vars
  BY <1>1, <1>5, NoneChanges DEF vars
<1> QED BY <1>2, <1>3, <1>4, <1>5 DEF Next

(* The kernel.                                                             *)
LEMMA InterestTyped ==
  ASSUME Typed, NEW l \in Loops, NEW f, NEW v \in Masks \cup {Unregistered}
  PROVE  [interest EXCEPT ![l][f] = v] \in [Loops -> [Fds -> Masks \cup {Unregistered}]]
<1> DEFINE T == Masks \cup {Unregistered}
<1>1. interest[l] \in [Fds -> T] /\ interest \in [Loops -> [Fds -> T]] /\ v \in T
  BY DEF Typed, Kernel
<1> HIDE DEF T
<1>2. [interest[l] EXCEPT ![f] = v] \in [Fds -> T]
  BY <1>1
<1>3. [interest EXCEPT ![l] = [interest[l] EXCEPT ![f] = v]] \in [Loops -> [Fds -> T]]
  BY <1>1, <1>2
<1>4. [interest EXCEPT ![l][f] = v] = [interest EXCEPT ![l] = [interest[l] EXCEPT ![f] = v]]
  BY <1>1
<1> QED BY <1>3, <1>4 DEF T

LEMMA UpdateTyped ==
  ASSUME ServerInv, Typed, NEW l \in Loops, NEW c \in Conns, NEW mask \in Masks,
         UpdateEvent(l, c, mask)
  PROVE  interest' \in [Loops -> [Fds -> Masks \cup {Unregistered}]]
<1> DEFINE f == conn[c].fd
           v == IF channelMap[l][f] = Nobody
                THEN IF open[f] = Nobody THEN Unregistered ELSE mask
                ELSE IF interest[l][f] = Unregistered THEN Unregistered ELSE mask
<1>1. interest' = [interest EXCEPT ![l][f] = v]
  <2>1. interest \in [Loops -> [Fds -> Masks \cup {Unregistered}]]
    BY DEF Typed, Kernel
  <2>2. CASE channelMap[l][f] = Nobody
    BY <2>2 DEF UpdateEvent
  <2>3. CASE channelMap[l][f] # Nobody
    <3>1. interest' = [interest EXCEPT ![l][f] = IF @ = Unregistered THEN Unregistered ELSE mask]
      BY <2>3 DEF UpdateEvent
    <3>2. v = IF interest[l][f] = Unregistered THEN Unregistered ELSE mask
      BY <2>3
    <3> HIDE DEF f, v
    <3> QED BY <2>1, <3>1, <3>2
  <2> QED BY <2>2, <2>3
<1>2. v \in Masks \cup {Unregistered}
  OBVIOUS
<1> HIDE DEF v
<1> QED BY <1>1, <1>2, InterestTyped

LEMMA CloseTyped ==
  ASSUME Typed, NEW f, Close(f)
  PROVE  Kernel'
<1>1. open' \in [Fds -> Conns \cup {Nobody}]
  BY DEF Typed, Kernel, Close
<1>2. interest' \in [Loops -> [Fds -> Masks \cup {Unregistered}]]
  <2>1. ASSUME NEW l \in Loops
        PROVE  [interest[l] EXCEPT ![f] = Unregistered] \in [Fds -> Masks \cup {Unregistered}]
    BY DEF Typed, Kernel
  <2> QED BY <2>1 DEF Close
<1> QED BY <1>1, <1>2 DEF Kernel

LEMMA KernelStep ==
  ASSUME ServerInv, Typed, [Next]_vars
  PROVE  Kernel'
<1>1. ASSUME UNCHANGED <<open, interest>> PROVE Kernel'
  BY <1>1 DEF Typed, Kernel
<1>2. ASSUME NEW l \in Loops, LoopStep(l) PROVE Kernel'
  <2>1. CASE (\E W \in SUBSET Fds : Poll(l, W)) \/ SwapBatch(l)
    BY <1>1, <2>1 DEF Poll, SwapBatch
  <2>2. CASE HandleAccept
    <3>1. CASE FreeFds = {}
      BY <1>1, <2>2, <3>1 DEF HandleAccept
    <3>2. CASE FreeFds # {}
      <4> DEFINE f == CHOOSE x \in FreeFds : \A y \in FreeFds : x <= y
                 k == NextLoop
                 born == [Unborn EXCEPT !.state = "connecting", !.loop = k, !.fd = f]
                 e(rest, asked) == Established(born, rest, asked).event
                 v(rest, asked) ==
                   IF channelMap[k][f] = Nobody THEN e(rest, asked) ELSE interest[k][f]
      <4>1. PICK rest \in BOOLEAN, asked \in BOOLEAN : NewConnection(nextConn, rest, asked)
        BY <2>2, <3>2 DEF HandleAccept
      <4>2. /\ open' = [open EXCEPT ![f] = nextConn]
            /\ \/ interest' = interest
               \/ interest' = [interest EXCEPT ![k][f] =
                                 IF channelMap[k][f] = Nobody THEN e(rest, asked) ELSE @]
        <5>1. CASE k = Base
          BY <4>1, <5>1 DEF NewConnection
        <5>2. CASE k # Base
          BY <4>1, <5>2 DEF NewConnection
        <5> QED BY <5>1, <5>2
      <4>3. nextConn \in Conns
        BY <2>2, ServerBounds DEF HandleAccept, ServerInv, Shapes, Conns
      <4>4. k \in Loops /\ f \in Fds
        BY <3>2, RoundRobin, LowestFree DEF ServerInv, FreeFds
      <4>n. k \in 0 .. threads /\ f \in 0 .. MaxFds
        <5>1. k \in 0 .. threads
          BY ServerBounds DEF NextLoop, Base, ServerInv, Shapes
        <5> HIDE DEF f
        <5> QED BY <4>4, <5>1, ServerBounds DEF Fds
      <4> HIDE DEF f, k
      <4>b. born \in ConnRecord
        BY <4>n DEF Unborn, ConnRecord, States, Masks
      <4> HIDE DEF born
      <4>e. e(rest, asked) \in Masks
        <5>1. Established(born, rest, asked) \in ConnRecord
          BY <4>b, EstablishedTyped
        <5> QED BY <5>1 DEF ConnRecord
      <4>5. interest \in [Loops -> [Fds -> Masks \cup {Unregistered}]]
            /\ open \in [Fds -> Conns \cup {Nobody}]
        BY DEF Typed, Kernel
      <4> HIDE DEF e
      <4>6. v(rest, asked) \in Masks \cup {Unregistered}
        BY <4>4, <4>5, <4>e
      <4>7. interest' = interest \/ interest' = [interest EXCEPT ![k][f] = v(rest, asked)]
        BY <4>2, <4>4, <4>5
      <4> HIDE DEF v
      <4>8. interest' \in [Loops -> [Fds -> Masks \cup {Unregistered}]]
        BY <4>4, <4>5, <4>6, <4>7, InterestTyped
      <4>9. open' \in [Fds -> Conns \cup {Nobody}]
        BY <4>2, <4>3, <4>5
      <4> QED BY <4>8, <4>9 DEF Kernel
    <3> QED BY <3>1, <3>2
  <2>3. ASSUME NEW c \in Conns, HandleEvent(l, c) PROVE Kernel'
    <3>1. CASE UNCHANGED <<open, interest>>
      BY <1>1, <3>1
    <3>2. ASSUME NEW mask \in Masks, UpdateEvent(l, c, mask), open' = open PROVE Kernel'
      BY <3>2, UpdateTyped DEF Typed, Kernel
    <3>3. CASE HandleClose(l, c)
      <4>1. {} \in Masks
        BY DEF Masks
      <4>2. UNCHANGED <<open, interest>> \/ (UpdateEvent(l, c, {}) /\ open' = open)
        BY <3>3 DEF HandleClose, Abort
      <4> QED BY <3>1, <3>2, <4>1, <4>2
    <3>4. CASE HandleData(l, c)
      <4>1. open' = open
        BY <3>4 DEF HandleData
      <4>2. PICK rest \in BOOLEAN, asked \in BOOLEAN, emptied \in BOOLEAN :
              \/ UNCHANGED interest
              \/ UpdateEvent(l, c, Handled(conn[c], rest, asked, emptied).event)
        BY <3>4, HandleDataIs
      <4> DEFINE r == Handled(conn[c], rest, asked, emptied)
      <4>3. r \in ConnRecord
        BY HandledTyped DEF Typed, Records
      <4>4. UNCHANGED interest \/ UpdateEvent(l, c, r.event)
        BY <4>2
      <4> HIDE DEF r
      <4>5. r.event \in Masks
        BY <4>3 DEF ConnRecord
      <4> QED BY <3>1, <3>2, <4>1, <4>4, <4>5
    <3> QED BY <2>3, <3>3, <3>4 DEF HandleEvent
  <2>4. ASSUME NEW c \in Conns, DestroySocket(l, c) \/ DestroyChannel(l, c) PROVE Kernel'
    BY <2>4, CloseTyped DEF DestroySocket, DestroyChannel
  <2>5. CASE ConnectEstablished(l)
    <3> DEFINE c == Head(loop[l].batch).conn
    <3>1. PICK rest \in BOOLEAN, asked \in BOOLEAN :
            UpdateEvent(l, c, Established(conn[c], rest, asked).event)
      BY <2>5 DEF ConnectEstablished
    <3>2. open' = open /\ c \in Conns
      BY <2>5, HeadKnown DEF ConnectEstablished
    <3> HIDE DEF c
    <3> DEFINE r == Established(conn[c], rest, asked)
    <3>3. r \in ConnRecord
      BY <3>2, EstablishedTyped DEF Typed, Records
    <3>4. UpdateEvent(l, c, r.event)
      BY <3>1
    <3> HIDE DEF r
    <3>5. r.event \in Masks
      BY <3>3 DEF ConnRecord
    <3> QED BY <3>2, <3>4, <3>5, UpdateTyped DEF Typed, Kernel
  <2>6. CASE RemoveConnection(l) \/ BatchDone(l)
    BY <1>1, <2>6, Zenon DEF RemoveConnection, BatchDone, Abort
  <2>7. CASE ConnectDestroyed(l)
    <3> DEFINE f == conn[Head(loop[l].batch).conn].fd
    <3>1. interest' = [interest EXCEPT ![l][f] = Unregistered] /\ open' = open
      BY <2>7 DEF ConnectDestroyed
    <3> HIDE DEF f
    <3> QED BY <3>1, InterestTyped DEF Typed, Kernel
  <2> QED BY <1>2, <2>1, <2>2, <2>3, <2>4, <2>5, <2>6, <2>7 DEF LoopStep
<1>3. CASE PeerConnects \/ \E c \in Conns : PeerActs(c)
  BY <1>1, <1>3 DEF PeerConnects, PeerActs
<1>4. CASE UNCHANGED vars
  BY <1>1, <1>4 DEF vars
<1> QED BY <1>2, <1>3, <1>4 DEF Next

(* What a step does to the queues of a loop.                               *)
Shrinks(k) == \/ loop'[k].batch = loop[k].batch
              \/ Taken(k)
              \/ loop'[k].batch = loop[k].pending /\ loop'[k].pending = << >>
Grows(k) == \/ loop'[k].pending = loop[k].pending
            \/ loop'[k].pending = << >>
            \/ \E t \in Tasks : /\ loop'[k].pending = Append(loop[k].pending, t)
                                /\ t.op = "destroy" => t.conn \notin connections'
Holds(k) == /\ \A c \in loop'[k].held : c \in loop[k].held \/ c < nextConn
            /\ \A c \in loop'[k].dying :
                 c \in loop[k].dying \/ (c < nextConn /\ c \notin connections)
LoopMoves(k) == Shrinks(k) /\ Grows(k) /\ Holds(k)

OnlyStarted == \A k \in Loops : k > threads => loop'[k] = loop[k]
LoopsMove == OnlyStarted /\ \A k \in Loops : LoopMoves(k)

(* A queued connectDestroyed() is of a connection that exists.             *)
LEMMA DestroyingExists ==
  ASSUME ServerInv, NEW k \in Loops, NEW c \in Conns, Destroying(k, c)
  PROVE  c < nextConn
<1>1. Destroy(c).conn = c
  BY DEF Destroy, Task
<1>2. CASE Occurs(loop[k].batch, Destroy(c))
  BY <1>1, <1>2 DEF Occurs, ServerInv, BatchOrdered
<1>3. CASE Occurs(loop[k].pending, Destroy(c))
  BY <1>1, <1>3 DEF Occurs, ServerInv, PendingOrdered
<1> QED BY <1>2, <1>3 DEF Destroying

LEMMA AppendOccurs ==
  ASSUME NEW q \in Seq(Tasks), NEW x \in Tasks, NEW t, Occurs(Append(q, x), t)
  PROVE  Occurs(q, t) \/ t = x
<1> DEFINE a == Append(q, x)
<1>1. Len(a) = Len(q) + 1 /\ Len(q) \in Nat /\ a[Len(q) + 1] = x
      /\ \A i \in 1..Len(q) : a[i] = q[i]
  OBVIOUS
<1>2. PICK j \in 1..Len(a) : a[j] = t
  BY DEF Occurs
<1> HIDE DEF a
<1>3. CASE j = Len(q) + 1
  BY <1>1, <1>2, <1>3
<1>4. CASE j # Len(q) + 1
  <2>1. j \in 1..Len(q)
    BY <1>1, <1>4
  <2> QED BY <1>1, <1>2, <2>1 DEF Occurs
<1> QED BY <1>3, <1>4

LEMMA TailOccurs ==
  ASSUME NEW q \in Seq(Tasks), q # << >>, NEW t, Occurs(Tail(q), t)
  PROVE  Occurs(q, t)
<1> DEFINE r == Tail(q)
<1>1. \A i \in 1..Len(r) : i + 1 \in 1..Len(q) /\ r[i] = q[i + 1]
  BY TailQueue
<1>2. PICK j \in 1..Len(r) : r[j] = t
  BY DEF Occurs
<1> HIDE DEF r
<1> QED BY <1>1, <1>2 DEF Occurs

LEMMA LoopsTyped ==
  ASSUME ServerInv, ServerInv', Typed, LoopsMove, threads' = threads,
         nextConn' \in Nat, nextConn <= nextConn', connections' \subseteq connections \cup {nextConn}
  PROVE  UnstartedIdle' /\ DestroyedLeft' /\ DyingLeft'
<1>1. UnstartedIdle'
  BY DEF LoopsMove, OnlyStarted, Typed, UnstartedIdle
<1>2. \A c \in Conns : c < nextConn => c # nextConn /\ c < nextConn'
  BY DEF ServerInv, Shapes, Conns
<1>3. DestroyedLeft'
  <2> SUFFICES ASSUME NEW k \in Loops, NEW c \in Conns, Destroying(k, c)'
               PROVE  c \notin connections'
    BY DEF DestroyedLeft
  <2> DEFINE t == Destroy(c)
             p == loop[k].pending
             b == loop[k].batch
  <2>1. ~(Occurs(p, t) \/ Occurs(b, t)) => c \notin connections'
    <3>1. p \in Seq(Tasks) /\ b \in Seq(Tasks)
      BY QueueTypes DEF ServerInv
    <3>2. Occurs(loop'[k].batch, t) \/ Occurs(loop'[k].pending, t)
      BY DEF Destroying
    <3>3. /\ \/ loop'[k].batch = b
             \/ b # << >> /\ loop'[k].batch = Tail(b)
             \/ loop'[k].batch = p
          /\ \/ loop'[k].pending = p
             \/ loop'[k].pending = << >>
             \/ \E x \in Tasks : /\ loop'[k].pending = Append(p, x)
                                 /\ x.op = "destroy" => x.conn \notin connections'
      BY DEF LoopsMove, LoopMoves, Shrinks, Grows, Taken
    <3>4. t.op = "destroy" /\ t.conn = c
      BY DEF Destroy, Task
    <3> HIDE DEF p, b, t
    <3>5. Occurs(loop'[k].batch, t) => Occurs(p, t) \/ Occurs(b, t)
      BY <3>1, <3>3, TailOccurs
    <3>6. ASSUME Occurs(loop'[k].pending, t), ~Occurs(p, t) PROVE c \notin connections'
      <4>1. loop'[k].pending # << >>
        BY <3>6 DEF Occurs
      <4>2. PICK x \in Tasks : /\ loop'[k].pending = Append(p, x)
                               /\ x.op = "destroy" => x.conn \notin connections'
        BY <3>3, <3>6, <4>1
      <4>3. t = x
        BY <3>1, <3>6, <4>2, AppendOccurs
      <4> QED BY <3>4, <4>2, <4>3
    <3> QED BY <3>2, <3>5, <3>6
  <2>2. CASE Occurs(p, t) \/ Occurs(b, t)
    <3>1. Destroying(k, c)
      BY <2>2 DEF Destroying
    <3>2. c \notin connections /\ c < nextConn
      BY <3>1, DestroyingExists DEF Typed, DestroyedLeft
    <3> QED BY <1>2, <3>2
  <2> QED BY <2>1, <2>2
<1>4. DyingLeft'
  <2> SUFFICES ASSUME NEW k \in Loops
               PROVE  /\ \A c \in loop'[k].held : c < nextConn'
                      /\ \A c \in loop'[k].dying : c < nextConn' /\ c \notin connections'
    BY DEF DyingLeft
  <2>1. Holds(k)
    BY DEF LoopsMove, LoopMoves
  <2>2. \A c \in loop'[k].held : c < nextConn
    BY <2>1 DEF Holds, Typed, DyingLeft
  <2>3. \A c \in loop'[k].dying : c < nextConn /\ c \notin connections
    BY <2>1 DEF Holds, Typed, DyingLeft
  <2>4. loop'[k].held \subseteq Conns /\ loop'[k].dying \subseteq Conns
    <3>1. loop'[k] \in LoopRecord
      BY DEF ServerInv, Shapes
    <3> QED BY <3>1 DEF LoopRecord
  <2> QED BY <1>2, <2>2, <2>3, <2>4
<1> QED BY <1>1, <1>3, <1>4

(* A step of loop l that leaves its queues alone.                          *)
LEMMA QuietMoves ==
  ASSUME ServerInv, NEW l \in Loops, l <= threads,
         \A k \in Loops : /\ k # l => loop'[k] = loop[k]
                          /\ loop'[k].batch = loop[k].batch /\ loop'[k].pending = loop[k].pending
                          /\ loop'[k].held = loop[k].held /\ loop'[k].dying \subseteq loop[k].dying
  PROVE  LoopsMove
<1>1. \A k \in Loops : k > threads => k # l
  BY ServerBounds DEF ServerInv, Shapes, Loops
<1> QED BY <1>1 DEF LoopsMove, OnlyStarted, LoopMoves, Shrinks, Grows, Holds

LEMMA SameLoopsMove == loop' = loop => LoopsMove
BY DEF LoopsMove, OnlyStarted, LoopMoves, Shrinks, Grows, Holds

LEMMA PollMoves ==
  ASSUME ServerInv, NEW l \in Loops, NEW W \in SUBSET Fds, Poll(l, W)
  PROVE  LoopsMove
<1>1. PICK F : loop' = [loop EXCEPT ![l].place = "events", ![l].fired = F]
  BY DEF Poll
<1>2. loop \in [Loops -> LoopRecord] /\ l <= threads
  BY DEF ServerInv, Shapes, Poll, Runs
<1>3. \A k \in Loops : /\ k # l => loop'[k] = loop[k]
                       /\ loop'[k].batch = loop[k].batch /\ loop'[k].pending = loop[k].pending
                       /\ loop'[k].held = loop[k].held /\ loop'[k].dying = loop[k].dying
  BY <1>1, <1>2 DEF LoopRecord
<1> QED BY <1>2, <1>3, QuietMoves

LEMMA FiredMoves ==
  ASSUME ServerInv, NEW l \in Loops, l <= threads, NEW c,
         loop' = [loop EXCEPT ![l].fired = @ \ {c}]
  PROVE  LoopsMove
<1>1. loop \in [Loops -> LoopRecord]
  BY DEF ServerInv, Shapes
<1>2. \A k \in Loops : /\ k # l => loop'[k] = loop[k]
                       /\ loop'[k].batch = loop[k].batch /\ loop'[k].pending = loop[k].pending
                       /\ loop'[k].held = loop[k].held /\ loop'[k].dying = loop[k].dying
  BY <1>1 DEF LoopRecord
<1> QED BY <1>2, QuietMoves

LEMMA DestroyChannelMoves ==
  ASSUME ServerInv, NEW l \in Loops, NEW c \in Conns, DestroyChannel(l, c)
  PROVE  LoopsMove
<1>1. PICK place : loop' = [loop EXCEPT ![l].dying = @ \ {c}, ![l].place = place]
  BY DEF DestroyChannel
<1>2. loop \in [Loops -> LoopRecord] /\ l <= threads
  BY DEF ServerInv, Shapes, DestroyChannel, Runs
<1>3. \A k \in Loops : /\ k # l => loop'[k] = loop[k]
                       /\ loop'[k].batch = loop[k].batch /\ loop'[k].pending = loop[k].pending
                       /\ loop'[k].held = loop[k].held /\ loop'[k].dying \subseteq loop[k].dying
  BY <1>1, <1>2 DEF LoopRecord
<1> QED BY <1>2, <1>3, QuietMoves

LEMMA PoppedMoves ==
  ASSUME ServerInv, NEW l \in Loops, NEW op, Takes(l, op), loop' = Popped(l)
  PROVE  LoopsMove
<1>1. loop \in [Loops -> LoopRecord] /\ l <= threads /\ loop[l].batch # << >>
  BY DEF ServerInv, Shapes, Takes, Runs
<1>2. \A k \in Loops :
        /\ loop'[k].batch = IF k = l THEN Tail(loop[k].batch) ELSE loop[k].batch
        /\ loop'[k].held = loop[k].held /\ loop'[k].dying = loop[k].dying
        /\ loop'[k].pending = loop[k].pending
  BY <1>1, BatchField DEF Popped
<1>3. \A k \in Loops : k # l => loop'[k] = loop[k]
  BY <1>1 DEF Popped
<1>4. OnlyStarted
  BY <1>1, <1>3, ServerBounds DEF OnlyStarted, ServerInv, Shapes, Loops
<1> QED BY <1>1, <1>2, <1>4 DEF LoopsMove, LoopMoves, Shrinks, Taken, Grows, Holds

(* A functor is queued on loop m by loop l, which may have taken one.      *)
QueuedBy(q, l, m, t) ==
  /\ l \in Loops /\ l <= threads /\ m \in Loops /\ m <= threads
  /\ t \in Tasks /\ (t.op = "destroy" => t.conn \notin connections')
  /\ q \in [Loops -> LoopRecord] /\ loop' = [q EXCEPT ![m].pending = Append(@, t)]
  /\ \A k \in Loops :
       /\ k # l => q[k] = loop[k]
       /\ \/ q[k].batch = loop[k].batch
          \/ loop[k].batch # << >> /\ q[k].batch = Tail(loop[k].batch)
       /\ q[k].pending = loop[k].pending
       /\ q[k].held = loop[k].held /\ q[k].dying = loop[k].dying

LEMMA QueuedMoves ==
  ASSUME ServerInv, NEW q, NEW l, NEW m, NEW t, QueuedBy(q, l, m, t)
  PROVE  LoopsMove
<1> USE DEF QueuedBy
<1>1. \A k \in Loops :
        /\ loop'[k].pending = IF k = m THEN Append(q[k].pending, t) ELSE q[k].pending
        /\ loop'[k].held = q[k].held /\ loop'[k].dying = q[k].dying
        /\ loop'[k].batch = q[k].batch
  BY PendingField
<1>2. \A k \in Loops : k # m /\ k # l => loop'[k] = loop[k]
  OBVIOUS
<1>3. OnlyStarted
  BY <1>2, ServerBounds DEF OnlyStarted, ServerInv, Shapes, Loops
<1>4. ASSUME NEW k \in Loops PROVE LoopMoves(k)
  <2>1. Shrinks(k)
    BY <1>1 DEF Shrinks, Taken
  <2>2. Grows(k)
    BY <1>1 DEF Grows
  <2>3. Holds(k)
    BY <1>1 DEF Holds
  <2> QED BY <2>1, <2>2, <2>3 DEF LoopMoves
<1> QED BY <1>3, <1>4 DEF LoopsMove

LEMMA SwapMoves ==
  ASSUME ServerInv, NEW l \in Loops, SwapBatch(l)
  PROVE  LoopsMove
<1> DEFINE p == loop[l].pending
           h == {t.conn : t \in ToSet(p)}
<1>1. loop' = [loop EXCEPT ![l].place = "batch", ![l].batch = p,
                           ![l].pending = << >>, ![l].held = h]
  BY DEF SwapBatch
<1>2. loop \in [Loops -> LoopRecord] /\ l <= threads
  BY DEF ServerInv, Shapes, SwapBatch, Runs
<1>3. \A c \in h : c < nextConn
  <2>1. \A i \in 1..Len(p) : p[i].conn < nextConn
    BY DEF ServerInv, PendingOrdered
  <2>2. p \in Seq(Tasks)
    BY QueueTypes DEF ServerInv
  <2> HIDE DEF p
  <2> QED BY <2>1, <2>2 DEF ToSet
<1> HIDE DEF h
<1>4. /\ loop'[l].batch = p /\ loop'[l].pending = << >> /\ loop'[l].held = h
      /\ loop'[l].dying = loop[l].dying
      /\ \A k \in Loops : k # l => loop'[k] = loop[k]
  BY <1>1, <1>2 DEF LoopRecord
<1>5. OnlyStarted
  BY <1>2, <1>4, ServerBounds DEF OnlyStarted, ServerInv, Shapes, Loops
<1>6. ASSUME NEW k \in Loops PROVE LoopMoves(k)
  <2>1. CASE k = l
    BY <1>3, <1>4, <2>1 DEF LoopMoves, Shrinks, Grows, Holds
  <2>2. CASE k # l
    BY <1>4, <2>2 DEF LoopMoves, Shrinks, Grows, Holds
  <2> QED BY <2>1, <2>2
<1> QED BY <1>5, <1>6 DEF LoopsMove

LEMMA BatchDoneMoves ==
  ASSUME ServerInv, Typed, NEW l \in Loops, BatchDone(l)
  PROVE  LoopsMove
<1> DEFINE orphan(c) == /\ c \notin connections
                        /\ \A k \in Loops :
                             /\ c \notin [loop EXCEPT ![l].held = {}][k].held
                             /\ \A t \in ToSet([loop EXCEPT ![l].held = {}][k].pending) : t.conn # c
           orphans == {c \in loop[l].held : orphan(c)}
           place == IF orphans = {} THEN "wait" ELSE "release"
<1>1. loop' = [[loop EXCEPT ![l].held = {}] EXCEPT ![l].dying = orphans, ![l].place = place]
  BY Zenon DEF BatchDone
<1>2. loop \in [Loops -> LoopRecord] /\ l <= threads
  BY Zenon DEF ServerInv, Shapes, BatchDone, Runs
<1>3. \A c \in orphans : c < nextConn /\ c \notin connections
  BY DEF Typed, DyingLeft
<1> HIDE DEF orphans, place
<1>4. /\ loop'[l].batch = loop[l].batch /\ loop'[l].pending = loop[l].pending
      /\ loop'[l].held = {} /\ loop'[l].dying = orphans
      /\ \A k \in Loops : k # l => loop'[k] = loop[k]
  BY <1>1, <1>2 DEF LoopRecord
<1>5. OnlyStarted
  BY <1>2, <1>4, ServerBounds DEF OnlyStarted, ServerInv, Shapes, Loops
<1>6. ASSUME NEW k \in Loops PROVE LoopMoves(k)
  <2>1. CASE k = l
    BY <1>3, <1>4, <2>1 DEF LoopMoves, Shrinks, Grows, Holds
  <2>2. CASE k # l
    BY <1>4, <2>2 DEF LoopMoves, Shrinks, Grows, Holds
  <2> QED BY <2>1, <2>2
<1> QED BY <1>5, <1>6 DEF LoopsMove

LEMMA HandleCloseMoves ==
  ASSUME ServerInv, NEW l \in Loops, l <= threads, NEW c \in Conns, c \in loop[l].fired,
         HandleClose(l, c)
  PROVE  LoopsMove
<1>1. CASE Abort
  BY <1>1, SameLoopsMove DEF Abort
<1> SUFFICES ASSUME ~Abort PROVE LoopsMove
  BY <1>1
<1> DEFINE q == [loop EXCEPT ![l].fired = @ \ {c}]
           t == IF l = Base THEN Destroy(c) ELSE Task("remove", c)
<1>2. conn[c].loop = l
  BY BaseIsLoop DEF ServerInv, FiredKept, Belongs
<1>3. loop' = [q EXCEPT ![Base].pending = Append(@, t)]
  <2>1. CASE l = Base
    BY <1>2, <2>1 DEF HandleClose, Removed, Destroy
  <2>2. CASE l # Base
    BY <2>2 DEF HandleClose
  <2> QED BY <2>1, <2>2
<1>4. connections' = IF l = Base THEN connections \ {c} ELSE connections
  BY DEF HandleClose
<1>5. t \in Tasks /\ (t.op = "destroy" => t.conn \notin connections')
  BY <1>4 DEF Task, Tasks, Destroy
<1>6. Base \in Loops /\ Base <= threads
  BY BaseIsLoop, ServerBounds DEF Base, ServerInv, Shapes
<1>7. loop \in [Loops -> LoopRecord]
  BY DEF ServerInv, Shapes
<1>8. /\ q \in [Loops -> LoopRecord]
      /\ \A k \in Loops :
           /\ k # l => q[k] = loop[k]
           /\ q[k].batch = loop[k].batch /\ q[k].pending = loop[k].pending
           /\ q[k].held = loop[k].held /\ q[k].dying = loop[k].dying
  BY <1>7 DEF LoopRecord
<1> HIDE DEF q, t
<1>9. QueuedBy(q, l, Base, t)
  BY <1>3, <1>5, <1>6, <1>8 DEF QueuedBy
<1> QED BY <1>9, QueuedMoves

LEMMA NewConnectionMoves ==
  ASSUME ServerInv, NEW rest \in BOOLEAN, NEW asked \in BOOLEAN,
         NewConnection(nextConn, rest, asked), nextConn \in Conns
  PROVE  LoopsMove
<1> DEFINE q == [loop EXCEPT ![Base].fired = @ \ {Acceptor}]
           l == NextLoop
           t == Task("establish", nextConn)
<1>1. loop' = q \/ loop' = [q EXCEPT ![l].pending = Append(@, t)]
  <2>1. CASE l = Base
    BY <2>1 DEF NewConnection
  <2>2. CASE l # Base
    BY <2>2 DEF NewConnection
  <2> QED BY <2>1, <2>2
<1>2. t \in Tasks /\ t.op # "destroy"
  BY DEF Task, Tasks
<1>3. Base \in Loops /\ Base <= threads /\ l \in Loops /\ l <= threads
  BY BaseIsLoop, RoundRobin, ServerBounds DEF Base, ServerInv, Shapes, NextLoop
<1>4. CASE loop' = q
  BY <1>3, <1>4, FiredMoves
<1>5. CASE loop' = [q EXCEPT ![l].pending = Append(@, t)]
  <2>1. loop \in [Loops -> LoopRecord]
    BY DEF ServerInv, Shapes
  <2>2. /\ q \in [Loops -> LoopRecord]
        /\ \A k \in Loops :
             /\ k # Base => q[k] = loop[k]
             /\ q[k].batch = loop[k].batch /\ q[k].pending = loop[k].pending
             /\ q[k].held = loop[k].held /\ q[k].dying = loop[k].dying
    BY <1>3, <2>1 DEF LoopRecord
  <2> HIDE DEF q, t, l
  <2>3. QueuedBy(q, Base, l, t)
    BY <1>2, <1>3, <1>5, <2>2 DEF QueuedBy
  <2> QED BY <2>3, QueuedMoves
<1> QED BY <1>1, <1>4, <1>5

LEMMA RemovalMoves ==
  ASSUME ServerInv, Typed, NEW l \in Loops, RemoveConnection(l)
  PROVE  LoopsMove
<1> DEFINE c == Head(loop[l].batch).conn
           m == conn[c].loop
           q == Popped(l)
<1>1. CASE c \notin connections
  <2>1. loop' = loop
    BY <1>1, Zenon DEF RemoveConnection, Abort
  <2> QED BY <2>1, SameLoopsMove
<1>2. CASE c \in connections
  <2>1. /\ Takes(l, "remove") /\ loop' = [q EXCEPT ![m].pending = Append(@, Destroy(c))]
        /\ connections' = connections \ {c}
    BY <1>2 DEF RemoveConnection, Removed, Destroy
  <2>2. c \in Conns
    BY <2>1, HeadKnown
  <2> HIDE DEF c
  <2>3. /\ m \in Loops /\ m <= threads
        /\ Destroy(c) \in Tasks /\ (Destroy(c).op = "destroy" => Destroy(c).conn \notin connections')
    <3>1. conn[c] \in ConnRecord
      BY <2>2 DEF Typed, Records
    <3>2. conn[c].loop \in 0 .. threads
      BY <3>1 DEF ConnRecord
    <3>3. m \in Loops
      BY <2>2 DEF ServerInv, Shapes
    <3>4. m <= threads
      BY <3>2, ServerBounds DEF ServerInv, Shapes
    <3> QED BY <2>1, <2>2, <3>3, <3>4 DEF Destroy, Task, Tasks
  <2>4. loop \in [Loops -> LoopRecord] /\ l <= threads /\ loop[l].batch # << >>
    BY <2>1 DEF ServerInv, Shapes, Takes, Runs
  <2>5. /\ q \in [Loops -> LoopRecord]
        /\ \A k \in Loops :
             /\ q[k].batch = IF k = l THEN Tail(loop[k].batch) ELSE loop[k].batch
             /\ q[k].held = loop[k].held /\ q[k].dying = loop[k].dying
             /\ q[k].pending = loop[k].pending
    BY <2>4, BatchField DEF Popped
  <2>6. \A k \in Loops : k # l => q[k] = loop[k]
    BY <2>4 DEF Popped
  <2> DEFINE t == Destroy(c)
  <2> HIDE DEF q, m, t
  <2>7. t \in Tasks /\ (t.op = "destroy" => t.conn \notin connections')
        /\ loop' = [q EXCEPT ![m].pending = Append(@, t)]
    BY <2>1, <2>3 DEF t
  <2>8. QueuedBy(q, l, m, t)
    BY <2>3, <2>4, <2>5, <2>6, <2>7 DEF QueuedBy
  <2> QED BY <2>8, QueuedMoves
<1> QED BY <1>1, <1>2

LEMMA StepMoves ==
  ASSUME ServerInv, Typed, [Next]_vars
  PROVE  /\ LoopsMove /\ nextConn' \in Nat /\ nextConn <= nextConn'
         /\ connections' \subseteq connections \cup {nextConn}
         /\ next' \in 0 .. MaxThreads /\ aborted' \in BOOLEAN
<1> DEFINE Counts == /\ nextConn' \in Nat /\ nextConn <= nextConn'
                     /\ connections' \subseteq connections \cup {nextConn}
                     /\ next' \in 0 .. MaxThreads /\ aborted' \in BOOLEAN
<1>1. nextConn \in Nat /\ next \in 0 .. MaxThreads /\ aborted \in BOOLEAN /\ threads \in Nat
      /\ threads <= MaxThreads /\ MaxThreads \in Nat
  BY ServerBounds DEF ServerInv, Shapes, Typed
<1>2. ASSUME nextConn' = nextConn, next' = next, connections' \subseteq connections,
             aborted' = aborted \/ aborted' = TRUE
      PROVE  Counts
  <2>1. aborted' \in BOOLEAN
    BY <1>1, <1>2, Zenon
  <2> QED BY <1>1, <1>2, <2>1
<1> SUFFICES LoopsMove /\ Counts
  OBVIOUS
<1> HIDE DEF Counts
<1>3. ASSUME NEW l \in Loops, LoopStep(l) PROVE LoopsMove /\ Counts
  <2>1. CASE \E W \in SUBSET Fds : Poll(l, W)
    BY <1>2, <2>1, PollMoves DEF Poll
  <2>2. CASE HandleAccept
    <3>1. CASE FreeFds = {}
      <4>1. Base \in Loops /\ Base <= threads
        BY <1>1, BaseIsLoop DEF Base
      <4> QED BY <1>2, <2>2, <3>1, <4>1, FiredMoves DEF HandleAccept
    <3>2. CASE FreeFds # {}
      <4>1. PICK rest \in BOOLEAN, asked \in BOOLEAN : NewConnection(nextConn, rest, asked)
        BY <2>2, <3>2 DEF HandleAccept
      <4>2. nextConn \in Conns
        BY <2>2, ServerBounds DEF HandleAccept, ServerInv, Shapes, Conns
      <4>3. LoopsMove
        BY <4>1, <4>2, NewConnectionMoves
      <4>4. /\ nextConn' = nextConn + 1 /\ connections' = connections \cup {nextConn}
            /\ next' = IF threads = 0 THEN next ELSE (next + 1) % threads
        BY <4>1 DEF NewConnection
      <4>5. threads # 0 => (next + 1) % threads \in 0 .. MaxThreads
        <5>1. threads # 0 => (next + 1) % threads \in Nat /\ (next + 1) % threads < threads
          BY RoundRobin DEF ServerInv
        <5> DEFINE n == (next + 1) % threads
        <5> HIDE DEF n
        <5>2. threads # 0 => n \in Nat /\ n < threads
          BY <5>1 DEF n
        <5>3. threads # 0 => n \in 0 .. MaxThreads
          BY <1>1, <5>2
        <5> QED BY <5>3 DEF n
      <4>6. next' \in 0 .. MaxThreads
        BY <1>1, <4>4, <4>5
      <4>7. aborted' = aborted
        BY <2>2 DEF HandleAccept
      <4> QED BY <1>1, <4>3, <4>4, <4>6, <4>7 DEF Counts
    <3> QED BY <3>1, <3>2
  <2>3. ASSUME NEW c \in Conns, HandleEvent(l, c) PROVE LoopsMove /\ Counts
    <3>1. l <= threads /\ c \in loop[l].fired
      BY <2>3 DEF HandleEvent, Runs
    <3>2. CASE HandleClose(l, c)
      <4>1. /\ nextConn' = nextConn /\ next' = next /\ connections' \subseteq connections
            /\ aborted' = aborted \/ aborted' = TRUE
        BY <3>2 DEF HandleClose, Abort
      <4> QED BY <1>2, <3>1, <3>2, <4>1, HandleCloseMoves
    <3>3. CASE HandleData(l, c)
      BY <1>2, <3>1, <3>3, FiredMoves DEF HandleData
    <3> QED BY <2>3, <3>2, <3>3 DEF HandleEvent
  <2>4. ASSUME NEW c \in Conns, DestroySocket(l, c) PROVE LoopsMove /\ Counts
    BY <1>2, <2>4, SameLoopsMove DEF DestroySocket
  <2>5. ASSUME NEW c \in Conns, DestroyChannel(l, c) PROVE LoopsMove /\ Counts
    BY <1>2, <2>5, DestroyChannelMoves DEF DestroyChannel
  <2>6. CASE SwapBatch(l)
    <3>1. UNCHANGED <<nextConn, next, connections, aborted>>
      BY <2>6, Zenon DEF SwapBatch
    <3> QED BY <1>2, <2>6, <3>1, SwapMoves
  <2>7. CASE ConnectEstablished(l)
    BY <1>2, <2>7, PoppedMoves DEF ConnectEstablished
  <2>8. CASE RemoveConnection(l)
    <3>1. /\ nextConn' = nextConn /\ next' = next /\ connections' \subseteq connections
          /\ aborted' = aborted \/ aborted' = TRUE
      BY <2>8, Zenon DEF RemoveConnection, Abort
    <3> QED BY <1>2, <2>8, <3>1, RemovalMoves
  <2>9. CASE ConnectDestroyed(l)
    BY <1>2, <2>9, PoppedMoves DEF ConnectDestroyed
  <2>10. CASE BatchDone(l)
    <3>1. /\ nextConn' = nextConn /\ next' = next /\ connections' \subseteq connections
          /\ aborted' = aborted \/ aborted' = TRUE
      BY <2>10, Zenon DEF BatchDone
    <3> QED BY <1>2, <2>10, <3>1, BatchDoneMoves
  <2> QED BY <1>3, <2>1, <2>2, <2>3, <2>4, <2>5, <2>6, <2>7, <2>8, <2>9, <2>10 DEF LoopStep
<1>4. ASSUME UNCHANGED <<loop, nextConn, next, connections, aborted>>
      PROVE  LoopsMove /\ Counts
  BY <1>2, <1>4, SameLoopsMove
<1>5. CASE PeerConnects
  BY <1>4, <1>5 DEF PeerConnects
<1>6. ASSUME NEW c \in Conns, PeerActs(c) PROVE LoopsMove /\ Counts
  BY <1>4, <1>6 DEF PeerActs
<1>7. CASE UNCHANGED vars
  BY <1>4, <1>7 DEF vars
<1> QED BY <1>3, <1>5, <1>6, <1>7 DEF Next

LEMMA TypedInit == Init => Typed
<1> SUFFICES ASSUME Init PROVE Typed
  OBVIOUS
<1>1. /\ threads \in 0 .. MaxThreads /\ next = 0 /\ nextConn = 1 /\ aborted = FALSE
      /\ connections = {} /\ conn = [c \in Conns |-> Unborn]
      /\ open = [f \in Fds |-> Nobody]
      /\ interest = [l \in Loops |-> [f \in Fds |-> Unregistered]]
      /\ loop = [l \in Loops |-> Idle]
  BY DEF Init, Idle
<1>2. Unborn \in ConnRecord
  BY <1>1, ServerBounds DEF Unborn, ConnRecord, States, Masks, Base
<1>3. Records
  BY <1>1, <1>2 DEF Records
<1>4. Kernel
  BY <1>1 DEF Kernel
<1>5. MapStates /\ UnstartedIdle
  BY <1>1 DEF MapStates, UnstartedIdle
<1>6. DestroyedLeft
  BY <1>1 DEF DestroyedLeft
<1>7. DyingLeft
  <2>1. Idle.held = {} /\ Idle.dying = {}
    BY DEF Idle
  <2> HIDE DEF Idle
  <2> QED BY <1>1, <2>1 DEF DyingLeft
<1>8. next \in 0 .. MaxThreads /\ aborted \in BOOLEAN
  <2>1. next \in 0 .. MaxThreads
    BY <1>1, ServerBounds
  <2>2. aborted \in BOOLEAN
    BY <1>1, Zenon
  <2> QED BY <2>1, <2>2
<1> QED BY <1>3, <1>4, <1>5, <1>6, <1>7, <1>8 DEF Typed

LEMMA TypedStep == ServerInv /\ Typed /\ [Next]_vars => Typed'
<1> SUFFICES ASSUME ServerInv, Typed, [Next]_vars PROVE Typed'
  OBVIOUS
<1>1. ServerInv' /\ threads' = threads
  BY InvStep, ThreadsStay
<1>2. Records' /\ MapStates'
  BY RecordsStep
<1>3. Kernel'
  BY KernelStep
<1>4. /\ LoopsMove /\ nextConn' \in Nat /\ nextConn <= nextConn'
      /\ connections' \subseteq connections \cup {nextConn}
      /\ next' \in 0 .. MaxThreads /\ aborted' \in BOOLEAN
  BY StepMoves
<1>5. UnstartedIdle' /\ DestroyedLeft' /\ DyingLeft'
  BY <1>1, <1>4, LoopsTyped
<1> QED BY <1>1, <1>2, <1>3, <1>4, <1>5 DEF Typed

(* TypeOK, for any number of loops: besides the types, a connection of the *)
(* map is neither disconnected nor being destroyed, since its              *)
(* connectDestroyed() is queued as it leaves the map, and a loop that was  *)
(* not started is never given a functor (TcpServer.cpp:81-89).             *)
THEOREM TypeCorrect == Spec => []TypeOK
<1>1. Init => ServerInv /\ Typed
  BY InvInit, TypedInit
<1>2. (ServerInv /\ Typed) /\ [Next]_vars => (ServerInv /\ Typed)'
  BY InvStep, TypedStep
<1> QED BY <1>1, <1>2, TypedTypes, PTL DEF Spec

----------------------------------------------------------------------------
(* A server with one loop.  Everything happens on the base loop, one thing *)
(* at a time: a connection leaves the map in the events of an iteration    *)
(* and is destroyed at the end of the same iteration, before the next poll *)
(* and the next accept.                                                    *)

Live(c) == /\ c < nextConn
           /\ conn[c].state \in {"connected", "disconnecting"}
           /\ open[conn[c].fd] = c /\ channelMap[Base][conn[c].fd] = c
           /\ interest[Base][conn[c].fd] \in LiveMasks

(* connectDestroyed() of c is queued or has run; the socket is still open. *)
Leaving(c) == c \in Conns /\ c < nextConn /\ c \notin connections /\ open[conn[c].fd] = c

(* c is being destroyed, and nobody else has its descriptor.               *)
Gone(c) == /\ c \in Conns /\ c < nextConn /\ c \notin connections
           /\ \A f \in Fds : channelMap[Base][f] # c
           /\ \/ open[conn[c].fd] = c
              \/ open[conn[c].fd] = Nobody /\ conn[c].state = "closing"

KernelShapes ==
  /\ open \in [Fds -> Conns \cup {Nobody}]
  /\ interest \in [Loops -> [Fds -> Masks \cup {Unregistered}]]
  /\ \A c \in Conns : "state" \in DOMAIN conn[c] /\ (c < nextConn => conn[c].fd \in Fds)

MapLive == \A c \in connections : Live(c)
FiredInMap == \A c \in loop[Base].fired : c # Acceptor => c \in connections
EntriesOpen == \A f \in Fds : channelMap[Base][f] # Nobody => open[f] = channelMap[Base][f]

QueuesLeaving ==
  /\ loop[Base].pending # << >> => loop[Base].place = "events"
  /\ loop[Base].held # {} => loop[Base].place = "batch"
  /\ \A i \in 1..Len(loop[Base].pending) :
       loop[Base].pending[i].op = "destroy" /\ Leaving(loop[Base].pending[i].conn)
  /\ \A i \in 1..Len(loop[Base].batch) :
       loop[Base].batch[i].op = "destroy" /\ Leaving(loop[Base].batch[i].conn)
  /\ \A c \in loop[Base].held : Leaving(c)

DyingGone == \A c \in loop[Base].dying : Gone(c)

Alone == /\ threads = 0 /\ ~aborted /\ KernelShapes /\ MapLive /\ FiredInMap
         /\ EntriesOpen /\ QueuesLeaving /\ DyingGone

(* What the steps that leave the kernel and the map alone do to states.    *)
StatesKept ==
  \A c \in Conns : /\ "state" \in DOMAIN conn'[c]
                   /\ c \in connections => conn'[c].state \in {"connected", "disconnecting"}
                   /\ conn[c].state = "closing" => conn'[c].state = "closing"

(* A mask that epoll is told is that of a live connection.                 *)
InterestLives ==
  /\ interest' \in [Loops -> [Fds -> Masks \cup {Unregistered}]]
  /\ \A f \in Fds : interest'[Base][f] = interest[Base][f] \/ interest'[Base][f] \in LiveMasks

LEMMA KernelStays ==
  ASSUME ServerInv, Alone, HomesKept, StatesKept, InterestLives,
         UNCHANGED <<open, channelMap, connections, nextConn>>
  PROVE  /\ KernelShapes' /\ MapLive' /\ EntriesOpen'
         /\ \A c : Leaving(c) => Leaving(c)'
         /\ \A c : Gone(c) => Gone(c)'
<1>1. KernelShapes'
  BY DEF Alone, KernelShapes, HomesKept, StatesKept, InterestLives
<1>2. EntriesOpen'
  BY DEF Alone, EntriesOpen
<1>3. \A c : Leaving(c) => Leaving(c)'
  BY DEF Leaving, HomesKept
<1>4. \A c : Gone(c) => Gone(c)'
  BY DEF Gone, HomesKept, StatesKept
<1>5. MapLive'
  <2> SUFFICES ASSUME NEW c \in connections PROVE Live(c)'
    BY DEF MapLive, Live
  <2>1. c \in Conns /\ Live(c) /\ conn[c].fd \in Fds
    BY DEF ServerInv, Shapes, Alone, MapLive, Live, KernelShapes
  <2> QED BY <2>1 DEF Live, HomesKept, StatesKept, InterestLives
<1> QED BY <1>1, <1>2, <1>3, <1>4, <1>5

(* A step that leaves the kernel, the map and the queues alone.            *)
KernelQuiet ==
  /\ UNCHANGED <<threads, open, channelMap, connections, nextConn, aborted>>
  /\ InterestLives

LEMMA InterestStays ==
  ASSUME Alone, interest' = interest
  PROVE  InterestLives
BY DEF Alone, KernelShapes, InterestLives

QueuesQuiet ==
  /\ loop'[Base].pending = loop[Base].pending /\ loop'[Base].batch = loop[Base].batch
  /\ loop'[Base].held = loop[Base].held /\ loop'[Base].dying = loop[Base].dying
  /\ \/ loop'[Base].place = loop[Base].place
     \/ loop'[Base].place = "events" /\ loop[Base].place = "wait"

LEMMA AloneStays ==
  ASSUME ServerInv, Alone, HomesKept, StatesKept, KernelQuiet, QueuesQuiet, FiredInMap'
  PROVE  Alone'
<1> USE DEF KernelQuiet, QueuesQuiet
<1>1. /\ KernelShapes' /\ MapLive' /\ EntriesOpen'
      /\ \A c : Leaving(c) => Leaving(c)'
      /\ \A c : Gone(c) => Gone(c)'
  BY KernelStays
<1>2. DyingGone'
  BY <1>1 DEF Alone, DyingGone, Gone
<1>3. QueuesLeaving'
  <2> DEFINE p == loop[Base].pending
             b == loop[Base].batch
  <2>1. /\ \A i \in 1..Len(p) : p[i].op = "destroy" /\ Leaving(p[i].conn)
        /\ \A i \in 1..Len(b) : b[i].op = "destroy" /\ Leaving(b[i].conn)
    BY DEF Alone, QueuesLeaving
  <2>2. \A c \in loop[Base].held : Leaving(c)'
    BY <1>1 DEF Alone, QueuesLeaving
  <2>3. /\ p # << >> => loop'[Base].place = "events"
        /\ loop[Base].held # {} => loop'[Base].place = "batch"
    BY DEF Alone, QueuesLeaving
  <2>4. loop'[Base].pending = p /\ loop'[Base].batch = b /\ loop'[Base].held = loop[Base].held
    OBVIOUS
  <2> HIDE DEF p, b
  <2>5. ASSUME NEW i \in 1..Len(p), NEW d, d = p[i].conn
        PROVE  p[i].op = "destroy" /\ Leaving(d)'
    BY <1>1, <2>1, <2>5
  <2>6. ASSUME NEW i \in 1..Len(b), NEW d, d = b[i].conn
        PROVE  b[i].op = "destroy" /\ Leaving(d)'
    BY <1>1, <2>1, <2>6
  <2> QED BY <2>2, <2>3, <2>4, <2>5, <2>6 DEF QueuesLeaving, Leaving
<1> QED BY <1>1, <1>2, <1>3 DEF Alone

LEMMA AlonePoll ==
  ASSUME ServerInv, Alone, NEW W \in SUBSET Fds, Poll(Base, W)
  PROVE  Alone'
<1> DEFINE accept == IF Base = Base /\ backlog > 0 THEN {Acceptor} ELSE {}
           chans == {channelMap[Base][f] : f \in FiredFds(Base, W)}
<1>1. /\ loop' = [loop EXCEPT ![Base].place = "events", ![Base].fired = accept \cup chans]
      /\ loop[Base].place = "wait" /\ accept \subseteq {Acceptor}
      /\ UNCHANGED <<threads, open, channelMap, interest, connections, nextConn, aborted>>
  BY DEF Poll
<1>2. HomesKept
  BY DEF Poll, ServerInv, Shapes, HomesKept
<1>3. StatesKept
  <2>1. \A c \in Conns : "state" \in DOMAIN conn'[c] /\ conn'[c].state = conn[c].state
    BY DEF Poll, Alone, KernelShapes
  <2>2. \A c \in connections : conn[c].state \in {"connected", "disconnecting"}
    BY DEF Alone, MapLive, Live
  <2> QED BY <2>1, <2>2 DEF StatesKept
<1>4. \A c \in chans : c \in connections
  <2> SUFFICES ASSUME NEW f \in Fds, channelMap[Base][f] # Nobody
               PROVE  channelMap[Base][f] \in connections
    BY DEF FiredFds
  <2>1. loop[Base].batch = << >> /\ loop[Base].pending = << >>
    BY <1>1, BaseIsLoop DEF Alone, QueuesLeaving, ServerInv, Phases
  <2>2. \A d : ~Destroying(Base, d)
    BY <2>1 DEF Destroying, Occurs
  <2> QED BY <2>2, BaseIsLoop DEF ServerInv, EntriesKept, Kept
<1>5. loop \in [Loops -> LoopRecord] /\ Base \in Loops
  BY BaseIsLoop DEF ServerInv, Shapes
<1> HIDE DEF accept, chans
<1>6. /\ loop'[Base].batch = loop[Base].batch /\ loop'[Base].pending = loop[Base].pending
      /\ loop'[Base].held = loop[Base].held /\ loop'[Base].dying = loop[Base].dying
      /\ loop'[Base].place = "events" /\ loop'[Base].fired = accept \cup chans
  BY <1>1, <1>5 DEF LoopRecord
<1>7. FiredInMap'
  BY <1>1, <1>4, <1>6 DEF FiredInMap
<1>8. KernelQuiet
  BY <1>1, InterestStays DEF KernelQuiet
<1>9. QueuesQuiet
  BY <1>1, <1>6 DEF QueuesQuiet
<1> QED BY <1>2, <1>3, <1>7, <1>8, <1>9, AloneStays

LEMMA AloneHandleData ==
  ASSUME ServerInv, Typed, Alone, NEW c \in Conns, c \in loop[Base].fired,
         "hup" \notin conn[c].event, HandleData(Base, c)
  PROVE  Alone'
<1>1. loop \in [Loops -> LoopRecord] /\ Base \in Loops
      /\ loop' = [loop EXCEPT ![Base].fired = @ \ {c}]
  BY BaseIsLoop DEF ServerInv, Shapes, HandleData
<1>2. PICK rest \in BOOLEAN, asked \in BOOLEAN, emptied \in BOOLEAN :
        /\ conn' = [conn EXCEPT ![c] = Handled(conn[c], rest, asked, emptied)]
        /\ \/ /\ Read(conn[c], rest, asked).event = conn[c].event
              /\ Handled(conn[c], rest, asked, emptied).event =
                   Read(conn[c], rest, asked).event
              /\ UNCHANGED <<channelMap, interest>>
           \/ /\ ~ /\ Read(conn[c], rest, asked).event = conn[c].event
                   /\ Handled(conn[c], rest, asked, emptied).event =
                        Read(conn[c], rest, asked).event
              /\ UpdateEvent(Base, c, Handled(conn[c], rest, asked, emptied).event)
  BY <1>1, HandleDataIs
<1> DEFINE r == Handled(conn[c], rest, asked, emptied)
<1>3. conn[c] \in ConnRecord /\ r \in ConnRecord
      /\ conn \in [Conns -> ConnRecord]
  BY HandledTyped DEF Typed, Records
<1>4. \/ /\ Read(conn[c], rest, asked).event = conn[c].event
         /\ r.event = Read(conn[c], rest, asked).event
      \/ r.event \in LiveMasks
  BY <1>3, HandledTyped
<1>5. c \in connections /\ Live(c) /\ conn[c].fd \in Fds
  BY BaseIsLoop DEF Alone, FiredInMap, MapLive, Live, KernelShapes
<1>6. r.state \in {"connected", "disconnecting"}
  BY <1>3, <1>5, HandledLive DEF Live
<1> DEFINE quiet == /\ Read(conn[c], rest, asked).event = conn[c].event
                    /\ r.event = Read(conn[c], rest, asked).event
<1>q. /\ conn' = [conn EXCEPT ![c] = r]
      /\ (quiet /\ UNCHANGED <<channelMap, interest>>) \/ (~quiet /\ UpdateEvent(Base, c, r.event))
      /\ quiet \/ r.event \in LiveMasks
  BY <1>2, <1>4
<1> HIDE DEF r, quiet
<1>7. /\ conn' = [conn EXCEPT ![c] = r]
      /\ \/ UNCHANGED <<channelMap, interest>>
         \/ r.event \in LiveMasks /\ UpdateEvent(Base, c, r.event)
  BY <1>q
<1>8. HomesKept
  BY <1>1, HandleDataHomes
<1>9. StatesKept
  <2>1. \A d \in Conns : conn'[d] = conn[d] \/ (d = c /\ conn'[d] = r)
    BY <1>3, <1>7
  <2>2. "state" \in DOMAIN r /\ \A d \in Conns : "state" \in DOMAIN conn[d]
    BY <1>3 DEF ConnRecord
  <2>3. conn[c].state # "closing"
    BY <1>5 DEF Live
  <2> QED BY <1>6, <2>1, <2>2, <2>3 DEF StatesKept, Alone, MapLive, Live
<1>10. channelMap' = channelMap /\ InterestLives
  <2>1. channelMap[Base][conn[c].fd] # Nobody
    BY <1>5, BaseIsLoop DEF Live
  <2>2. CASE UNCHANGED <<channelMap, interest>>
    BY <2>2, InterestStays
  <2>3. CASE r.event \in LiveMasks /\ UpdateEvent(Base, c, r.event)
    <3> DEFINE f == conn[c].fd
               v == IF interest[Base][f] = Unregistered THEN Unregistered ELSE r.event
    <3>1. interest \in [Loops -> [Fds -> Masks \cup {Unregistered}]]
      BY DEF Alone, KernelShapes
    <3>2. channelMap' = channelMap /\ interest' = [interest EXCEPT ![Base][f] = v]
      BY <1>1, <1>5, <2>1, <2>3, <3>1 DEF UpdateEvent
    <3>3. v \in LiveMasks \/ v = interest[Base][f]
      BY <2>3
    <3>4. v \in Masks \cup {Unregistered}
      BY <1>3 DEF ConnRecord
    <3> HIDE DEF f, v
    <3>5. interest' \in [Loops -> [Fds -> Masks \cup {Unregistered}]]
      BY <1>1, <3>2, <3>4, InterestTyped
    <3> QED BY <1>1, <3>1, <3>2, <3>3, <3>5 DEF InterestLives
  <2> QED BY <1>7, <2>2, <2>3
<1>11. /\ loop'[Base].batch = loop[Base].batch /\ loop'[Base].pending = loop[Base].pending
       /\ loop'[Base].held = loop[Base].held /\ loop'[Base].dying = loop[Base].dying
       /\ loop'[Base].place = loop[Base].place
       /\ loop'[Base].fired = loop[Base].fired \ {c}
  BY <1>1 DEF LoopRecord
<1>12. UNCHANGED <<threads, open, connections, nextConn, aborted>>
  BY DEF HandleData
<1>13. FiredInMap'
  BY <1>11, <1>12 DEF FiredInMap, Alone
<1>14. KernelQuiet
  BY <1>10, <1>12 DEF KernelQuiet
<1>15. QueuesQuiet
  BY <1>11 DEF QueuesQuiet
<1> QED BY <1>8, <1>9, <1>13, <1>14, <1>15, AloneStays

LEMMA AloneRefused ==
  ASSUME ServerInv, Alone, HandleAccept, FreeFds = {}
  PROVE  Alone'
<1>1. loop \in [Loops -> LoopRecord] /\ Base \in Loops
      /\ loop' = [loop EXCEPT ![Base].fired = @ \ {Acceptor}]
      /\ UNCHANGED <<threads, open, channelMap, interest, connections, nextConn, aborted, conn>>
  BY BaseIsLoop DEF ServerInv, Shapes, HandleAccept
<1>2. HomesKept
  BY <1>1 DEF HomesKept, ServerInv, Shapes
<1>3. StatesKept
  BY <1>1 DEF StatesKept, Alone, MapLive, Live, KernelShapes
<1>4. /\ loop'[Base].batch = loop[Base].batch /\ loop'[Base].pending = loop[Base].pending
      /\ loop'[Base].held = loop[Base].held /\ loop'[Base].dying = loop[Base].dying
      /\ loop'[Base].place = loop[Base].place
      /\ loop'[Base].fired = loop[Base].fired \ {Acceptor}
  BY <1>1 DEF LoopRecord
<1>5. FiredInMap'
  BY <1>1, <1>4 DEF FiredInMap, Alone
<1>6. KernelQuiet
  BY <1>1, InterestStays DEF KernelQuiet
<1>7. QueuesQuiet
  BY <1>4 DEF QueuesQuiet
<1> QED BY <1>2, <1>3, <1>5, <1>6, <1>7, AloneStays

LEMMA AlonePeerActs ==
  ASSUME ServerInv, Alone, NEW c \in Conns, PeerActs(c)
  PROVE  Alone'
<1>1. UNCHANGED <<threads, open, channelMap, interest, connections, nextConn, aborted, loop>>
  BY DEF PeerActs
<1>2. HomesKept
  BY DEF HomesKept, PeerActs, ServerInv, Shapes
<1>3. StatesKept
  <2>1. DOMAIN conn = Conns /\ \A d \in Conns : "state" \in DOMAIN conn[d]
    BY DEF Alone, KernelShapes, ServerInv, Shapes
  <2>2. \A d \in Conns : "state" \in DOMAIN conn'[d] /\ conn'[d].state = conn[d].state
    BY <2>1 DEF PeerActs
  <2> QED BY <2>2 DEF StatesKept, Alone, MapLive, Live
<1>4. FiredInMap'
  BY <1>1 DEF FiredInMap, Alone
<1>5. KernelQuiet
  BY <1>1, InterestStays DEF KernelQuiet
<1>6. QueuesQuiet
  BY <1>1 DEF QueuesQuiet
<1> QED BY <1>2, <1>3, <1>4, <1>5, <1>6, AloneStays

LEMMA AloneSame ==
  ASSUME ServerInv, Alone,
         UNCHANGED <<threads, open, channelMap, interest, connections, nextConn, aborted,
                     loop, conn>>
  PROVE  Alone'
<1>1. HomesKept
  BY DEF HomesKept, ServerInv, Shapes
<1>2. StatesKept
  BY DEF StatesKept, Alone, MapLive, Live, KernelShapes
<1>3. FiredInMap'
  BY DEF FiredInMap, Alone
<1>4. KernelQuiet
  BY InterestStays DEF KernelQuiet
<1>5. QueuesQuiet
  BY DEF QueuesQuiet
<1> QED BY <1>1, <1>2, <1>3, <1>4, <1>5, AloneStays

(* With one loop only the base loop runs, and its functors only destroy.   *)
LEMMA AloneRuns ==
  ASSUME ServerInv, Alone, NEW l \in Loops, Runs(l)
  PROVE  l = Base
BY DEF Alone, Runs, Loops, Base

LEMMA AloneHead ==
  ASSUME ServerInv, Alone, loop[Base].batch # << >>
  PROVE  /\ Head(loop[Base].batch).op = "destroy"
         /\ Leaving(Head(loop[Base].batch).conn)
         /\ \A i \in 1..Len(Tail(loop[Base].batch)) :
              /\ Tail(loop[Base].batch)[i].op = "destroy"
              /\ Leaving(Tail(loop[Base].batch)[i].conn)
<1> DEFINE b == loop[Base].batch
<1>1. b \in Seq(Tasks) /\ b # << >>
  BY QueueTypes, BaseIsLoop DEF ServerInv
<1>2. \A i \in 1..Len(b) : b[i].op = "destroy" /\ Leaving(b[i].conn)
  BY DEF Alone, QueuesLeaving
<1> HIDE DEF b
<1>3. Head(b) = b[1] /\ 1 \in 1..Len(b)
      /\ \A i \in 1..Len(Tail(b)) : i + 1 \in 1..Len(b) /\ Tail(b)[i] = b[i + 1]
  BY <1>1, TailQueue
<1>4. Head(b).op = "destroy" /\ Leaving(Head(b).conn)
  BY <1>2, <1>3
<1>5. ASSUME NEW i \in 1..Len(Tail(b))
      PROVE  Tail(b)[i].op = "destroy" /\ Leaving(Tail(b)[i].conn)
  BY <1>2, <1>3
<1> QED BY <1>4, <1>5 DEF b

LEMMA AloneSwapBatch ==
  ASSUME ServerInv, Alone, SwapBatch(Base)
  PROVE  Alone'
<1> DEFINE p == loop[Base].pending
           H == {t.conn : t \in ToSet(p)}
<1>1. /\ loop' = [loop EXCEPT ![Base].place = "batch", ![Base].batch = p,
                              ![Base].pending = << >>, ![Base].held = H]
      /\ loop[Base].place = "events" /\ loop[Base].fired = {}
      /\ KernelQuiet /\ conn' = conn
  BY InterestStays DEF SwapBatch, KernelQuiet
<1>2. p \in Seq(Tasks) /\ \A i \in 1..Len(p) : p[i].op = "destroy" /\ Leaving(p[i].conn)
  BY QueueTypes, BaseIsLoop DEF ServerInv, Alone, QueuesLeaving
<1>3. \A c \in H : Leaving(c)
  <2> HIDE DEF p
  <2> QED BY <1>2 DEF ToSet
<1>4. loop \in [Loops -> LoopRecord] /\ Base \in Loops
  BY BaseIsLoop DEF ServerInv, Shapes
<1> HIDE DEF p, H
<1>5. /\ loop'[Base].place = "batch" /\ loop'[Base].batch = p /\ loop'[Base].pending = << >>
      /\ loop'[Base].held = H /\ loop'[Base].fired = {}
      /\ loop'[Base].dying = loop[Base].dying
  BY <1>1, <1>4 DEF LoopRecord
<1>6. HomesKept /\ StatesKept
  BY <1>1 DEF HomesKept, StatesKept, ServerInv, Shapes, Alone, MapLive, Live, KernelShapes
<1>7. /\ KernelShapes' /\ MapLive' /\ EntriesOpen'
      /\ \A c : Leaving(c) => Leaving(c)'
      /\ \A c : Gone(c) => Gone(c)'
  BY <1>1, <1>6, KernelStays DEF KernelQuiet
<1>8. QueuesLeaving'
  <2>1. \A c \in H : Leaving(c)'
    BY <1>3, <1>7
  <2>2. ASSUME NEW i \in 1..Len(p), NEW d, d = p[i].conn
        PROVE  p[i].op = "destroy" /\ Leaving(d)'
    BY <1>2, <1>7, <2>2
  <2> QED BY <1>5, <2>1, <2>2 DEF QueuesLeaving, Leaving
<1>9. DyingGone' /\ FiredInMap'
  BY <1>5, <1>7 DEF Alone, DyingGone, FiredInMap, Gone
<1> QED BY <1>1, <1>7, <1>8, <1>9 DEF Alone, KernelQuiet

LEMMA AloneBatchDone ==
  ASSUME ServerInv, Alone, BatchDone(Base)
  PROVE  Alone'
<1>1. PICK orphans \in SUBSET loop[Base].held :
        loop' = [[loop EXCEPT ![Base].held = {}] EXCEPT
                   ![Base].dying = orphans,
                   ![Base].place = IF orphans = {} THEN "wait" ELSE "release"]
  BY DEF BatchDone
<1> DEFINE place == IF orphans = {} THEN "wait" ELSE "release"
<1>2. /\ loop \in [Loops -> LoopRecord] /\ Base \in Loops
      /\ loop[Base].place = "batch" /\ loop[Base].batch = << >>
      /\ KernelQuiet /\ conn' = conn
  BY BaseIsLoop, InterestStays DEF ServerInv, Shapes, BatchDone, KernelQuiet
<1>3. /\ loop'[Base].place \in {"wait", "release"} /\ loop'[Base].batch = << >>
      /\ loop'[Base].pending = loop[Base].pending
      /\ loop'[Base].held = {} /\ loop'[Base].fired = loop[Base].fired
      /\ loop'[Base].dying = orphans
  <2>1. loop' = [loop EXCEPT ![Base].held = {}, ![Base].dying = orphans, ![Base].place = place]
    BY <1>1
  <2>2. place \in {"wait", "release"}
    OBVIOUS
  <2> HIDE DEF place
  <2> QED BY <1>2, <2>1, <2>2 DEF LoopRecord
<1>4. loop[Base].pending = << >> /\ loop[Base].fired = {}
  BY <1>2 DEF Alone, QueuesLeaving, ServerInv, Phases
<1>5. HomesKept /\ StatesKept
  BY <1>2 DEF HomesKept, StatesKept, ServerInv, Shapes, Alone, MapLive, Live, KernelShapes
<1>6. /\ KernelShapes' /\ MapLive' /\ EntriesOpen'
      /\ \A c : Leaving(c) => Leaving(c)'
      /\ \A c : Gone(c) => Gone(c)'
  BY <1>2, <1>5, KernelStays DEF KernelQuiet
<1>7. QueuesLeaving' /\ FiredInMap'
  BY <1>3, <1>4 DEF QueuesLeaving, FiredInMap
<1>8. ASSUME NEW c \in orphans PROVE Gone(c)
  <2>1. Leaving(c)
    BY <1>1 DEF Alone, QueuesLeaving
  <2>2. ~Destroying(Base, c)
    BY <1>2, <1>4 DEF Destroying, Occurs
  <2>3. \A f \in Fds : channelMap[Base][f] # c
    <3> SUFFICES ASSUME NEW f \in Fds, channelMap[Base][f] = c PROVE FALSE
      OBVIOUS
    <3>1. c # Nobody
      BY <2>1, BaseIsLoop DEF Leaving
    <3>2. Kept(Base, channelMap[Base][f])
      BY <1>2, <3>1 DEF ServerInv, EntriesKept
    <3> QED BY <2>1, <2>2, <3>2 DEF Kept, Leaving
  <2> QED BY <2>1, <2>3 DEF Leaving, Gone
<1>9. DyingGone'
  BY <1>3, <1>6, <1>8 DEF DyingGone, Gone
<1> QED BY <1>2, <1>6, <1>7, <1>9 DEF Alone, KernelQuiet

(* While connections are destroyed, nothing is queued and nothing fires.   *)
LEMMA AloneRelease ==
  ASSUME ServerInv, Alone, NEW c \in loop[Base].dying
  PROVE  /\ loop[Base].place = "release" /\ loop[Base].pending = << >>
         /\ loop[Base].batch = << >> /\ loop[Base].held = {} /\ loop[Base].fired = {}
         /\ Gone(c)
<1>1. loop[Base].place = "release"
  BY BaseIsLoop DEF ServerInv, Phases
<1> QED BY <1>1, BaseIsLoop DEF ServerInv, Phases, Alone, QueuesLeaving, DyingGone

(* Closing the descriptor of a connection that is being destroyed.         *)
LEMMA AloneClose ==
  ASSUME ServerInv, Alone, HomesKept, NEW c \in Conns, c \in loop[Base].dying,
         Close(conn[c].fd), "state" \in DOMAIN conn'[c],
         \A d \in Conns : d # c => conn'[d] = conn[d],
         UNCHANGED <<nextConn, connections, channelMap>>
  PROVE  /\ KernelShapes' /\ MapLive' /\ EntriesOpen'
         /\ \A d \in loop[Base].dying : d # c \/ conn'[c].state = "closing" => Gone(d)'
<1> DEFINE f == conn[c].fd
<1>1. /\ Gone(c) /\ f \in Fds
      /\ open' = [open EXCEPT ![f] = Nobody]
      /\ interest' = [l \in Loops |-> [interest[l] EXCEPT ![f] = Unregistered]]
      /\ open \in [Fds -> Conns \cup {Nobody}]
      /\ interest \in [Loops -> [Fds -> Masks \cup {Unregistered}]]
      /\ \A d \in Conns : "state" \in DOMAIN conn[d] /\ (d < nextConn => conn[d].fd \in Fds)
  BY AloneRelease DEF Alone, KernelShapes, Close, Gone
<1>2. \A d \in Conns : conn'[d].fd = conn[d].fd /\ "state" \in DOMAIN conn'[d]
  BY <1>1 DEF HomesKept
<1> HIDE DEF f
<1>3. open[f] \in {c, Nobody}
  BY <1>1 DEF Gone, f
<1>4. \A d \in Conns : d # c /\ d < nextConn /\ open[conn[d].fd] = d => conn[d].fd # f
  BY <1>3, BaseIsLoop
<1>5. KernelShapes'
  <2>1. open' \in [Fds -> Conns \cup {Nobody}]
    BY <1>1
  <2>2. interest' \in [Loops -> [Fds -> Masks \cup {Unregistered}]]
    BY <1>1
  <2> QED BY <1>1, <1>2, <2>1, <2>2 DEF KernelShapes
<1>6. MapLive'
  <2> SUFFICES ASSUME NEW d \in connections
               PROVE  Live(d)'
    BY DEF MapLive, Live
  <2>1. d \in Conns /\ Live(d) /\ d # c
    BY <1>1 DEF ServerInv, Shapes, Alone, MapLive, Gone
  <2>2. conn[d].fd # f /\ conn[d].fd \in Fds /\ conn'[d] = conn[d]
    BY <1>1, <1>4, <2>1 DEF Live
  <2>3. open'[conn[d].fd] = d /\ interest'[Base][conn[d].fd] \in LiveMasks
    BY <1>1, <2>1, <2>2, BaseIsLoop DEF Live
  <2> QED BY <2>1, <2>2, <2>3 DEF Live
<1>7. EntriesOpen'
  <2> SUFFICES ASSUME NEW g \in Fds, channelMap[Base][g] # Nobody
               PROVE  open'[g] = channelMap[Base][g]
    BY DEF EntriesOpen
  <2>1. open[g] = channelMap[Base][g] /\ channelMap[Base][g] # c
    BY <1>1 DEF Alone, EntriesOpen, Gone
  <2>2. g # f
    BY <1>3, <2>1
  <2> QED BY <1>1, <2>1, <2>2
<1>8. ASSUME NEW d \in loop[Base].dying, d # c \/ conn'[c].state = "closing"
      PROVE  Gone(d)'
  <2>1. Gone(d) /\ d \in Conns
    BY DEF Alone, DyingGone, Gone
  <2>2. CASE d = c
    <3>1. open'[conn'[c].fd] = Nobody
      BY <1>1, <1>2 DEF f
    <3> QED BY <1>8, <2>1, <2>2, <3>1 DEF Gone
  <2>3. CASE d # c
    <3>1. conn'[d] = conn[d] /\ conn[d].fd \in Fds
      BY <1>1, <2>1, <2>3 DEF Gone
    <3>2. CASE open[conn[d].fd] = d
      <4>1. open'[conn[d].fd] = d
        BY <1>1, <1>4, <2>1, <2>3, <3>1, <3>2 DEF Gone
      <4> QED BY <2>1, <3>1, <4>1 DEF Gone
    <3>3. CASE open[conn[d].fd] = Nobody
      <4>1. open'[conn[d].fd] = Nobody /\ conn[d].state = "closing"
        BY <1>1, <2>1, <3>1, <3>3, BaseIsLoop DEF Gone
      <4> QED BY <2>1, <3>1, <4>1 DEF Gone
    <3> QED BY <2>1, <3>2, <3>3 DEF Gone
  <2> QED BY <2>2, <2>3
<1> QED BY <1>5, <1>6, <1>7, <1>8

LEMMA AloneDestroySocket ==
  ASSUME ServerInv, Alone, NEW c \in Conns, DestroySocket(Base, c)
  PROVE  Alone'
<1>1. /\ c \in loop[Base].dying /\ Close(conn[c].fd)
      /\ conn' = [conn EXCEPT ![c].state = "closing"]
      /\ UNCHANGED <<threads, nextConn, connections, channelMap, loop, aborted>>
  BY DEF DestroySocket
<1>2. HomesKept /\ "state" \in DOMAIN conn'[c] /\ conn'[c].state = "closing"
      /\ \A d \in Conns : d # c => conn'[d] = conn[d]
  BY <1>1 DEF HomesKept, ServerInv, Shapes, Alone, KernelShapes
<1>3. KernelShapes' /\ MapLive' /\ EntriesOpen'
      /\ \A d \in loop[Base].dying : d # c \/ conn'[c].state = "closing" => Gone(d)'
  BY <1>1, <1>2, AloneClose
<1>4. DyingGone'
  BY <1>1, <1>2, <1>3 DEF DyingGone, Gone
<1>5. QueuesLeaving' /\ FiredInMap'
  BY <1>1, AloneRelease DEF QueuesLeaving, FiredInMap
<1> QED BY <1>1, <1>3, <1>4, <1>5 DEF Alone

LEMMA AloneDestroyChannel ==
  ASSUME ServerInv, Alone, NEW c \in Conns, DestroyChannel(Base, c)
  PROVE  Alone'
<1> DEFINE place == IF loop[Base].dying = {c} THEN "wait" ELSE loop[Base].place
<1>1. /\ c \in loop[Base].dying /\ Close(conn[c].fd)
      /\ conn' = [conn EXCEPT ![c].state = "freed"]
      /\ loop' = [loop EXCEPT ![Base].dying = @ \ {c}, ![Base].place = place]
      /\ UNCHANGED <<threads, nextConn, connections, channelMap, aborted>>
  BY DEF DestroyChannel
<1>2. HomesKept /\ "state" \in DOMAIN conn'[c]
      /\ \A d \in Conns : d # c => conn'[d] = conn[d]
  BY <1>1 DEF HomesKept, ServerInv, Shapes, Alone, KernelShapes
<1>3. KernelShapes' /\ MapLive' /\ EntriesOpen'
      /\ \A d \in loop[Base].dying : d # c => Gone(d)'
  BY <1>1, <1>2, AloneClose
<1>4. loop \in [Loops -> LoopRecord] /\ Base \in Loops
  BY BaseIsLoop DEF ServerInv, Shapes
<1>5. /\ loop[Base].pending = << >> /\ loop[Base].batch = << >>
      /\ loop[Base].held = {} /\ loop[Base].fired = {}
  BY <1>1, AloneRelease
<1> HIDE DEF place
<1>6. /\ loop'[Base].pending = << >> /\ loop'[Base].batch = << >>
      /\ loop'[Base].held = {} /\ loop'[Base].fired = {}
      /\ loop'[Base].dying = loop[Base].dying \ {c}
  BY <1>1, <1>4, <1>5 DEF LoopRecord
<1>7. DyingGone'
  BY <1>3, <1>6 DEF DyingGone, Gone
<1>8. QueuesLeaving' /\ FiredInMap'
  BY <1>6 DEF QueuesLeaving, FiredInMap
<1> QED BY <1>1, <1>3, <1>7, <1>8 DEF Alone

(* What the map says of its connections.                                   *)
LEMMA AloneMap ==
  ASSUME ServerInv, Alone, NEW d \in connections
  PROVE  d \in Conns /\ Live(d) /\ conn[d].fd \in Fds
BY DEF ServerInv, Shapes, Alone, MapLive, Live, KernelShapes

LEMMA AloneConnectDestroyed ==
  ASSUME ServerInv, Alone, ConnectDestroyed(Base)
  PROVE  Alone'
<1> DEFINE b == loop[Base].batch
           c == Head(b).conn
           f == conn[c].fd
<1>1. /\ conn' = [conn EXCEPT ![c].state = "disconnected", ![c].event = {}]
      /\ channelMap' = [channelMap EXCEPT ![Base][f] = Nobody]
      /\ interest' = [interest EXCEPT ![Base][f] = Unregistered]
      /\ loop' = [loop EXCEPT ![Base].batch = Tail(@)]
      /\ loop[Base].place = "batch" /\ b # << >>
      /\ UNCHANGED <<threads, open, connections, nextConn, aborted>>
  BY DEF ConnectDestroyed, Takes, Popped
<1>2. /\ Leaving(c)
      /\ \A i \in 1..Len(Tail(b)) : Tail(b)[i].op = "destroy" /\ Leaving(Tail(b)[i].conn)
  BY <1>1, AloneHead
<1>3. loop \in [Loops -> LoopRecord] /\ Base \in Loops
      /\ channelMap \in [Loops -> [Fds -> Conns \cup {Nobody}]]
      /\ interest \in [Loops -> [Fds -> Masks \cup {Unregistered}]]
  BY BaseIsLoop DEF ServerInv, Shapes, Alone, KernelShapes
<1>4. loop[Base].fired = {} /\ loop[Base].dying = {} /\ loop[Base].pending = << >>
  BY <1>1, <1>3 DEF Alone, QueuesLeaving, ServerInv, Phases
<1>5. /\ loop'[Base].batch = Tail(b) /\ loop'[Base].held = loop[Base].held
      /\ loop'[Base].fired = {} /\ loop'[Base].dying = {} /\ loop'[Base].pending = << >>
      /\ loop'[Base].place = "batch"
  BY <1>1, <1>3, <1>4 DEF LoopRecord
<1> HIDE DEF b, c
<1>6. HomesKept /\ "state" \in DOMAIN conn'[c]
      /\ \A d \in Conns : d # c => conn'[d] = conn[d]
  BY <1>1, <1>2 DEF HomesKept, ServerInv, Shapes, Alone, KernelShapes, Leaving
<1>7. open[f] = c /\ c \in Conns /\ c \notin connections /\ f \in Fds
  BY <1>2 DEF Leaving, Alone, KernelShapes
<1>8. \A d \in Conns : /\ conn'[d].fd = conn[d].fd /\ "state" \in DOMAIN conn'[d]
                       /\ d < nextConn => conn[d].fd \in Fds
  BY <1>6 DEF HomesKept, Alone, KernelShapes
<1> HIDE DEF f
<1>9. KernelShapes'
  <2>1. interest' \in [Loops -> [Fds -> Masks \cup {Unregistered}]]
    BY <1>1, <1>3
  <2> QED BY <1>1, <1>8, <2>1 DEF Alone, KernelShapes
<1>10. MapLive'
  <2> SUFFICES ASSUME NEW d \in connections PROVE Live(d)'
    BY <1>1 DEF MapLive, Live
  <2>1. d \in Conns /\ Live(d) /\ conn[d].fd \in Fds /\ d # c
    BY <1>7, AloneMap
  <2>2. conn[d].fd # f /\ conn'[d] = conn[d]
    BY <1>6, <1>7, <2>1 DEF Live
  <2>3. channelMap'[Base][conn[d].fd] = d /\ interest'[Base][conn[d].fd] \in LiveMasks
    BY <1>1, <1>3, <2>1, <2>2 DEF Live
  <2> QED BY <1>1, <2>1, <2>2, <2>3 DEF Live
<1>11. EntriesOpen'
  <2> SUFFICES ASSUME NEW g \in Fds, channelMap'[Base][g] # Nobody
               PROVE  open[g] = channelMap'[Base][g]
    BY <1>1 DEF EntriesOpen
  <2>1. channelMap'[Base][g] = channelMap[Base][g]
    BY <1>1, <1>3
  <2> QED BY <2>1 DEF Alone, EntriesOpen
<1>12. \A d : Leaving(d) => Leaving(d)'
  BY <1>1, <1>8 DEF Leaving
<1>13. QueuesLeaving'
  <2> DEFINE r == Tail(b)
  <2>1. \A i \in 1..Len(r) : r[i].op = "destroy" /\ Leaving(r[i].conn)
    BY <1>2
  <2>2. \A d \in loop[Base].held : Leaving(d)'
    BY <1>12 DEF Alone, QueuesLeaving
  <2> HIDE DEF r
  <2>3. ASSUME NEW i \in 1..Len(r), NEW d, d = r[i].conn
        PROVE  r[i].op = "destroy" /\ Leaving(d)'
    BY <1>12, <2>1, <2>3
  <2>4. loop'[Base].batch = r
    BY <1>5 DEF r
  <2>5. \A i \in 1..Len(loop'[Base].batch) :
          loop'[Base].batch[i].op = "destroy" /\ Leaving(loop[Base].batch[i].conn)'
    <3> SUFFICES ASSUME NEW i \in 1..Len(r)
                 PROVE  r[i].op = "destroy" /\ Leaving(loop[Base].batch[i].conn)'
      BY <2>4
    <3>1. r[i].op = "destroy" /\ \A d : d = r[i].conn => Leaving(d)'
      BY <2>3
    <3> QED BY <2>4, <3>1 DEF Leaving
  <2>6. \A d \in loop'[Base].held : Leaving(d)'
    BY <1>5, <2>2
  <2> QED BY <1>5, <2>5, <2>6 DEF QueuesLeaving, Leaving
<1>14. DyingGone' /\ FiredInMap'
  BY <1>5 DEF DyingGone, FiredInMap
<1> QED BY <1>1, <1>9, <1>10, <1>11, <1>13, <1>14 DEF Alone

LEMMA AloneHandleClose ==
  ASSUME ServerInv, Alone, NEW c \in Conns, c \in loop[Base].fired,
         loop[Base].place = "events", HandleClose(Base, c)
  PROVE  Alone'
<1> DEFINE f == conn[c].fd
           p == loop[Base].pending
<1>1. c \in connections /\ Live(c) /\ f \in Fds /\ conn[c].loop = Base
  <2>1. c \in connections
    BY BaseIsLoop DEF Alone, FiredInMap
  <2>2. conn[c].loop = Base
    BY BaseIsLoop DEF ServerInv, FiredKept, Belongs
  <2> QED BY <2>1, <2>2, AloneMap
<1>2. /\ conn' = [conn EXCEPT ![c].event = {}]
      /\ UpdateEvent(Base, c, {})
      /\ loop' = Removed([loop EXCEPT ![Base].fired = @ \ {c}], c)
      /\ connections' = connections \ {c}
      /\ UNCHANGED <<threads, nextConn, open, aborted>>
  BY <1>1 DEF HandleClose, Live
<1>3. loop \in [Loops -> LoopRecord] /\ Base \in Loops
      /\ channelMap \in [Loops -> [Fds -> Conns \cup {Nobody}]]
      /\ interest \in [Loops -> [Fds -> Masks \cup {Unregistered}]]
  BY BaseIsLoop DEF ServerInv, Shapes, Alone, KernelShapes
<1>4. channelMap' = channelMap /\ interest' = [interest EXCEPT ![Base][f] = {}]
  <2>1. channelMap[Base][f] # Nobody /\ interest[Base][f] # Unregistered
    <3>1. \A m \in LiveMasks : m # Unregistered
      BY DEF LiveMasks, Unregistered
    <3> QED BY <1>1, <3>1, BaseIsLoop DEF Live
  <2> QED BY <1>2, <1>3, <2>1 DEF UpdateEvent
<1>5. /\ loop'[Base].pending = Append(p, Task("destroy", c))
      /\ loop'[Base].place = "events" /\ loop'[Base].fired = loop[Base].fired \ {c}
      /\ loop'[Base].batch = loop[Base].batch /\ loop'[Base].held = loop[Base].held
      /\ loop'[Base].dying = loop[Base].dying
  BY <1>1, <1>2, <1>3 DEF Removed, LoopRecord
<1>6. loop[Base].batch = << >> /\ loop[Base].dying = {} /\ loop[Base].held = {}
  BY <1>3 DEF Alone, QueuesLeaving, ServerInv, Phases
<1>7. HomesKept /\ \A d \in Conns : "state" \in DOMAIN conn'[d] /\ conn'[d].state = conn[d].state
  BY <1>2 DEF HomesKept, ServerInv, Shapes, Alone, KernelShapes
<1>8. \A d \in Conns : conn'[d].fd = conn[d].fd /\ (d < nextConn => conn[d].fd \in Fds)
  BY <1>7 DEF HomesKept, Alone, KernelShapes
<1> HIDE DEF f, p
<1>9. KernelShapes'
  <2>1. interest' \in [Loops -> [Fds -> Masks \cup {Unregistered}]]
    BY <1>3, <1>4 DEF Masks
  <2> QED BY <1>2, <1>7, <1>8, <2>1 DEF Alone, KernelShapes
<1>10. MapLive'
  <2> SUFFICES ASSUME NEW d \in connections, d # c PROVE Live(d)'
    BY <1>2 DEF MapLive, Live
  <2>1. d \in Conns /\ Live(d) /\ conn[d].fd \in Fds
    BY AloneMap
  <2>2. conn[d].fd # f
    BY <1>1, <2>1 DEF Live, f
  <2>3. interest'[Base][conn[d].fd] \in LiveMasks
    BY <1>3, <1>4, <2>1, <2>2 DEF Live
  <2> QED BY <1>2, <1>4, <1>7, <1>8, <2>1, <2>3 DEF Live
<1>11. EntriesOpen'
  BY <1>2, <1>4 DEF Alone, EntriesOpen
<1>12. \A d : Leaving(d) => Leaving(d)'
  BY <1>2, <1>8 DEF Leaving
<1>13. Leaving(c)'
  BY <1>1, <1>2, <1>8 DEF Leaving, Live, f
<1>14. QueuesLeaving'
  <2> DEFINE t == Task("destroy", c)
             a == Append(p, t)
  <2>1. p \in Seq(Tasks) /\ t \in Tasks /\ t.op = "destroy" /\ t.conn = c
    BY <1>3, QueueTypes DEF ServerInv, Task, Tasks, p
  <2>2. \A i \in 1..Len(p) : p[i].op = "destroy" /\ Leaving(p[i].conn)
    BY DEF Alone, QueuesLeaving, p
  <2> HIDE DEF t
  <2>3. Len(a) = Len(p) + 1 /\ Len(p) \in Nat /\ a[Len(p) + 1] = t
        /\ \A i \in 1..Len(p) : a[i] = p[i]
    BY <2>1
  <2> HIDE DEF a
  <2>4. ASSUME NEW i \in 1..Len(a), NEW d, d = a[i].conn
        PROVE  a[i].op = "destroy" /\ Leaving(d)'
    <3>1. CASE i = Len(p) + 1
      BY <1>13, <2>1, <2>3, <2>4, <3>1
    <3>2. CASE i # Len(p) + 1
      <4>1. i \in 1..Len(p)
        BY <2>3, <3>2
      <4> QED BY <1>12, <2>2, <2>3, <2>4, <4>1
    <3> QED BY <3>1, <3>2
  <2>5. loop'[Base].pending = a
    BY <1>5 DEF a, t
  <2> QED BY <1>5, <1>6, <2>4, <2>5 DEF QueuesLeaving, Leaving
<1>15. DyingGone' /\ FiredInMap'
  <2>1. DyingGone'
    BY <1>5, <1>6 DEF DyingGone
  <2>2. FiredInMap'
    BY <1>2, <1>5 DEF FiredInMap, Alone
  <2> QED BY <2>1, <2>2
<1> QED BY <1>2, <1>9, <1>10, <1>11, <1>14, <1>15 DEF Alone

LEMMA AloneNewConnection ==
  ASSUME ServerInv, Alone, HandleAccept, FreeFds # {}
  PROVE  Alone'
<1> DEFINE c == nextConn
           f == CHOOSE x \in FreeFds : \A y \in FreeFds : x <= y
           born == [Unborn EXCEPT !.state = "connecting", !.loop = Base, !.fd = f]
<1>1. PICK rest \in BOOLEAN, asked \in BOOLEAN :
        /\ open' = [open EXCEPT ![f] = c] /\ nextConn' = nextConn + 1
        /\ connections' = connections \cup {c}
        /\ conn' = [conn EXCEPT ![c] = Established(born, rest, asked)]
        /\ channelMap' = [channelMap EXCEPT ![Base][f] = IF @ = Nobody THEN c ELSE @]
        /\ interest' = [interest EXCEPT ![Base][f] =
                          IF channelMap[Base][f] = Nobody
                          THEN Established(born, rest, asked).event ELSE @]
        /\ loop' = [loop EXCEPT ![Base].fired = @ \ {Acceptor}]
  <2>1. PICK rest \in BOOLEAN, asked \in BOOLEAN : NewConnection(nextConn, rest, asked)
    BY DEF HandleAccept
  <2>2. NextLoop = Base
    BY DEF NextLoop, Alone
  <2>3. /\ open' = [open EXCEPT ![f] = c] /\ nextConn' = nextConn + 1
        /\ connections' = connections \cup {c}
        /\ conn' = [conn EXCEPT ![c] = Established(born, rest, asked)]
        /\ channelMap' = [channelMap EXCEPT ![Base][f] = IF @ = Nobody THEN c ELSE @]
        /\ interest' = [interest EXCEPT ![Base][f] =
                          IF channelMap[Base][f] = Nobody
                          THEN Established(born, rest, asked).event ELSE @]
        /\ loop' = [loop EXCEPT ![Base].fired = @ \ {Acceptor}]
    BY <2>1, <2>2 DEF NewConnection
  <2> HIDE DEF f, c, born
  <2> QED BY <2>3
<1>2. loop[Base].place = "events" /\ UNCHANGED <<threads, aborted>>
  BY DEF HandleAccept
<1>3. f \in FreeFds /\ f \in Fds /\ open[f] = Nobody
  BY LowestFree DEF FreeFds
<1> DEFINE made == Established(born, rest, asked)
<1>4. /\ made.state \in {"connected", "disconnecting"} /\ made.fd = f
      /\ "state" \in DOMAIN made /\ made.event \in LiveMasks
  BY DEF Established, Called, Sent, Shutdown, Unborn, LiveMasks
<1>5. c \in Conns /\ c \in Nat
  BY ServerBounds DEF ServerInv, Shapes, Conns, HandleAccept
<1>6. loop \in [Loops -> LoopRecord] /\ Base \in Loops /\ DOMAIN conn = Conns
      /\ channelMap \in [Loops -> [Fds -> Conns \cup {Nobody}]]
      /\ interest \in [Loops -> [Fds -> Masks \cup {Unregistered}]]
      /\ open \in [Fds -> Conns \cup {Nobody}]
      /\ \A d \in Conns : "state" \in DOMAIN conn[d] /\ (d < nextConn => conn[d].fd \in Fds)
  BY BaseIsLoop DEF ServerInv, Shapes, Alone, KernelShapes
<1> HIDE DEF born, made
<1>7. /\ conn'[c] = made
      /\ \A d \in Conns : d # c => conn'[d] = conn[d]
  BY <1>1, <1>5, <1>6 DEF made
<1> HIDE DEF f, c
<1>8. channelMap[Base][f] = Nobody
  BY <1>3 DEF Alone, EntriesOpen
<1>9. /\ channelMap' = [channelMap EXCEPT ![Base][f] = c]
      /\ interest' = [interest EXCEPT ![Base][f] = made.event]
  BY <1>1, <1>6, <1>8 DEF made
<1>10. /\ loop'[Base].pending = loop[Base].pending /\ loop'[Base].place = "events"
       /\ loop'[Base].batch = loop[Base].batch /\ loop'[Base].held = loop[Base].held
       /\ loop'[Base].dying = loop[Base].dying
       /\ loop'[Base].fired = loop[Base].fired \ {Acceptor}
  BY <1>1, <1>2, <1>6 DEF LoopRecord
<1>11. loop[Base].batch = << >> /\ loop[Base].dying = {} /\ loop[Base].held = {}
  BY <1>2, <1>6 DEF Alone, QueuesLeaving, ServerInv, Phases
<1>12. nextConn' = c + 1 /\ \A d \in Conns : d < nextConn => d # c /\ d < nextConn'
  BY <1>1, <1>5 DEF c, Conns
<1>13. \A d \in Conns : d < nextConn /\ open[conn[d].fd] = d =>
         conn[d].fd # f /\ conn'[d] = conn[d] /\ conn[d].fd \in Fds /\ open'[conn[d].fd] = d
  BY <1>1, <1>3, <1>6, <1>7, <1>12, BaseIsLoop
<1>14. KernelShapes'
  <2>1. open' \in [Fds -> Conns \cup {Nobody}]
    BY <1>1, <1>5, <1>6 DEF c
  <2>2. interest' \in [Loops -> [Fds -> Masks \cup {Unregistered}]]
    <3>1. made.event \in Masks \cup {Unregistered}
      BY <1>4 DEF LiveMasks, Masks
    <3> QED BY <1>6, <1>9, <3>1
  <2>3. ASSUME NEW d \in Conns
        PROVE  "state" \in DOMAIN conn'[d] /\ (d < nextConn' => conn'[d].fd \in Fds)
    <3>1. CASE d = c
      BY <1>3, <1>4, <1>7, <3>1
    <3>2. CASE d # c
      <4>1. d < nextConn' => d < nextConn
        BY <1>5, <1>12, <3>2 DEF c, Conns
      <4> QED BY <1>6, <1>7, <3>2, <4>1
    <3> QED BY <3>1, <3>2
  <2> QED BY <2>1, <2>2, <2>3 DEF KernelShapes
<1>15. MapLive'
  <2> SUFFICES ASSUME NEW d \in connections \cup {c} PROVE Live(d)'
    BY <1>1 DEF MapLive, Live, c
  <2>1. CASE d = c
    <3>1. open'[f] = c
      BY <1>1, <1>3, <1>6 DEF c
    <3>2. channelMap'[Base][f] = c /\ interest'[Base][f] \in LiveMasks
      BY <1>3, <1>4, <1>6, <1>9
    <3>3. c < nextConn'
      BY <1>5, <1>12
    <3> QED BY <1>4, <1>7, <2>1, <3>1, <3>2, <3>3 DEF Live
  <2>2. CASE d \in connections
    <3>1. d \in Conns /\ Live(d)
      BY <2>2, AloneMap
    <3>2. conn[d].fd # f /\ conn'[d] = conn[d] /\ conn[d].fd \in Fds /\ open'[conn[d].fd] = d
          /\ d < nextConn'
      BY <1>12, <1>13, <3>1 DEF Live
    <3>3. channelMap'[Base][conn[d].fd] = d /\ interest'[Base][conn[d].fd] \in LiveMasks
      BY <1>6, <1>9, <3>1, <3>2 DEF Live
    <3> QED BY <3>1, <3>2, <3>3 DEF Live
  <2> QED BY <2>1, <2>2
<1>16. EntriesOpen'
  <2> SUFFICES ASSUME NEW g \in Fds, channelMap'[Base][g] # Nobody
               PROVE  open'[g] = channelMap'[Base][g]
    BY DEF EntriesOpen
  <2>1. CASE g = f
    BY <1>1, <1>3, <1>6, <1>9, <2>1 DEF c
  <2>2. CASE g # f
    <3>1. channelMap'[Base][g] = channelMap[Base][g] /\ open'[g] = open[g]
      BY <1>1, <1>6, <1>9, <2>2
    <3> QED BY <3>1 DEF Alone, EntriesOpen
  <2> QED BY <2>1, <2>2
<1>17. \A d : Leaving(d) => Leaving(d)'
  <2> SUFFICES ASSUME NEW d, Leaving(d) PROVE Leaving(d)'
    BY DEF Leaving
  <2>1. d \in Conns /\ d < nextConn /\ d \notin connections /\ open[conn[d].fd] = d
    BY DEF Leaving
  <2>2. d < nextConn' /\ d # c /\ conn'[d] = conn[d] /\ open'[conn[d].fd] = d
    BY <1>12, <1>13, <2>1
  <2> QED BY <1>1, <2>1, <2>2 DEF Leaving, c
<1>18. QueuesLeaving'
  <2> DEFINE p == loop[Base].pending
  <2>1. \A i \in 1..Len(p) : p[i].op = "destroy" /\ Leaving(p[i].conn)
    BY DEF Alone, QueuesLeaving
  <2> HIDE DEF p
  <2>2. ASSUME NEW i \in 1..Len(p), NEW d, d = p[i].conn
        PROVE  p[i].op = "destroy" /\ Leaving(d)'
    BY <1>17, <2>1, <2>2
  <2>3. loop'[Base].pending = p
    BY <1>10 DEF p
  <2> QED BY <1>10, <1>11, <2>2, <2>3 DEF QueuesLeaving, Leaving
<1>19. DyingGone' /\ FiredInMap'
  <2>1. DyingGone'
    BY <1>10, <1>11 DEF DyingGone
  <2>2. FiredInMap'
    BY <1>1, <1>10 DEF FiredInMap, Alone
  <2> QED BY <2>1, <2>2
<1> QED BY <1>2, <1>14, <1>15, <1>16, <1>18, <1>19 DEF Alone

LEMMA AloneInit ==
  ASSUME Init, threads = 0
  PROVE  Alone
<1>1. /\ nextConn = 1 /\ connections = {} /\ conn = [c \in Conns |-> Unborn]
      /\ open = [f \in Fds |-> Nobody]
      /\ channelMap = [l \in Loops |-> [f \in Fds |-> Nobody]]
      /\ interest = [l \in Loops |-> [f \in Fds |-> Unregistered]]
      /\ aborted = FALSE
  BY DEF Init
<1>2. loop[Base].pending = << >> /\ loop[Base].batch = << >> /\ loop[Base].held = {}
      /\ loop[Base].dying = {} /\ loop[Base].fired = {}
  BY BaseIsLoop DEF Init
<1>3. KernelShapes
  BY <1>1 DEF KernelShapes, Unborn, Conns
<1>4. MapLive /\ EntriesOpen
  BY <1>1, BaseIsLoop DEF MapLive, EntriesOpen
<1>5. FiredInMap /\ QueuesLeaving /\ DyingGone
  BY <1>2 DEF FiredInMap, QueuesLeaving, DyingGone
<1> QED BY <1>1, <1>3, <1>4, <1>5 DEF Alone

LEMMA AloneStep ==
  ASSUME ServerInv, Typed, Alone, [Next]_vars
  PROVE  Alone'
<1>1. ASSUME NEW l \in Loops, LoopStep(l) PROVE Alone'
  <2>1. CASE \E W \in SUBSET Fds : Poll(l, W)
    <3>1. l = Base
      BY <2>1, AloneRuns DEF Poll
    <3> QED BY <2>1, <3>1, AlonePoll
  <2>2. CASE HandleAccept
    BY <2>2, AloneRefused, AloneNewConnection
  <2>3. ASSUME NEW c \in Conns, HandleEvent(l, c) PROVE Alone'
    <3>1. l = Base /\ c \in loop[Base].fired /\ loop[Base].place = "events"
      BY <2>3, AloneRuns DEF HandleEvent
    <3>2. HandleClose(Base, c) \/ ("hup" \notin conn[c].event /\ HandleData(Base, c))
      BY <2>3, <3>1 DEF HandleEvent
    <3> QED BY <3>1, <3>2, AloneHandleClose, AloneHandleData
  <2>4. ASSUME NEW c \in Conns, DestroySocket(l, c) PROVE Alone'
    <3>1. l = Base
      BY <2>4, AloneRuns DEF DestroySocket
    <3> QED BY <2>4, <3>1, AloneDestroySocket
  <2>5. ASSUME NEW c \in Conns, DestroyChannel(l, c) PROVE Alone'
    <3>1. l = Base
      BY <2>5, AloneRuns DEF DestroyChannel
    <3> QED BY <2>5, <3>1, AloneDestroyChannel
  <2>6. CASE SwapBatch(l)
    <3>1. l = Base
      BY <2>6, AloneRuns DEF SwapBatch
    <3> QED BY <2>6, <3>1, AloneSwapBatch
  <2>7. CASE ConnectEstablished(l)
    <3>1. l = Base
      BY <2>7, AloneRuns DEF ConnectEstablished, Takes
    <3> QED BY <2>7, <3>1, AloneHead DEF ConnectEstablished, Takes
  <2>8. CASE RemoveConnection(l)
    <3>1. l = Base
      BY <2>8, AloneRuns DEF RemoveConnection, Takes
    <3> QED BY <2>8, <3>1, AloneHead DEF RemoveConnection, Takes
  <2>9. CASE ConnectDestroyed(l)
    <3>1. l = Base
      BY <2>9, AloneRuns DEF ConnectDestroyed, Takes
    <3> QED BY <2>9, <3>1, AloneConnectDestroyed
  <2>10. CASE BatchDone(l)
    <3>1. l = Base
      BY <2>10, AloneRuns, Zenon DEF BatchDone
    <3> QED BY <2>10, <3>1, AloneBatchDone
  <2> QED BY <1>1, <2>1, <2>2, <2>3, <2>4, <2>5, <2>6, <2>7, <2>8, <2>9, <2>10 DEF LoopStep
<1>2. CASE PeerConnects
  BY <1>2, AloneSame DEF PeerConnects
<1>3. ASSUME NEW c \in Conns, PeerActs(c) PROVE Alone'
  BY <1>3, AlonePeerActs
<1>4. CASE UNCHANGED vars
  BY <1>4, AloneSame DEF vars
<1> QED BY <1>1, <1>2, <1>3, <1>4 DEF Next

(* So one with a single loop behaves as above for ever.                    *)
SingleInv == ServerInv /\ Typed /\ (threads = 0 => Alone)

LEMMA SingleStep == SingleInv /\ [Next]_vars => SingleInv'
<1> SUFFICES ASSUME SingleInv, [Next]_vars PROVE SingleInv'
  OBVIOUS
<1>1. threads' = threads
  BY ThreadsStay
<1>2. ServerInv' /\ Typed'
  BY InvStep, TypedStep DEF SingleInv
<1>3. threads = 0 => Alone'
  BY AloneStep DEF SingleInv
<1> QED BY <1>1, <1>2, <1>3 DEF SingleInv

LEMMA SingleHolds == Spec => []SingleInv
<1>1. Init => SingleInv
  BY InvInit, TypedInit, AloneInit DEF SingleInv
<1> QED BY <1>1, SingleStep, PTL DEF Spec

(* With one loop no assert() of a connection's life fails, for any number  *)
(* of connections and descriptors: a connection is closed while it is      *)
(* connected, and removed while it is in the map (TcpServer.cpp:84,        *)
(* TcpConnection.cpp:134).                                                 *)
THEOREM SingleLoopAssertsNeverFail == Spec => []SingleLoopAssertsHold
<1>1. SingleInv => SingleLoopAssertsHold
  BY DEF SingleInv, Alone, SingleLoopAssertsHold
<1> QED BY <1>1, SingleHolds, PTL

(* With one loop a connection of the map owns its descriptor, its entry in *)
(* channelMap_ and its registration with epoll, for any number of          *)
(* connections and descriptors, whatever the callbacks send: no late close *)
(* of an earlier connection with the same number and no stale entry        *)
(* reaches it, and its mask never is output alone (Epoller.cpp:29-53,      *)
(* Epoller.cpp:67, TcpConnection.cpp:120).                                 *)
THEOREM LiveConnectionsAreRegistered == Spec => []LiveConnectionsRegistered
<1>1. SingleInv => LiveConnectionsRegistered
  BY DEF SingleInv, Alone, MapLive, Live, LiveConnectionsRegistered
<1> QED BY <1>1, SingleHolds, PTL
=============================================================================
