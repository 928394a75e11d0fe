-------------------------- MODULE HttpServer_proofs --------------------------
(***************************************************************************)
(* What the server parses is what it read.  The input buffer is empty      *)
(* whenever a read is appended to it, so of the cases of modifySpace()     *)
(* only those arise in which nothing readable has to be kept, and the      *)
(* growth that the code survives only once is a first one every time.      *)
(*                                                                         *)
(* The output buffer keeps its text as long as no append finds the write   *)
(* index behind the initial size: moves to the front and the first growth  *)
(* leave a text that lies in one piece within the capacity.                *)
(*                                                                         *)
(* The parser runs over a text by the places that find() returns.  Where   *)
(* the lines of a request lie is computed word by word; that the loop over *)
(* the header lines is a function at all, and what it finds, are           *)
(* inductions on the rest of the text and on the lines.                    *)
(***************************************************************************)
EXTENDS HttpServer, SequenceTheorems, WellFoundedInduction, TLAPS

(* An empty buffer, whatever its capacity and what lies in its memory.     *)
Emptied(b) ==
  /\ b.cap \in Nat /\ b.cap >= InitialSize
  /\ b.mem = [i \in 0..(b.cap - 1) |-> b.mem[i]]
  /\ b = [cap |-> b.cap, r |-> 0, w |-> 0, mem |-> b.mem, outside |-> FALSE]

LEMMA EmptiedRecord ==
  ASSUME NEW cap \in Nat, cap >= InitialSize,
         NEW mem, mem = [i \in 0..(cap - 1) |-> mem[i]]
  PROVE  Emptied([cap |-> cap, r |-> 0, w |-> 0, mem |-> mem, outside |-> FALSE])
BY DEF Emptied

(* Sizes that fit the width of size_t do not wrap.                         *)
LEMMA WrapIdle == \A n \in Nat : n < 2^W => Wrap(n) = n
<1> DEFINE M == 2^W
<1>1. M \in Nat
  BY BufferAssumption
<1>2. \A n \in Nat : n < M => n % M = n
  <2> HIDE DEF M
  <2> QED BY <1>1
<1> QED BY <1>2 DEF Wrap

(* modifySpace() on an empty buffer makes room and leaves it empty.        *)
LEMMA SpaceForRead ==
  ASSUME NEW b, Emptied(b), NEW n \in Nat, n <= ReadMax
  PROVE  Emptied(ModifySpace(b, n)) /\ n <= ModifySpace(b, n).cap
<1>1. Wrap(0) = 0 /\ Wrap(n) = n /\ Wrap(InitialSize) = InitialSize
  <2> DEFINE M == 2^W
  <2>1. M \in Nat /\ InitialSize \in Nat \ {0} /\ InitialSize < M /\ ReadMax \in Nat /\ ReadMax < M
    BY BufferAssumption, HttpAssumption
  <2>2. \A k \in Nat : k < M => Wrap(k) = k
    BY WrapIdle
  <2> HIDE DEF M
  <2> QED BY <2>1, <2>2
<1>2. b.r = 0 /\ b.w = 0 /\ b.outside = FALSE /\ b.cap \in Nat /\ b.cap >= InitialSize
  BY DEF Emptied
<1>3. ReadableBytes(b) = 0 /\ WritableBytes(b) = InitialSize
  <2>1. b.w - b.r = 0 /\ InitialSize - b.w = InitialSize
    BY <1>2, BufferAssumption
  <2> QED BY <2>1, <1>1 DEF ReadableBytes, WritableBytes
<1>4. Wrap(ReadableBytes(b) + n) = n /\ Wrap(b.w + n) = n
  <2>1. ReadableBytes(b) + n = n /\ b.w + n = n
    BY <1>2, <1>3
  <2> QED BY <2>1, <1>1
<1>5. CASE n < InitialSize
  <2>1. ModifySpace(b, n) = b
    BY <1>5, <1>3 DEF ModifySpace
  <2> QED BY <2>1, <1>2, <1>5, BufferAssumption
<1>6. CASE ~(n < InitialSize) /\ n < b.cap
  <2>1. ModifySpace(b, n) = ToFront(b)
    BY <1>6, <1>3, <1>4 DEF ModifySpace
  <2>2. ToFront(b) = b
    <3>1. [i \in DOMAIN b.mem |-> IF i < 0 THEN b.mem[b.r + i] ELSE b.mem[i]] = b.mem
      BY <1>2 DEF Emptied
    <3>2. ToFront(b) = [cap |-> b.cap, r |-> 0, w |-> 0, outside |-> b.outside, mem |-> b.mem]
      BY <3>1, <1>3 DEF ToFront
    <3>3. b = [cap |-> b.cap, r |-> 0, w |-> 0, mem |-> b.mem, outside |-> b.outside]
      BY <1>2 DEF Emptied
    <3> QED BY <3>2, <3>3
  <2> QED BY <2>1, <2>2, <1>2, <1>6
<1>7. CASE ~(n < InitialSize) /\ ~(n < b.cap)
  <2>1. ModifySpace(b, n) = Reserved(b, n)
    BY <1>7, <1>3, <1>4 DEF ModifySpace
  <2>2. CASE n <= b.cap
    <3>1. Reserved(b, n) = b
      BY <2>2 DEF Reserved
    <3> QED BY <3>1, <2>1, <2>2
  <2>3. CASE ~(n <= b.cap)
    <3> DEFINE mem == [i \in 0..(n - 1) |-> IF i < InitialSize THEN b.mem[i] ELSE Zero]
    <3>1. Reserved(b, n) = [cap |-> n, r |-> 0, w |-> 0, mem |-> mem, outside |-> FALSE]
      BY <2>3, <1>2 DEF Reserved
    <3>3. mem = [i \in 0..(n - 1) |-> mem[i]]
      OBVIOUS
    <3>4. n >= InitialSize
      BY <1>7, BufferAssumption
    <3> HIDE DEF mem
    <3> QED BY <3>1, <3>3, <3>4, <2>1 DEF Emptied
  <2> QED BY <2>2, <2>3
<1> QED BY <1>5, <1>6, <1>7

(* A read that is appended to an empty buffer and fetched comes back as it *)
(* was, and leaves an empty buffer.                                        *)
LEMMA ReadComesBack ==
  ASSUME NEW b, Emptied(b), NEW data \in Seq(Word), Len(data) <= ReadMax
  PROVE  /\ FetchReadable(Append1(b, data)).text = data
         /\ Emptied(FetchReadable(Append1(b, data)).rest)
<1> DEFINE n == Len(data)
           m == ModifySpace(b, n)
           Written(i) == i >= m.w /\ i < m.w + n
           mem == [i \in DOMAIN m.mem |-> IF Written(i) THEN data[i - m.w + 1] ELSE m.mem[i]]
           after == [cap |-> m.cap, r |-> 0, w |-> n, mem |-> mem, outside |-> FALSE]
<1>1. n \in Nat /\ n <= ReadMax
  OBVIOUS
<1>2. Emptied(m) /\ n <= m.cap
  BY <1>1, SpaceForRead
<1>3. Wrap(n) = n /\ Wrap(0 + n) = n
  <2> DEFINE M == 2^W
  <2>1. M \in Nat /\ ReadMax \in Nat /\ ReadMax < M
    BY BufferAssumption, HttpAssumption
  <2>2. \A k \in Nat : k < M => Wrap(k) = k
    BY WrapIdle
  <2> HIDE DEF M, n
  <2>3. 0 + n = n
    BY <1>1
  <2> QED BY <2>1, <2>2, <2>3, <1>1
<1>4. m.w = 0 /\ m.r = 0 /\ m.outside = FALSE /\ m.cap \in Nat /\ DOMAIN m.mem = 0..(m.cap - 1)
  <2> HIDE DEF m
  <2> QED BY <1>2 DEF Emptied
<1>5. Append1(b, data) = after
  <2>1. Append1(b, data)
          = [cap |-> m.cap, r |-> m.r, w |-> Wrap(m.w + n), mem |-> mem,
             outside |-> m.outside \/ m.w + n > m.cap]
    BY DEF Append1
  <2>2. (m.outside \/ m.w + n > m.cap) = FALSE
    <3> HIDE DEF m, n
    <3> QED BY <1>1, <1>2, <1>4
  <2>3. Wrap(m.w + n) = n
    BY <1>3, <1>4
  <2> HIDE DEF m, n, mem
  <2> QED BY <2>1, <2>2, <2>3, <1>4
<1>6. \A i \in 1..n : i - 1 \in DOMAIN mem /\ mem[i - 1] = data[i]
  <2> HIDE DEF m, n
  <2> QED BY <1>1, <1>2, <1>4
<1>7. StringifyReadable(after) = data
  <2>1. ReadableBytes(after) = n
    <3> HIDE DEF n
    <3>1. n - 0 = n
      BY <1>1
    <3> QED BY <3>1, <1>3 DEF ReadableBytes
  <2>2. StringifyReadable(after)
          = [i \in 1..n |-> IF 0 + i - 1 \in DOMAIN mem THEN mem[0 + i - 1] ELSE Zero]
    <3> HIDE DEF mem, n
    <3> QED BY <2>1 DEF StringifyReadable
  <2>3. \A i \in 1..n : (IF 0 + i - 1 \in DOMAIN mem THEN mem[0 + i - 1] ELSE Zero) = data[i]
    <3> HIDE DEF mem, n
    <3> QED BY <1>1, <1>6
  <2>4. data = [i \in 1..n |-> data[i]]
    OBVIOUS
  <2> QED BY <2>2, <2>3, <2>4
<1>8. Emptied(RetrieveAll(after))
  <2>1. RetrieveAll(after) = [cap |-> m.cap, r |-> 0, w |-> 0, mem |-> mem, outside |-> FALSE]
    <3> HIDE DEF mem, m, n
    <3> QED BY DEF RetrieveAll
  <2>2. mem = [i \in 0..(m.cap - 1) |-> mem[i]]
    <3> HIDE DEF m, n
    <3> QED BY <1>4
  <2>3. m.cap \in Nat /\ m.cap >= InitialSize
    <3> HIDE DEF m
    <3> QED BY <1>2 DEF Emptied
  <2>4. Emptied([cap |-> m.cap, r |-> 0, w |-> 0, mem |-> mem, outside |-> FALSE])
    <3> HIDE DEF mem, m
    <3> QED BY <2>2, <2>3, EmptiedRecord
  <2> HIDE DEF mem, m
  <2> QED BY <2>1, <2>4
<1> QED BY <1>5, <1>7, <1>8 DEF FetchReadable

----------------------------------------------------------------------------
(* Between two reads the input buffer is empty.                            *)
InputInv ==
  /\ script \in Seq(Word) /\ wire \in Seq(Word) /\ Len(wire) <= ReadMax
  /\ Emptied(input)
  /\ heard = last

LEMMA FreshIsEmptied == Emptied(Fresh)
<1> DEFINE mem == [i \in 0..(InitialSize - 1) |-> Zero]
<1>1. mem = [i \in 0..(InitialSize - 1) |-> mem[i]]
  OBVIOUS
<1> HIDE DEF mem
<1> QED BY <1>1, BufferAssumption DEF Emptied, Fresh, mem

LEMMA InputInvStep == InputInv /\ [Next]_vars => InputInv'
<1> SUFFICES ASSUME InputInv, [Next]_vars PROVE InputInv'
  OBVIOUS
<1>1. CASE ClientStarts
  BY <1>1, HttpAssumption DEF ClientStarts, InputInv
<1>2. CASE Arrives
  <2>1. PICK k \in 1..Len(script) :
          /\ Len(wire) + k <= ReadMax
          /\ wire' = wire \o SubSeq(script, 1, k)
          /\ script' = SubSeq(script, k + 1, Len(script))
    BY <1>2 DEF Arrives
  <2>2. SubSeq(script, 1, k) \in Seq(Word) /\ Len(SubSeq(script, 1, k)) = k
    BY DEF InputInv
  <2>3. script' \in Seq(Word)
    BY <2>1 DEF InputInv
  <2>4. wire' \in Seq(Word) /\ Len(wire') <= ReadMax
    BY <2>1, <2>2 DEF InputInv
  <2> QED BY <1>2, <2>3, <2>4 DEF Arrives, InputInv
<1>3. CASE OnMessage
  <2> DEFINE fetched == FetchReadable(Append1(input, wire))
  <2>1. input' = fetched.rest /\ heard' = fetched.text /\ last' = wire
    BY <1>3 DEF OnMessage
  <2>2. script' = script /\ wire' = << >>
    BY <1>3 DEF OnMessage
  <2>3. fetched.text = wire /\ Emptied(fetched.rest)
    BY ReadComesBack DEF InputInv
  <2> HIDE DEF fetched
  <2>4. Emptied(input') /\ heard' = last'
    BY <2>1, <2>3
  <2> QED BY <2>2, <2>4, HttpAssumption DEF InputInv
<1>4. CASE HandleWrite
  BY <1>4 DEF HandleWrite, InputInv
<1>5. CASE UNCHANGED vars
  BY <1>5 DEF vars, InputInv
<1> QED BY <1>1, <1>2, <1>3, <1>4, <1>5 DEF Next

(* Whatever is sent, in whatever pieces, and however much larger a read is *)
(* than the buffer: the parser gets the words that were read, and nothing  *)
(* is written behind the capacity (Buffer.cpp:17-63, HTTPServer.cpp:41).   *)
THEOREM InputIntactHolds == Spec => []InputIntact
<1>1. Init => InputInv
  BY FreshIsEmptied, HttpAssumption DEF Init, InputInv
<1>2. InputInv => InputIntact
  BY DEF InputInv, InputIntact, Emptied
<1> QED BY <1>1, <1>2, InputInvStep, PTL DEF Spec

----------------------------------------------------------------------------
(* The sizes below the width of size_t.                                    *)
Limit == 2^W

LEMMA Sizes ==
  /\ Limit \in Nat /\ InitialSize \in Nat /\ InitialSize > 0 /\ InitialSize < Limit
  /\ \A n \in Nat : n < Limit => Wrap(n) = n
<1> DEFINE M == 2^W
<1>1. M \in Nat /\ InitialSize \in Nat \ {0} /\ InitialSize < M
  BY BufferAssumption
<1>2. \A k \in Nat : k < M => Wrap(k) = k
  BY WrapIdle
<1>3. Limit = M
  BY DEF Limit
<1> HIDE DEF M
<1> QED BY <1>1, <1>2, <1>3

(* The output buffer: it holds the text q, in one piece.                   *)
Buffer(c, r, w, mem) == [cap |-> c, r |-> r, w |-> w, mem |-> mem, outside |-> FALSE]

Holding(b, S, q) ==
  /\ b = Buffer(b.cap, b.r, b.w, b.mem)
  /\ b.cap \in Nat /\ b.r \in Nat /\ b.mem \in [0..(b.cap - 1) -> S] /\ q \in Seq(S)
  /\ b.w = b.r + Len(q) /\ InitialSize <= b.cap /\ b.w <= b.cap /\ b.w < Limit
  /\ \A i \in 1..Len(q) : b.mem[b.r + i - 1] = q[i]

LEMMA HoldingBuffer ==
  ASSUME NEW S, NEW q \in Seq(S), NEW c \in Nat, NEW r \in Nat, NEW w,
         NEW mem \in [0..(c - 1) -> S],
         w = r + Len(q), InitialSize <= c, w <= c, w < Limit,
         \A i \in 1..Len(q) : mem[r + i - 1] = q[i]
  PROVE  Holding(Buffer(c, r, w, mem), S, q)
<1> DEFINE b == Buffer(c, r, w, mem)
<1>1. /\ b.cap = c /\ b.r = r /\ b.w = w /\ b.mem = mem
      /\ b = [cap |-> c, r |-> r, w |-> w, mem |-> mem, outside |-> FALSE]
  BY DEF Buffer
<1> HIDE DEF b
<1>2. b = Buffer(b.cap, b.r, b.w, b.mem)
  BY <1>1 DEF Buffer
<1>3. Holding(b, S, q)
  BY <1>1, <1>2 DEF Holding
<1> QED BY <1>3 DEF b

(* The indices of such a buffer fit the width of size_t.                   *)
LEMMA HoldingSizes ==
  ASSUME NEW b, NEW S, NEW q, Holding(b, S, q)
  PROVE  /\ Len(q) \in Nat /\ b.r \in Nat /\ b.w \in Nat /\ b.cap \in Nat /\ Limit \in Nat
         /\ InitialSize \in Nat /\ b.outside = FALSE
         /\ ReadableBytes(b) = Len(q) /\ Wrap(Len(q)) = Len(q)
         /\ b.w <= InitialSize => WritableBytes(b) = InitialSize - b.w
         /\ \A n \in Nat : n < Limit => Wrap(n) = n
<1> DEFINE M == Limit
<1>1. M \in Nat /\ InitialSize \in Nat \ {0} /\ InitialSize < M
  BY Sizes
<1>2. \A k \in Nat : k < M => Wrap(k) = k
  BY Sizes
<1>3. /\ b.r \in Nat /\ b.cap \in Nat /\ q \in Seq(S) /\ b.w = b.r + Len(q) /\ b.w < M
      /\ b.outside = FALSE
  BY DEF Holding, Buffer
<1> HIDE DEF M
<1>4. Len(q) \in Nat
  BY <1>3, LenProperties
<1>5. b.w \in Nat /\ b.w - b.r = Len(q) /\ Len(q) < M
  BY <1>1, <1>3, <1>4
<1>6. ReadableBytes(b) = Len(q) /\ Wrap(Len(q)) = Len(q)
  BY <1>2, <1>4, <1>5 DEF ReadableBytes
<1>7. ASSUME b.w <= InitialSize PROVE WritableBytes(b) = InitialSize - b.w
  <2>1. InitialSize - b.w \in Nat /\ InitialSize - b.w < M
    BY <1>1, <1>5, <1>7
  <2> QED BY <1>2, <2>1 DEF WritableBytes
<1> QED BY <1>1, <1>2, <1>3, <1>4, <1>5, <1>6, <1>7 DEF M

LEMMA HeldText ==
  ASSUME NEW b, NEW S, NEW q, Holding(b, S, q)
  PROVE  StringifyReadable(b) = q
<1>1. q \in Seq(S) /\ Len(q) \in Nat /\ ReadableBytes(b) = Len(q) /\ b.r \in Nat /\ b.cap \in Nat
  BY HoldingSizes DEF Holding
<1>2. \A i \in 1..Len(q) : b.r + i - 1 \in DOMAIN b.mem /\ b.mem[b.r + i - 1] = q[i]
  <2>1. /\ DOMAIN b.mem = 0..(b.cap - 1) /\ b.r + Len(q) <= b.cap
        /\ \A i \in 1..Len(q) : b.mem[b.r + i - 1] = q[i]
    BY DEF Holding
  <2> QED BY <1>1, <2>1
<1>3. q = [i \in 1..Len(q) |-> q[i]]
  BY <1>1
<1> QED BY <1>1, <1>2, <1>3 DEF StringifyReadable

(* retrieve() takes from the front.                                        *)
LEMMA RetrieveHolds ==
  ASSUME NEW b, NEW S, NEW q, Holding(b, S, q), NEW n \in 0..Len(q)
  PROVE  Holding(Retrieve(b, n), S, SubSeq(q, n + 1, Len(q)))
<1> DEFINE p == SubSeq(q, n + 1, Len(q))
<1>1. /\ Len(q) \in Nat /\ n \in Nat /\ n <= Len(q) /\ b.r \in Nat /\ b.w \in Nat
      /\ b.w = b.r + Len(q) /\ b.w < Limit /\ Limit \in Nat
      /\ \A k \in Nat : k < Limit => Wrap(k) = k
  <2>1. b.w = b.r + Len(q) /\ b.w < Limit
    BY DEF Holding
  <2>2. /\ Len(q) \in Nat /\ b.r \in Nat /\ b.w \in Nat /\ Limit \in Nat
        /\ \A k \in Nat : k < Limit => Wrap(k) = k
    BY HoldingSizes
  <2> QED BY <2>1, <2>2
<1>2. Wrap(b.r + n) = b.r + n
  <2>1. b.r + n \in Nat /\ b.r + n < Limit
    BY <1>1
  <2> QED BY <1>1, <2>1
<1>3. p \in Seq(S) /\ Len(p) = Len(q) - n /\ \A i \in 1..Len(p) : p[i] = q[n + i]
  <2>1. \A i \in (n + 1)..Len(q) : q[i] \in S
    BY <1>1, LenProperties DEF Holding
  <2>2. /\ p \in Seq(S)
        /\ Len(p) = (IF n + 1 <= Len(q) THEN Len(q) - (n + 1) + 1 ELSE 0)
        /\ \A i \in 1..(Len(q) - (n + 1) + 1) : p[i] = q[(n + 1) + i - 1]
    BY <1>1, <2>1, SubSeqProperties
  <2> DEFINE k == Len(q)
  <2>3. k \in Nat /\ n <= k
    BY <1>1
  <2> HIDE DEF p, k
  <2> QED BY <1>1, <2>2, <2>3, SMTT(30) DEF k
<1> HIDE DEF p
<1>4. Retrieve(b, n) = Buffer(b.cap, b.r + n, b.w, b.mem)
  <2>1. b = [cap |-> b.cap, r |-> b.r, w |-> b.w, mem |-> b.mem, outside |-> FALSE]
    BY DEF Holding, Buffer
  <2>2. Retrieve(b, n) = [b EXCEPT !.r = b.r + n]
    BY <1>2 DEF Retrieve
  <2>3. ASSUME NEW c, NEW r, NEW w, NEW mem, NEW s,
               b = [cap |-> c, r |-> r, w |-> w, mem |-> mem, outside |-> FALSE]
        PROVE  [b EXCEPT !.r = s] = [cap |-> c, r |-> s, w |-> w, mem |-> mem, outside |-> FALSE]
    <3> DEFINE B == [cap : {c}, r : {r, s}, w : {w}, mem : {mem}, outside : {FALSE}]
               x == [b EXCEPT !.r = s]
    <3>1. b \in B
      BY <2>3
    <3>2. x \in B /\ x.r = s
      BY <3>1
    <3> HIDE DEF x
    <3>3. x = [cap |-> c, r |-> s, w |-> w, mem |-> mem, outside |-> FALSE]
      BY <3>2
    <3> QED BY <3>3 DEF x
  <2>4. [b EXCEPT !.r = b.r + n]
          = [cap |-> b.cap, r |-> b.r + n, w |-> b.w, mem |-> b.mem, outside |-> FALSE]
    BY <2>1, <2>3, Zenon
  <2> QED BY <2>2, <2>4 DEF Buffer
<1>5. b.w = (b.r + n) + Len(p) /\ b.r + n \in Nat
  BY <1>1, <1>3
<1>6. ASSUME NEW i \in 1..Len(p) PROVE b.mem[(b.r + n) + i - 1] = p[i]
  <2>1. n + i \in 1..Len(q) /\ b.r + (n + i) - 1 = (b.r + n) + i - 1
    BY <1>1, <1>3
  <2> QED BY <1>3, <2>1 DEF Holding
<1>7. /\ b.cap \in Nat /\ b.mem \in [0..(b.cap - 1) -> S] /\ InitialSize <= b.cap
      /\ b.w <= b.cap /\ b.w < Limit
  BY DEF Holding
<1>8. Holding(Buffer(b.cap, b.r + n, b.w, b.mem), S, p)
  BY <1>3, <1>5, <1>6, <1>7, HoldingBuffer
<1> QED BY <1>4, <1>8 DEF p

(* modifySpace() keeps the text and makes room, as long as the write index *)
(* is not behind the initial size.                                         *)
LEMMA SpaceHolds ==
  ASSUME NEW b, NEW S, Zero \in S, NEW q, Holding(b, S, q), b.w <= InitialSize,
         NEW n \in Nat, InitialSize + n < Limit
  PROVE  LET m == ModifySpace(b, n)
         IN  /\ Holding(m, S, q) /\ m.w + n <= m.cap /\ m.w + n < Limit
             /\ n < InitialSize - b.w => m.w = b.w
<1> DEFINE M == Limit  L == Len(q)
<1>1. /\ L \in Nat /\ b.w \in Nat /\ b.r \in Nat /\ b.cap \in Nat /\ InitialSize \in Nat
      /\ M \in Nat /\ InitialSize + n < M /\ b.w <= InitialSize
      /\ ReadableBytes(b) = L /\ WritableBytes(b) = InitialSize - b.w /\ Wrap(L) = L
      /\ \A k \in Nat : k < M => Wrap(k) = k
  BY HoldingSizes
<1>2. /\ b.w = b.r + L /\ b.w <= b.cap /\ InitialSize <= b.cap /\ b.outside = FALSE
      /\ b.mem \in [0..(b.cap - 1) -> S] /\ q \in Seq(S)
      /\ \A i \in 1..L : b.mem[b.r + i - 1] = q[i]
  BY DEF Holding, Buffer
<1>3. L = Len(q) /\ M = Limit
  OBVIOUS
<1> HIDE DEF M, L
<1>4. Wrap(L + n) = L + n /\ Wrap(b.w + n) = b.w + n /\ b.w + n < M /\ L + n < M
  <2>1. L + n \in Nat /\ L + n < M /\ b.w + n \in Nat /\ b.w + n < M
    BY <1>1, <1>2
  <2> QED BY <1>1, <2>1
<1>5. CASE n < InitialSize - b.w
  <2>1. ModifySpace(b, n) = b
    BY <1>1, <1>5 DEF ModifySpace
  <2>2. b.w + n <= b.cap
    BY <1>1, <1>2, <1>5
  <2> QED BY <1>3, <1>4, <2>1, <2>2
<1>6. CASE ~(n < InitialSize - b.w) /\ L + n < b.cap
  <2> DEFINE g == [i \in DOMAIN b.mem |-> IF i < L THEN b.mem[b.r + i] ELSE b.mem[i]]
  <2>1. ModifySpace(b, n) = ToFront(b)
    BY <1>1, <1>4, <1>6 DEF ModifySpace
  <2>2. ToFront(b) = Buffer(b.cap, 0, L, g)
    BY <1>1, <1>2 DEF ToFront, Buffer
  <2>3. g \in [0..(b.cap - 1) -> S]
    <3>1. ASSUME NEW i \in 0..(b.cap - 1), i < L PROVE b.mem[b.r + i] \in S
      <4>1. b.r + i \in 0..(b.cap - 1)
        BY <1>1, <1>2, <3>1
      <4> QED BY <1>2, <4>1
    <3> QED BY <1>2, <3>1
  <2>4. ASSUME NEW i \in 1..L PROVE g[0 + i - 1] = q[i]
    <3>1. 0 + i - 1 \in 0..(b.cap - 1) /\ 0 + i - 1 < L /\ b.r + (0 + i - 1) = b.r + i - 1
      BY <1>1, <1>2
    <3> QED BY <1>2, <3>1
  <2> HIDE DEF g
  <2>5. L = 0 + L /\ L <= b.cap /\ L < M /\ 0 \in Nat
    BY <1>1, <1>2
  <2>6. Holding(Buffer(b.cap, 0, L, g), S, q)
    BY <1>1, <1>2, <1>3, <2>3, <2>4, <2>5, HoldingBuffer
  <2>7. Buffer(b.cap, 0, L, g).w = L /\ Buffer(b.cap, 0, L, g).cap = b.cap
    BY DEF Buffer
  <2>8. L + n <= b.cap /\ ~(n < InitialSize - b.w)
    BY <1>1, <1>6
  <2> QED BY <1>3, <1>4, <2>1, <2>2, <2>6, <2>7, <2>8
<1>7. CASE ~(n < InitialSize - b.w) /\ ~(L + n < b.cap)
  <2>1. ModifySpace(b, n) = Reserved(b, b.w + n)
    BY <1>1, <1>4, <1>7 DEF ModifySpace
  <2>2. CASE b.w + n <= b.cap
    <3>1. Reserved(b, b.w + n) = b
      BY <2>2 DEF Reserved
    <3> QED BY <1>3, <1>4, <1>7, <2>1, <2>2, <3>1
  <2>3. CASE ~(b.w + n <= b.cap)
    <3> DEFINE c == b.w + n
               g == [i \in 0..(c - 1) |-> IF i < InitialSize THEN b.mem[i] ELSE Zero]
    <3>1. Reserved(b, c) = Buffer(c, b.r, b.w, g)
      BY <1>2, <2>3 DEF Reserved, Buffer
    <3>2. c \in Nat /\ InitialSize <= c /\ b.w <= c /\ c <= c /\ c < M
      <4> DEFINE w == b.w  k == b.cap
      <4>1. w \in Nat /\ k \in Nat /\ InitialSize <= k /\ w + n < M /\ ~(w + n <= k) /\ w <= k
            /\ InitialSize \in Nat /\ M \in Nat /\ c = w + n
        BY <1>1, <1>2, <1>4, <2>3
      <4> HIDE DEF w, k, c
      <4>2. c \in Nat /\ InitialSize <= c /\ w <= c /\ c <= c /\ c < M
        BY <4>1
      <4> QED BY <4>2 DEF w
    <3>3. g \in [0..(c - 1) -> S]
      <4>1. ASSUME NEW i \in 0..(c - 1), i < InitialSize PROVE b.mem[i] \in S
        <5>1. i \in 0..(b.cap - 1)
          BY <1>1, <1>2, <4>1
        <5> QED BY <1>2, <5>1
      <4> QED BY <4>1
    <3>4. ASSUME NEW i \in 1..L PROVE g[b.r + i - 1] = q[i]
      <4>1. b.r + i - 1 \in 0..(c - 1) /\ b.r + i - 1 < InitialSize
        <5> DEFINE v == b.r  w == b.w
        <5>1. v \in Nat /\ w = v + L /\ L \in Nat /\ w <= InitialSize /\ InitialSize <= c /\ c \in Nat
              /\ InitialSize \in Nat
          BY <1>1, <1>2, <3>2
        <5> HIDE DEF v, w, c
        <5>2. v + i - 1 \in 0..(c - 1) /\ v + i - 1 < InitialSize
          BY <5>1
        <5> QED BY <5>2 DEF v
      <4> QED BY <1>2, <4>1
    <3> HIDE DEF g
    <3>5. Holding(Buffer(c, b.r, b.w, g), S, q)
      <4> HIDE DEF c
      <4>1. b.w < M
        BY <1>1, <1>4
      <4> QED BY <1>1, <1>2, <1>3, <3>2, <3>3, <3>4, <4>1, HoldingBuffer
    <3>6. Buffer(c, b.r, b.w, g).w = b.w /\ Buffer(c, b.r, b.w, g).cap = c
      BY DEF Buffer
    <3> QED BY <1>3, <1>4, <1>7, <2>1, <3>1, <3>2, <3>5, <3>6
  <2> QED BY <2>2, <2>3
<1> QED BY <1>5, <1>6, <1>7

(* append(): the data comes behind the text.                               *)
LEMMA AppendHolds ==
  ASSUME NEW b, NEW S, Zero \in S, NEW q, Holding(b, S, q), b.w <= InitialSize,
         NEW d \in Seq(S), InitialSize + Len(d) < Limit
  PROVE  /\ Holding(Append1(b, d), S, q \o d)
         /\ Len(d) < InitialSize - b.w => Append1(b, d).w = b.w + Len(d)
<1> DEFINE n == Len(d)
           m == ModifySpace(b, n)
           c == m.cap  u == m.w  v == m.r  k == Len(q)
           g == [i \in DOMAIN m.mem |-> IF i >= u /\ i < u + n THEN d[i - u + 1] ELSE m.mem[i]]
           a == Append1(b, d)
<1>1. n \in Nat /\ InitialSize \in Nat
  BY LenProperties, Sizes
<1>2. Holding(m, S, q) /\ u + n <= c /\ u + n < Limit /\ (n < InitialSize - b.w => u = b.w)
  BY <1>1, SpaceHolds
<1>3. a = [cap |-> c, r |-> v, w |-> Wrap(u + n), mem |-> g,
           outside |-> m.outside \/ u + n > c]
  BY DEF Append1
<1> HIDE DEF m, n
<1>4. /\ m.outside = FALSE /\ c \in Nat /\ v \in Nat /\ u \in Nat /\ k \in Nat /\ u = v + k
      /\ m.mem \in [0..(c - 1) -> S] /\ q \in Seq(S) /\ InitialSize <= c
      /\ \A i \in 1..k : m.mem[v + i - 1] = q[i]
      /\ \A j \in Nat : j < Limit => Wrap(j) = j
  BY <1>2, HoldingSizes DEF Holding
<1>5. k = Len(q)
  OBVIOUS
<1> HIDE DEF c, u, v, k
<1>6. Wrap(u + n) = u + n /\ u + n \in Nat
  BY <1>1, <1>2, <1>4
<1>7. /\ q \o d \in Seq(S) /\ Len(q \o d) = k + n
      /\ \A i \in 1..(k + n) : (q \o d)[i] = IF i <= k THEN q[i] ELSE d[i - k]
  BY <1>4, ConcatProperties DEF n, k
<1>8. \A i \in 1..n : d[i] \in S
  BY LenProperties DEF n
<1>9. g \in [0..(c - 1) -> S]
  <2>1. ASSUME NEW i \in 0..(c - 1), i >= u, i < u + n PROVE d[i - u + 1] \in S
    <3>1. i - u + 1 \in 1..n
      BY <1>1, <1>4, <2>1
    <3> QED BY <1>8, <3>1
  <2> QED BY <1>4, <2>1
<1>10. ASSUME NEW i \in 1..(k + n) PROVE g[v + i - 1] = (q \o d)[i]
  <2>1. v + i - 1 \in 0..(c - 1)
    BY <1>1, <1>2, <1>4
  <2>2. CASE i <= k
    <3>1. ~(v + i - 1 >= u) /\ i \in 1..k
      BY <1>1, <1>4, <2>2
    <3> QED BY <1>4, <1>7, <2>1, <2>2, <3>1
  <2>3. CASE ~(i <= k)
    <3>1. v + i - 1 >= u /\ v + i - 1 < u + n /\ (v + i - 1) - u + 1 = i - k
      BY <1>1, <1>4, <2>3
    <3> QED BY <1>4, <1>7, <2>1, <2>3, <3>1
  <2> QED BY <2>2, <2>3
<1> HIDE DEF g, a
<1>11. (m.outside \/ u + n > c) = FALSE
  <2>1. ~m.outside /\ ~(u + n > c)
    BY <1>1, <1>2, <1>4
  <2> QED BY <2>1
<1>12. a = Buffer(c, v, u + n, g)
  BY <1>3, <1>6, <1>11 DEF Buffer
<1>13. u + n = v + Len(q \o d)
  BY <1>1, <1>4, <1>7
<1>14. Holding(Buffer(c, v, u + n, g), S, q \o d)
  <2> DEFINE j == q \o d
  <2>1. j \in Seq(S) /\ Len(j) = k + n /\ u + n = v + Len(j) /\ \A i \in 1..Len(j) : g[v + i - 1] = j[i]
    BY <1>7, <1>10, <1>13
  <2> HIDE DEF j
  <2>2. Holding(Buffer(c, v, u + n, g), S, j)
    BY <1>2, <1>4, <1>9, <2>1, HoldingBuffer
  <2> QED BY <2>2 DEF j
<1>15. a.w = u + n
  BY <1>12 DEF Buffer
<1> QED BY <1>2, <1>12, <1>14, <1>15 DEF a, n

----------------------------------------------------------------------------
(* The answer.  Its pieces are appended to a fresh buffer one by one.      *)
AnswerWord ==
  {Zero, "HTTP/1.1 200 OK", "Connection: close", "Content-Length", "Connection: Keep-Alive",
   "cr lf"} \cup Nat \cup BodyWord

LEMMA FreshHolds == Holding(Fresh, AnswerWord, << >>) /\ Fresh.w = 0
<1> DEFINE g == [i \in 0..(InitialSize - 1) |-> Zero]
<1>1. << >> \in Seq(AnswerWord) /\ Len(<< >>) = 0
  BY EmptySeq
<1>2. g \in [0..(InitialSize - 1) -> AnswerWord]
  BY DEF AnswerWord
<1>3. Fresh = Buffer(InitialSize, 0, 0, g)
  BY DEF Fresh, Buffer
<1> HIDE DEF g
<1>4. /\ InitialSize \in Nat /\ InitialSize <= InitialSize /\ 0 <= InitialSize /\ 0 < Limit
      /\ 0 = 0 + Len(<< >>)
  BY <1>1, Sizes
<1>5. \A i \in 1..Len(<< >>) : g[0 + i - 1] = << >>[i]
  BY <1>1
<1>6. Holding(Buffer(InitialSize, 0, 0, g), AnswerWord, << >>)
  <2> DEFINE e == << >>
  <2>1. e \in Seq(AnswerWord) /\ 0 = 0 + Len(e) /\ \A i \in 1..Len(e) : g[0 + i - 1] = e[i]
    BY <1>1, <1>4, <1>5
  <2> HIDE DEF e
  <2>2. Holding(Buffer(InitialSize, 0, 0, g), AnswerWord, e)
    BY <1>2, <1>4, <2>1, HoldingBuffer
  <2> QED BY <2>2 DEF e
<1> QED BY <1>3, <1>6 DEF Buffer

(* AppendAll() is a fold; for so few pieces it can be written out.         *)
LEMMA AppendFour ==
  ASSUME NEW b, NEW s, Len(s) = 4
  PROVE  AppendAll(b, s) = Append1(Append1(Append1(Append1(b, s[1]), s[2]), s[3]), s[4])
<1> DEFINE b1 == Append1(b, s[1])  b2 == Append1(b1, s[2])
           b3 == Append1(b2, s[3])  b4 == Append1(b3, s[4])
           F(f) == [i \in 0..Len(s) |-> IF i = 0 THEN b ELSE Append1(f[i - 1], s[i])]
           g == [i \in 0..4 |-> IF i = 0 THEN b ELSE IF i = 1 THEN b1 ELSE IF i = 2 THEN b2
                                ELSE IF i = 3 THEN b3 ELSE b4]
           after == CHOOSE f : f = F(f)
<1> HIDE DEF b1, b2, b3, b4
<1>1. g[0] = b /\ g[1] = b1 /\ g[2] = b2 /\ g[3] = b3 /\ g[4] = b4
  OBVIOUS
<1>2. g = F(g)
  <2>1. ASSUME NEW i \in 0..4
        PROVE  g[i] = IF i = 0 THEN b ELSE Append1(g[i - 1], s[i])
    <3> HIDE DEF g
    <3>1. CASE i = 0
      BY <1>1, <3>1
    <3>2. CASE i = 1
      BY <1>1, <3>2 DEF b1
    <3>3. CASE i = 2
      BY <1>1, <3>3 DEF b2
    <3>4. CASE i = 3
      BY <1>1, <3>4 DEF b3
    <3>5. CASE i = 4
      BY <1>1, <3>5 DEF b4
    <3> QED BY <3>1, <3>2, <3>3, <3>4, <3>5
  <2>2. g = [i \in 0..4 |-> g[i]]
    OBVIOUS
  <2> HIDE DEF g
  <2> QED BY <2>1, <2>2
<1> HIDE DEF g
<1>3. after = F(after)
  <2> HIDE DEF F
  <2> QED BY <1>2
<1>4. AppendAll(b, s) = after[4]
  BY DEF AppendAll
<1> HIDE DEF after
<1>5. \A i \in 0..4 : after[i] = IF i = 0 THEN b ELSE Append1(after[i - 1], s[i])
  BY <1>3
<1>6. after[0] = b /\ after[1] = Append1(after[0], s[1]) /\ after[2] = Append1(after[1], s[2])
      /\ after[3] = Append1(after[2], s[3]) /\ after[4] = Append1(after[3], s[4])
  BY <1>5
<1> QED BY <1>4, <1>6

LEMMA AppendFive ==
  ASSUME NEW b, NEW s, Len(s) = 5
  PROVE  AppendAll(b, s)
           = Append1(Append1(Append1(Append1(Append1(b, s[1]), s[2]), s[3]), s[4]), s[5])
<1> DEFINE b1 == Append1(b, s[1])  b2 == Append1(b1, s[2])
           b3 == Append1(b2, s[3])  b4 == Append1(b3, s[4])  b5 == Append1(b4, s[5])
           F(f) == [i \in 0..Len(s) |-> IF i = 0 THEN b ELSE Append1(f[i - 1], s[i])]
           g == [i \in 0..5 |-> IF i = 0 THEN b ELSE IF i = 1 THEN b1 ELSE IF i = 2 THEN b2
                                ELSE IF i = 3 THEN b3 ELSE IF i = 4 THEN b4 ELSE b5]
           after == CHOOSE f : f = F(f)
<1> HIDE DEF b1, b2, b3, b4, b5
<1>1. g[0] = b /\ g[1] = b1 /\ g[2] = b2 /\ g[3] = b3 /\ g[4] = b4 /\ g[5] = b5
  OBVIOUS
<1>2. g = F(g)
  <2>1. ASSUME NEW i \in 0..5
        PROVE  g[i] = IF i = 0 THEN b ELSE Append1(g[i - 1], s[i])
    <3> HIDE DEF g
    <3>1. CASE i = 0
      BY <1>1, <3>1
    <3>2. CASE i = 1
      BY <1>1, <3>2 DEF b1
    <3>3. CASE i = 2
      BY <1>1, <3>3 DEF b2
    <3>4. CASE i = 3
      BY <1>1, <3>4 DEF b3
    <3>5. CASE i = 4
      BY <1>1, <3>5 DEF b4
    <3>6. CASE i = 5
      BY <1>1, <3>6 DEF b5
    <3> QED BY <3>1, <3>2, <3>3, <3>4, <3>5, <3>6
  <2>2. g = [i \in 0..5 |-> g[i]]
    OBVIOUS
  <2> HIDE DEF g
  <2> QED BY <2>1, <2>2
<1> HIDE DEF g
<1>3. after = F(after)
  <2> HIDE DEF F
  <2> QED BY <1>2
<1>4. AppendAll(b, s) = after[5]
  BY DEF AppendAll
<1> HIDE DEF after
<1>5. \A i \in 0..5 : after[i] = IF i = 0 THEN b ELSE Append1(after[i - 1], s[i])
  BY <1>3
<1>6. after[0] = b /\ after[1] = Append1(after[0], s[1]) /\ after[2] = Append1(after[1], s[2])
      /\ after[3] = Append1(after[2], s[3]) /\ after[4] = Append1(after[3], s[4])
      /\ after[5] = Append1(after[4], s[5])
  BY <1>5
<1> QED BY <1>4, <1>6

(* One more piece, in front of which the buffer has not grown.             *)
LEMMA PieceHolds ==
  ASSUME NEW b, NEW q, Holding(b, AnswerWord, q), b.w <= InitialSize,
         NEW d \in Seq(AnswerWord), InitialSize + Len(d) < Limit
  PROVE  /\ Holding(Append1(b, d), AnswerWord, q \o d)
         /\ b.w + Len(d) < InitialSize => Append1(b, d).w = b.w + Len(d)
<1> DEFINE a == Append1(b, d)
<1>1. Zero \in AnswerWord
  BY DEF AnswerWord
<1>2. Holding(a, AnswerWord, q \o d) /\ (Len(d) < InitialSize - b.w => a.w = b.w + Len(d))
  BY <1>1, AppendHolds
<1>3. Len(d) \in Nat /\ b.w \in Nat /\ InitialSize \in Nat
  BY LenProperties, HoldingSizes
<1>4. b.w + Len(d) < InitialSize => Len(d) < InitialSize - b.w
  <2> DEFINE n == Len(d)  w == b.w
  <2>1. n \in Nat /\ w \in Nat
    BY <1>3
  <2> HIDE DEF n, w
  <2>2. w + n < InitialSize => n < InitialSize - w
    BY <1>3, <2>1
  <2> QED BY <2>2 DEF n, w
<1> HIDE DEF a
<1> QED BY <1>2, <1>4 DEF a

(* Explicit tuples as sequences.                                           *)
LEMMA OneWord ==
  ASSUME NEW S, NEW x \in S
  PROVE  <<x>> \in Seq(S) /\ Len(<<x>>) = 1
OBVIOUS

LEMMA TwoWords ==
  ASSUME NEW S, NEW x \in S, NEW y \in S
  PROVE  <<x, y>> \in Seq(S) /\ Len(<<x, y>>) = 2
OBVIOUS

LEMMA FourPieces ==
  ASSUME NEW h, NEW t, NEW c, NEW d, NEW s, s = <<h>> \o <<t>> \o <<c, d>>
  PROVE  Len(s) = 4 /\ s[1] = h /\ s[2] = t /\ s[3] = c /\ s[4] = d
OBVIOUS

LEMMA FivePieces ==
  ASSUME NEW h, NEW t, NEW u, NEW c, NEW d, NEW s, s = <<h>> \o <<t, u>> \o <<c, d>>
  PROVE  Len(s) = 5 /\ s[1] = h /\ s[2] = t /\ s[3] = u /\ s[4] = c /\ s[5] = d
OBVIOUS

LEMMA JoinedLength ==
  ASSUME NEW S, NEW q \in Seq(S), NEW d \in Seq(S), NEW j, j = q \o d
  PROVE  j \in Seq(S) /\ Len(j) = Len(q) + Len(d)
BY ConcatProperties

(* The bodies that the callback makes.                                     *)
LEMMA BodyWords ==
  ASSUME NEW body \in Bodies
  PROVE  /\ body \in Seq(AnswerWord) /\ Len(body) \in Nat
         /\ MaxHead < InitialSize /\ InitialSize + MaxHead + Len(body) < Limit
<1>1. /\ body \in Seq(BodyWord) /\ MaxHead < InitialSize
      /\ InitialSize + MaxHead + Len(body) < Limit
  BY AnswerAssumption DEF Limit
<1>2. BodyWord \subseteq AnswerWord
  BY DEF AnswerWord
<1> HIDE DEF BodyWord, AnswerWord
<1>3. body \in Seq(AnswerWord)
  BY <1>1, <1>2
<1> QED BY <1>1, <1>3, LenProperties

(* What answer says about the connection.                                  *)
Told(close, body) ==
  IF close THEN <<"Connection: close">>
  ELSE <<"Content-Length", Len(body), "Connection: Keep-Alive">>

LEMMA ThreeWords ==
  ASSUME NEW x, NEW y, NEW z PROVE <<x, y>> \o <<z>> = <<x, y, z>>
<1> DEFINE S == {x, y, z}  s == <<x, y>> \o <<z>>  t == <<x, y, z>>
<1>1. Len(s) = 3 /\ s[1] = x /\ s[2] = y /\ s[3] = z
  OBVIOUS
<1>2. t \in Seq(S) /\ Len(t) = 3 /\ t[1] = x /\ t[2] = y /\ t[3] = z
  OBVIOUS
<1>3. s \in Seq(S)
  <2>1. <<x, y>> \in Seq(S) /\ <<z>> \in Seq(S)
    OBVIOUS
  <2> HIDE DEF S
  <2> QED BY <2>1, ConcatProperties
<1> HIDE DEF S, s, t
<1>4. \A i \in 1..3 : s[i] = t[i]
  BY <1>1, <1>2
<1>5. s = t
  BY <1>1, <1>2, <1>3, <1>4, SeqEqual
<1> QED BY <1>5 DEF s, t

LEMMA AnswerWords ==
  /\ "HTTP/1.1 200 OK" \in AnswerWord /\ "Connection: close" \in AnswerWord
  /\ "Content-Length" \in AnswerWord /\ "Connection: Keep-Alive" \in AnswerWord
  /\ "cr lf" \in AnswerWord /\ \A n \in Nat : n \in AnswerWord
BY DEF AnswerWord

(* The text q, at the front as long as it is short.                        *)
Ends(b, q, n) == Holding(b, AnswerWord, q) /\ (n < InitialSize => b.w = n)

(* Four pieces, of which only the last may need a growth, come out of the  *)
(* fresh buffer as one text.                                               *)
LEMMA HeldFour ==
  ASSUME NEW d1 \in Seq(AnswerWord), NEW d2 \in Seq(AnswerWord), NEW d3 \in Seq(AnswerWord),
         NEW d4 \in Seq(AnswerWord),
         Len(d1) + Len(d2) + Len(d3) < InitialSize, InitialSize + Len(d4) < Limit,
         InitialSize + Len(d1) < Limit, InitialSize + Len(d2) < Limit, InitialSize + Len(d3) < Limit,
         NEW q, q = d1 \o d2 \o d3 \o d4,
         NEW b, b = Append1(Append1(Append1(Append1(Fresh, d1), d2), d3), d4)
  PROVE  Ends(b, q, Len(d1) + Len(d2) + Len(d3) + Len(d4))
<1> DEFINE q1 == << >> \o d1  q2 == q1 \o d2  q3 == q2 \o d3  q4 == q3 \o d4
           b1 == Append1(Fresh, d1)  b2 == Append1(b1, d2)
           b3 == Append1(b2, d3)  b4 == Append1(b3, d4)
           n1 == Len(d1)  n2 == Len(d2)  n3 == Len(d3)  n4 == Len(d4)
<1>1. q4 = q /\ b4 = b
  <2>1. << >> \o d1 = d1
    BY ConcatEmptySeq
  <2> QED BY <2>1
<1>2. /\ n1 \in Nat /\ n2 \in Nat /\ n3 \in Nat /\ n4 \in Nat
      /\ n1 + n2 + n3 < InitialSize /\ InitialSize \in Nat
      /\ InitialSize + n4 < Limit /\ Limit \in Nat
  BY LenProperties, Sizes
<1>3. InitialSize + n1 < Limit /\ InitialSize + n2 < Limit /\ InitialSize + n3 < Limit
  OBVIOUS
<1> HIDE DEF q1, q2, q3, q4, b1, b2, b3, b4
<1>4. Holding(Fresh, AnswerWord, << >>) /\ Fresh.w = 0 /\ 0 <= InitialSize
  BY <1>2, FreshHolds
<1>5. Holding(b1, AnswerWord, q1) /\ b1.w = n1 /\ n1 <= InitialSize
  <2>1. Holding(b1, AnswerWord, q1) /\ (Fresh.w + n1 < InitialSize => b1.w = Fresh.w + n1)
    BY <1>3, <1>4, PieceHolds, Zenon DEF b1, q1
  <2> HIDE DEF n1, n2, n3, n4
  <2> QED BY <1>2, <1>4, <2>1
<1>6. Holding(b2, AnswerWord, q2) /\ b2.w = n1 + n2 /\ n1 + n2 <= InitialSize
  <2>1. b1.w <= InitialSize
    BY <1>5
  <2>2. Holding(b2, AnswerWord, q2) /\ (b1.w + n2 < InitialSize => b2.w = b1.w + n2)
    BY <1>3, <1>5, <2>1, PieceHolds, Zenon DEF b2, q2
  <2> HIDE DEF n1, n2, n3, n4
  <2> QED BY <1>2, <1>5, <2>2
<1>7. Holding(b3, AnswerWord, q3) /\ b3.w = n1 + n2 + n3
  <2>1. b2.w <= InitialSize
    BY <1>6
  <2>2. Holding(b3, AnswerWord, q3) /\ (b2.w + n3 < InitialSize => b3.w = b2.w + n3)
    BY <1>3, <1>6, <2>1, PieceHolds, Zenon DEF b3, q3
  <2> HIDE DEF n1, n2, n3, n4
  <2> QED BY <1>2, <1>6, <2>2
<1>8. Holding(b4, AnswerWord, q4) /\ (n1 + n2 + n3 + n4 < InitialSize => b4.w = n1 + n2 + n3 + n4)
  <2>1. b3.w <= InitialSize
    <3> HIDE DEF n1, n2, n3, n4
    <3> QED BY <1>2, <1>7
  <2>2. Holding(b4, AnswerWord, q4) /\ (b3.w + n4 < InitialSize => b4.w = b3.w + n4)
    BY <1>2, <1>7, <2>1, PieceHolds, Zenon DEF b4, q4
  <2> HIDE DEF n1, n2, n3, n4
  <2> QED BY <1>2, <1>7, <2>2
<1> HIDE DEF n1, n2, n3, n4
<1> QED BY <1>1, <1>8, Zenon DEF n1, n2, n3, n4, Ends

LEMMA ClosingText ==
  ASSUME NEW body \in Bodies
  PROVE  LET q == <<"HTTP/1.1 200 OK">> \o <<"Connection: close">> \o <<"cr lf">> \o body
         IN  /\ q \in Seq(AnswerWord) /\ Len(q) = 3 + Len(body)
             /\ StringifyReadable(AppendAll(Fresh, ResponsePieces(TRUE, body))) = q
<1> DEFINE h == <<"HTTP/1.1 200 OK">>  t == <<"Connection: close">>  c == <<"cr lf">>
           q == h \o t \o c \o body
           s == <<h>> \o <<t>> \o <<c, body>>
           b == Append1(Append1(Append1(Append1(Fresh, h), t), c), body)
<1>1. /\ h \in Seq(AnswerWord) /\ t \in Seq(AnswerWord) /\ c \in Seq(AnswerWord)
      /\ Len(h) = 1 /\ Len(t) = 1 /\ Len(c) = 1
  BY OneWord, AnswerWords, Zenon
<1>2. ResponsePieces(TRUE, body) = s
  BY DEF ResponsePieces
<1>3. /\ body \in Seq(AnswerWord) /\ Len(body) \in Nat
      /\ MaxHead < InitialSize /\ InitialSize + MaxHead + Len(body) < Limit
  BY BodyWords
<1> HIDE DEF h, t, c
<1>4. Len(s) = 4 /\ s[1] = h /\ s[2] = t /\ s[3] = c /\ s[4] = body
  BY FourPieces
<1>5. AppendAll(Fresh, s) = b
  <2> HIDE DEF s
  <2> QED BY <1>4, AppendFour
<1>6. Holding(b, AnswerWord, q)
  <2>1. /\ Len(h) + Len(t) + Len(c) < InitialSize /\ InitialSize + Len(body) < Limit
        /\ InitialSize + Len(h) < Limit /\ InitialSize + Len(t) < Limit /\ InitialSize + Len(c) < Limit
    <3> DEFINE n1 == Len(h)  n2 == Len(t)  n3 == Len(c)  n4 == Len(body)
    <3>1. /\ n1 = 1 /\ n2 = 1 /\ n3 = 1 /\ n4 \in Nat /\ 5 < InitialSize
          /\ InitialSize + 5 + n4 < Limit
      BY <1>1, <1>3 DEF MaxHead
    <3> HIDE DEF n1, n2, n3, n4
    <3>2. /\ n1 + n2 + n3 < InitialSize /\ InitialSize + n4 < Limit
          /\ InitialSize + n1 < Limit /\ InitialSize + n2 < Limit /\ InitialSize + n3 < Limit
      BY <3>1, Sizes
    <3> QED BY <3>2 DEF n1, n2, n3, n4
  <2>2. Ends(b, q, Len(h) + Len(t) + Len(c) + Len(body))
    BY <1>1, <1>3, <2>1, HeldFour, ZenonT(60)
  <2> QED BY <2>2 DEF Ends
<1>7. Len(q) = 3 + Len(body)
  <2> DEFINE x == h \o t  y == x \o c
  <2>1. x = h \o t /\ y = x \o c /\ q = y \o body
    OBVIOUS
  <2> HIDE DEF x, y, q
  <2>2. x \in Seq(AnswerWord) /\ Len(x) = Len(h) + Len(t)
    <3>1. h \in Seq(AnswerWord) /\ t \in Seq(AnswerWord) /\ x = h \o t
      BY <1>1, <2>1
    <3> QED BY <3>1, JoinedLength
  <2>3. y \in Seq(AnswerWord) /\ Len(y) = Len(x) + Len(c)
    BY <1>1, <2>1, <2>2, JoinedLength
  <2>4. Len(q) = Len(y) + Len(body)
    BY <1>3, <2>1, <2>3, JoinedLength
  <2> QED BY <1>1, <1>3, <2>2, <2>3, <2>4
<1> HIDE DEF q, b
<1>8. q \in Seq(AnswerWord) /\ StringifyReadable(b) = q
  BY <1>6, HeldText DEF Holding
<1> HIDE DEF s
<1> QED BY <1>2, <1>5, <1>7, <1>8, Zenon DEF q, h, t, c

LEMMA KeepingText ==
  ASSUME NEW body \in Bodies
  PROVE  LET q == <<"HTTP/1.1 200 OK">> \o <<"Content-Length", Len(body), "Connection: Keep-Alive">>
                    \o <<"cr lf">> \o body
         IN  /\ q \in Seq(AnswerWord) /\ Len(q) = 5 + Len(body)
             /\ StringifyReadable(AppendAll(Fresh, ResponsePieces(FALSE, body))) = q
<1> DEFINE h == <<"HTTP/1.1 200 OK">>  t == <<"Content-Length", Len(body)>>
           u == <<"Connection: Keep-Alive">>  c == <<"cr lf">>
           q0 == h \o t \o u \o c  q == q0 \o body
           s == <<h>> \o <<t, u>> \o <<c, body>>
           b0 == Append1(Append1(Append1(Append1(Fresh, h), t), u), c)  b == Append1(b0, body)
<1>1. /\ body \in Seq(AnswerWord) /\ Len(body) \in Nat
      /\ MaxHead < InitialSize /\ InitialSize + MaxHead + Len(body) < Limit
  BY BodyWords
<1>2. /\ h \in Seq(AnswerWord) /\ t \in Seq(AnswerWord) /\ u \in Seq(AnswerWord)
      /\ c \in Seq(AnswerWord) /\ Len(h) = 1 /\ Len(t) = 2 /\ Len(u) = 1 /\ Len(c) = 1
  BY <1>1, OneWord, TwoWords, AnswerWords, Zenon
<1>3. ResponsePieces(FALSE, body) = s
  BY DEF ResponsePieces
<1>4. t \o u = <<"Content-Length", Len(body), "Connection: Keep-Alive">>
  BY ThreeWords, Zenon
<1> HIDE DEF h, t, u, c
<1>5. q = h \o (t \o u) \o c \o body
  <2>1. (h \o t) \o u = h \o (t \o u)
    BY <1>2, ConcatAssociative
  <2> QED BY <2>1
<1>6. Len(s) = 5 /\ s[1] = h /\ s[2] = t /\ s[3] = u /\ s[4] = c /\ s[5] = body
  BY FivePieces
<1>7. AppendAll(Fresh, s) = b
  <2> HIDE DEF s
  <2> QED BY <1>6, AppendFive
<1>8. Holding(b0, AnswerWord, q0) /\ b0.w <= InitialSize /\ InitialSize + Len(body) < Limit
  <2> DEFINE n1 == Len(h)  n2 == Len(t)  n3 == Len(u)  n4 == Len(c)  n5 == Len(body)
  <2>1. /\ n1 = 1 /\ n2 = 2 /\ n3 = 1 /\ n4 = 1 /\ n5 \in Nat /\ 5 < InitialSize
        /\ InitialSize + 5 + n5 < Limit
    BY <1>1, <1>2 DEF MaxHead
  <2> HIDE DEF n1, n2, n3, n4, n5
  <2>2. /\ n1 + n2 + n3 < InitialSize /\ InitialSize + n4 < Limit /\ InitialSize + n5 < Limit
        /\ InitialSize + n1 < Limit /\ InitialSize + n2 < Limit /\ InitialSize + n3 < Limit
        /\ n1 + n2 + n3 + n4 < InitialSize /\ n1 + n2 + n3 + n4 <= InitialSize
    BY <2>1, Sizes
  <2> HIDE DEF q0, b0
  <2>3. /\ Len(h) + Len(t) + Len(u) < InitialSize /\ InitialSize + Len(c) < Limit
        /\ InitialSize + Len(h) < Limit /\ InitialSize + Len(t) < Limit /\ InitialSize + Len(u) < Limit
        /\ Len(h) + Len(t) + Len(u) + Len(c) < InitialSize
        /\ Len(h) + Len(t) + Len(u) + Len(c) <= InitialSize
        /\ InitialSize + Len(body) < Limit
    BY <2>2 DEF n1, n2, n3, n4, n5
  <2>4. q0 = h \o t \o u \o c /\ b0 = Append1(Append1(Append1(Append1(Fresh, h), t), u), c)
    BY DEF q0, b0
  <2>5. h \in Seq(AnswerWord) /\ t \in Seq(AnswerWord) /\ u \in Seq(AnswerWord) /\ c \in Seq(AnswerWord)
    BY <1>2
  <2> HIDE DEF h, t, u, c
  <2>6. Len(h) + Len(t) + Len(u) < InitialSize /\ InitialSize + Len(c) < Limit
    BY <2>3
  <2>7. InitialSize + Len(h) < Limit /\ InitialSize + Len(t) < Limit /\ InitialSize + Len(u) < Limit
    BY <2>3
  <2>8. Ends(b0, q0, Len(h) + Len(t) + Len(u) + Len(c))
    BY <2>5, <2>6, <2>7, HeldFour, ZenonT(60) DEF q0, b0
  <2> QED BY <2>3, <2>8, Zenon DEF Ends
<1>9. Holding(b, AnswerWord, q)
  <2> HIDE DEF q0, b0
  <2> QED BY <1>1, <1>8, PieceHolds, Zenon
<1>10. Len(q) = 5 + Len(body)
  <2> DEFINE x == h \o t  y == x \o u
  <2>1. x = h \o t /\ y = x \o u /\ q0 = y \o c /\ q = q0 \o body
    OBVIOUS
  <2> HIDE DEF x, y, q0, q
  <2>2. x \in Seq(AnswerWord) /\ Len(x) = Len(h) + Len(t)
    <3>1. h \in Seq(AnswerWord) /\ t \in Seq(AnswerWord) /\ x = h \o t
      BY <1>2, <2>1
    <3> QED BY <3>1, JoinedLength, SMTT(30)
  <2>3. y \in Seq(AnswerWord) /\ Len(y) = Len(x) + Len(u)
    <3>1. x \in Seq(AnswerWord) /\ u \in Seq(AnswerWord) /\ y = x \o u
      BY <1>2, <2>1, <2>2
    <3> QED BY <3>1, JoinedLength, SMTT(30)
  <2>4. q0 \in Seq(AnswerWord) /\ Len(q0) = Len(y) + Len(c)
    <3>1. y \in Seq(AnswerWord) /\ c \in Seq(AnswerWord) /\ q0 = y \o c
      BY <1>2, <2>1, <2>3
    <3> QED BY <3>1, JoinedLength, SMTT(30)
  <2>5. Len(q) = Len(q0) + Len(body)
    <3>1. q0 \in Seq(AnswerWord) /\ body \in Seq(AnswerWord) /\ q = q0 \o body
      BY <1>1, <2>1, <2>4
    <3> QED BY <3>1, JoinedLength, SMTT(30)
  <2> QED BY <1>1, <1>2, <2>2, <2>3, <2>4, <2>5
<1> HIDE DEF q, b
<1>11. q \in Seq(AnswerWord) /\ StringifyReadable(b) = q
  BY <1>9, HeldText DEF Holding
<1>12. q = <<"HTTP/1.1 200 OK">> \o <<"Content-Length", Len(body), "Connection: Keep-Alive">>
             \o <<"cr lf">> \o body
  BY <1>4, <1>5, Zenon DEF h, c
<1> HIDE DEF s
<1> QED BY <1>3, <1>7, <1>10, <1>11, <1>12, Zenon

(* The answer is whole, whatever the body and the setting.                 *)
CloseOf(req, setting) == IF setting = "unset" THEN Closes(req) ELSE setting = "on"

Whole(close, body) == <<"HTTP/1.1 200 OK">> \o Told(close, body) \o <<"cr lf">> \o body

IsAnswer(a, req, body, setting) ==
  /\ a.close = CloseOf(req, setting) /\ a.body = body /\ a.setting = setting
  /\ a.text = Whole(CloseOf(req, setting), body)

LEMMA ResponseText ==
  ASSUME NEW req, NEW body \in Bodies, NEW setting
  PROVE  /\ IsAnswer(Response(req, body, setting), req, body, setting)
         /\ Response(req, body, setting).text \in Seq(AnswerWord)
         /\ Len(Response(req, body, setting).text) <= MaxHead + Len(body)
<1> DEFINE close == CloseOf(req, setting)
<1>1. /\ Response(req, body, setting).close = close
      /\ Response(req, body, setting).body = body
      /\ Response(req, body, setting).setting = setting
      /\ Response(req, body, setting).text
           = StringifyReadable(AppendAll(Fresh, ResponsePieces(close, body)))
  BY DEF Response, CloseOf
<1>2. Len(body) \in Nat
  BY BodyWords
<1>3. close = TRUE \/ close = FALSE
  BY DEF CloseOf, Closes
<1> HIDE DEF close
<1>4. \E k \in {3, 5} :
        /\ Whole(close, body) \in Seq(AnswerWord) /\ Len(Whole(close, body)) = k + Len(body)
        /\ StringifyReadable(AppendAll(Fresh, ResponsePieces(close, body))) = Whole(close, body)
  <2>1. CASE close = TRUE
    <3>1. /\ Whole(close, body) \in Seq(AnswerWord) /\ Len(Whole(close, body)) = 3 + Len(body)
          /\ StringifyReadable(AppendAll(Fresh, ResponsePieces(close, body))) = Whole(close, body)
      BY <2>1, ClosingText, Zenon DEF Told, Whole
    <3> QED BY <3>1
  <2>2. CASE close = FALSE
    <3>1. /\ Whole(close, body) \in Seq(AnswerWord) /\ Len(Whole(close, body)) = 5 + Len(body)
          /\ StringifyReadable(AppendAll(Fresh, ResponsePieces(close, body))) = Whole(close, body)
      BY <2>2, KeepingText, Zenon DEF Told, Whole
    <3> QED BY <3>1
  <2> QED BY <1>3, <2>1, <2>2
<1>5. Len(Whole(close, body)) <= MaxHead + Len(body)
  BY <1>2, <1>4 DEF MaxHead
<1>6. Response(req, body, setting).text = Whole(close, body) /\ Whole(close, body) \in Seq(AnswerWord)
  BY <1>1, <1>4, Zenon
<1> DEFINE text == Response(req, body, setting).text
<1>7. text = Whole(close, body) /\ text \in Seq(AnswerWord) /\ Len(text) <= MaxHead + Len(body)
  <2>1. text = Whole(close, body)
    BY <1>6
  <2> HIDE DEF text
  <2> QED BY <1>5, <1>6, <2>1
<1>8. /\ Response(req, body, setting).close = CloseOf(req, setting)
      /\ Response(req, body, setting).text = Whole(CloseOf(req, setting), body)
  BY <1>1, <1>7, Zenon DEF close
<1>9. IsAnswer(Response(req, body, setting), req, body, setting)
  BY <1>1, <1>8, Zenon DEF IsAnswer
<1> QED BY <1>7, <1>9, Zenon

LEMMA LeastNumber ==
  ASSUME NEW T, T \subseteq Nat, T # {}
  PROVE  \E x \in T : \A y \in T : x <= y
<1> DEFINE R == {ss \in Nat \X Nat : ss[1] < ss[2]}
<1>1. IsWellFoundedOn(R, Nat)
  BY NatLessThanWellFounded DEF OpToRel
<1>2. \A x, y \in Nat : y < x => <<y, x>> \in R
  OBVIOUS
<1> HIDE DEF R
<1>3. PICK x \in T : \A y \in T : <<y, x>> \notin R
  BY <1>1, WFMin
<1>4. ASSUME NEW y \in T PROVE x <= y
  <2>1. x \in Nat /\ y \in Nat /\ <<y, x>> \notin R
    BY <1>3
  <2>2. ~(y < x)
    BY <1>2, <2>1
  <2> QED BY <2>1, <2>2
<1> QED BY <1>4

(* Induction, for a set instead of a property.                             *)
LEMMA SetInduction ==
  ASSUME NEW T, 0 \in T, \A n \in Nat : n \in T => n + 1 \in T
  PROVE  Nat \subseteq T
<1> SUFFICES ASSUME Nat \ T # {} PROVE FALSE
  OBVIOUS
<1>1. PICK x \in Nat \ T : \A y \in Nat \ T : x <= y
  BY LeastNumber
<1>2. x \in Nat /\ x # 0
  OBVIOUS
<1>3. x - 1 \in Nat /\ ~(x <= x - 1)
  BY <1>2
<1>4. x - 1 \in T
  BY <1>1, <1>3
<1> QED BY <1>3, <1>4

(* The parser.  find() gives the first place, or npos if there is none.    *)
LEMMA FindFirst ==
  ASSUME NEW S, NEW q \in Seq(S), NEW word, NEW from \in Nat, from > 0
  PROVE  /\ Find(q, word, from) = 0 => \A j \in from..Len(q) : q[j] # word
         /\ Find(q, word, from) # 0 =>
              /\ Find(q, word, from) \in from..Len(q) /\ q[Find(q, word, from)] = word
              /\ \A j \in from..Len(q) : q[j] = word => Find(q, word, from) <= j
<1> DEFINE at == {i \in from..Len(q) : q[i] = word}
           least == CHOOSE i \in at : \A j \in at : i <= j
<1>1. Find(q, word, from) = IF at = {} THEN 0 ELSE least
  BY DEF Find
<1>2. CASE at = {}
  <2>1. Find(q, word, from) = 0
    BY <1>1, <1>2
  <2>2. \A j \in from..Len(q) : q[j] # word
    BY <1>2
  <2> QED BY <2>1, <2>2
<1>3. CASE at # {}
  <2>1. Find(q, word, from) = least
    BY <1>1, <1>3
  <2>2. at \subseteq Nat
    BY LenProperties
  <2>3. least \in at /\ \A j \in at : least <= j
    <3> HIDE DEF at
    <3>1. \E i \in at : \A j \in at : i <= j
      BY <1>3, <2>2, LeastNumber
    <3> QED BY <3>1
  <2> HIDE DEF least
  <2>4. least \in from..Len(q) /\ q[least] = word
    BY <2>3
  <2>5. least # 0
    BY <2>4, LenProperties
  <2>6. \A j \in from..Len(q) : q[j] = word => least <= j
    BY <2>3
  <2> QED BY <2>1, <2>4, <2>5, <2>6
<1> QED BY <1>2, <1>3

(* What stands in front of the first zero byte.                            *)
LEMMA CStringHolds ==
  ASSUME NEW S, NEW s \in Seq(S)
  PROVE  CString(s) \in Seq(S) /\ Len(CString(s)) <= Len(s)
<1> DEFINE z == Find(s, Zero, 1)  c == SubSeq(s, 1, z - 1)
<1>1. Len(s) \in Nat /\ \A i \in 1..Len(s) : s[i] \in S
  BY LenProperties
<1>2. z = 0 \/ z \in 1..Len(s)
  BY FindFirst
<1>3. CString(s) = IF z = 0 THEN s ELSE c
  BY DEF CString
<1> HIDE DEF z
<1>4. ASSUME z \in 1..Len(s) PROVE c \in Seq(S) /\ Len(c) <= Len(s)
  <2>1. \A i \in 1..(z - 1) : s[i] \in S
    BY <1>1, <1>4
  <2>2. c \in Seq(S) /\ Len(c) = (IF 1 <= z - 1 THEN z - 1 - 1 + 1 ELSE 0)
    BY <1>1, <1>4, <2>1, SubSeqProperties
  <2> HIDE DEF c
  <2> QED BY <1>1, <1>4, <2>2
<1> HIDE DEF c
<1> QED BY <1>1, <1>2, <1>3, <1>4

----------------------------------------------------------------------------
(* The output buffer holds what is pending, until an append finds the      *)
(* write index behind the initial size.                                    *)
OutputInv == overrun \/ Holding(output, AnswerWord, pending)

LEMMA SendHolds ==
  ASSUME OutputInv, NEW body \in Bodies, NEW text \in Seq(AnswerWord),
         Len(text) <= MaxHead + Len(body), NEW n \in 0..Len(text), Send(text, n)
  PROVE  OutputInv'
<1>1. CASE ~connected \/ n = Len(text)
  BY <1>1 DEF Send, OutputInv, Holding
<1>2. CASE ~(~connected \/ n = Len(text))
  <2> DEFINE rest == SubSeq(text, n + 1, Len(text))  d == CString(rest)
  <2>1. /\ output' = Append1(output, d) /\ pending' = pending \o d
        /\ overrun' = (overrun \/ output.w > InitialSize)
    BY <1>2 DEF Send
  <2>2. rest \in Seq(AnswerWord) /\ Len(rest) <= Len(text) /\ Len(text) \in Nat
    <3>1. Len(text) \in Nat /\ n \in Nat /\ n <= Len(text)
      BY LenProperties
    <3>2. \A i \in (n + 1)..Len(text) : text[i] \in AnswerWord
      BY <3>1, LenProperties
    <3>3. /\ rest \in Seq(AnswerWord)
          /\ Len(rest) = (IF n + 1 <= Len(text) THEN Len(text) - (n + 1) + 1 ELSE 0)
      BY <3>1, <3>2, SubSeqProperties
    <3> HIDE DEF rest
    <3> QED BY <3>1, <3>3
  <2> HIDE DEF rest
  <2>3. d \in Seq(AnswerWord) /\ Len(d) <= Len(rest)
    BY <2>2, CStringHolds
  <2> HIDE DEF d
  <2>4. InitialSize + Len(d) < Limit
    <3>1. Len(d) \in Nat /\ Len(rest) \in Nat
      BY <2>2, <2>3, LenProperties
    <3>2. /\ MaxHead \in Nat /\ Len(body) \in Nat /\ InitialSize \in Nat /\ Limit \in Nat
          /\ InitialSize + MaxHead + Len(body) < Limit
      BY BodyWords, Sizes DEF MaxHead
    <3> QED BY <2>2, <2>3, <3>1, <3>2
  <2>5. CASE overrun \/ output.w > InitialSize
    BY <2>1, <2>5 DEF OutputInv
  <2>6. CASE ~(overrun \/ output.w > InitialSize)
    <3>1. Holding(output, AnswerWord, pending)
      BY <2>6 DEF OutputInv
    <3>2. output.w \in Nat /\ InitialSize \in Nat
      BY <3>1, HoldingSizes
    <3>3. output.w <= InitialSize
      BY <2>6, <3>2
    <3>4. Zero \in AnswerWord
      BY DEF AnswerWord
    <3>5. Holding(Append1(output, d), AnswerWord, pending \o d)
      BY <2>3, <2>4, <3>1, <3>3, <3>4, AppendHolds
    <3> QED BY <2>1, <3>5 DEF OutputInv
  <2> QED BY <2>5, <2>6
<1> QED BY <1>1, <1>2

LEMMA OutputInvStep == OutputInv /\ [Next]_vars => OutputInv'
<1> SUFFICES ASSUME OutputInv, [Next]_vars PROVE OutputInv'
  OBVIOUS
<1>1. ASSUME UNCHANGED <<output, pending, overrun>> PROVE OutputInv'
  BY <1>1 DEF OutputInv, Holding
<1>2. CASE ClientStarts
  BY <1>1, <1>2 DEF ClientStarts
<1>3. CASE Arrives
  BY <1>1, <1>3 DEF Arrives
<1>4. CASE OnMessage
  <2> DEFINE req == Handle(FetchReadable(Append1(input, wire)).text)
  <2>1. CASE ~req.ok
    <3>1. UNCHANGED <<output, pending, overrun>>
      BY <1>4, <2>1 DEF OnMessage
    <3> QED BY <1>1, <3>1
  <2>2. CASE req.ok
    <3>1. \E body \in Bodies, setting \in Settings :
             /\ answer' = Response(req, body, setting)
             /\ \E n \in 0..Len(answer'.text) : Send(answer'.text, n)
      BY <1>4, <2>2, Zenon DEF OnMessage
    <3> HIDE DEF req
    <3>2. PICK body \in Bodies, setting \in Settings :
             /\ answer' = Response(req, body, setting)
             /\ \E n \in 0..Len(answer'.text) : Send(answer'.text, n)
      BY <3>1, Zenon
    <3> DEFINE text == answer'.text
    <3>3. text \in Seq(AnswerWord) /\ Len(text) <= MaxHead + Len(body)
      <4> DEFINE a == Response(req, body, setting)
      <4>1. a.text \in Seq(AnswerWord) /\ Len(a.text) <= MaxHead + Len(body)
        BY ResponseText, Zenon
      <4>2. answer' = a
        BY <3>2, Zenon
      <4> HIDE DEF a
      <4> QED BY <4>1, <4>2, Zenon
    <3>4. PICK n \in 0..Len(text) : Send(text, n)
      BY <3>2
    <3> HIDE DEF text
    <3> QED BY <3>3, <3>4, SendHolds
  <2> QED BY <2>1, <2>2
<1>5. CASE HandleWrite
  <2>1. PICK n \in 1..ReadableBytes(output) :
          /\ output' = Retrieve(output, n)
          /\ pending' = SubSeq(pending, n + 1, Len(pending))
    BY <1>5 DEF HandleWrite
  <2>2. overrun' = overrun
    BY <1>5 DEF HandleWrite
  <2>3. CASE overrun
    BY <2>2, <2>3 DEF OutputInv
  <2>4. CASE ~overrun
    <3>1. Holding(output, AnswerWord, pending)
      BY <2>4 DEF OutputInv
    <3>2. n \in 0..Len(pending)
      <4>1. ReadableBytes(output) = Len(pending) /\ Len(pending) \in Nat
        BY <3>1, HoldingSizes
      <4> QED BY <4>1
    <3>3. Holding(output', AnswerWord, pending')
      BY <2>1, <3>1, <3>2, RetrieveHolds
    <3> QED BY <3>3 DEF OutputInv
  <2> QED BY <2>3, <2>4
<1>6. CASE UNCHANGED vars
  BY <1>1, <1>6 DEF vars
<1> QED BY <1>2, <1>3, <1>4, <1>5, <1>6 DEF Next

(* Whatever the client asks and however little the socket takes at a time: *)
(* the output buffer holds what send() left over, in its order, and        *)
(* nothing is written behind the capacity, through all its moves to the    *)
(* front and a first growth, until an answer is appended behind that       *)
(* growth (Buffer.cpp:17-41, Buffer.h:47-50).                              *)
THEOREM OutputIsQueueHolds == Spec => []OutputIsQueue
<1>1. Init => OutputInv
  BY FreshHolds DEF Init, OutputInv
<1>2. OutputInv => OutputIsQueue
  <2>1. Holding(output, AnswerWord, pending) => StringifyReadable(output) = pending
    BY HeldText
  <2>2. Holding(output, AnswerWord, pending) => output.outside = FALSE
    BY HoldingSizes
  <2> QED BY <2>1, <2>2 DEF OutputInv, OutputIsQueue
<1> QED BY <1>1, <1>2, OutputInvStep, PTL DEF Spec

(* One round of the loop over the header lines, when f tells what the      *)
(* rounds behind it find.                                                  *)
Line(q, f, i) ==
  LET s == Find(q, "sp", i + 2)
      c == IF s = 0 THEN 0 ELSE Find(q, "cr", s + 1)
  IN  IF s = i + 2 THEN [ok |-> FALSE, lines |-> << >>]
      ELSE IF c = 0 THEN [ok |-> TRUE, lines |-> << >>]
      ELSE [ok |-> f[c].ok,
            lines |-> <<[field |-> Field(q, i + 2, s), value |-> SubSeq(q, s + 1, c - 1)]>>
                        \o f[c].lines]

(* The loop goes forward.                                                  *)
LEMMA LineAhead ==
  ASSUME NEW S, NEW q \in Seq(S), NEW i \in 1..(Len(q) + 1), NEW f, NEW g,
         \A c \in (i + 1)..Len(q) : f[c] = g[c]
  PROVE  Line(q, f, i) = Line(q, g, i)
<1> DEFINE s == Find(q, "sp", i + 2)
           c == IF s = 0 THEN 0 ELSE Find(q, "cr", s + 1)
<1>1. Len(q) \in Nat /\ i \in Nat /\ i + 2 \in Nat /\ i + 2 > 0
  BY LenProperties
<1>2. s = 0 \/ s \in (i + 2)..Len(q)
  BY <1>1, FindFirst
<1> HIDE DEF s
<1>3. c = 0 \/ c \in (i + 1)..Len(q)
  <2>1. CASE s = 0
    BY <2>1
  <2>2. CASE s # 0
    <3>1. s + 1 \in Nat /\ s + 1 > 0 /\ s + 1 >= i + 1
      BY <1>1, <1>2, <2>2
    <3>2. c = 0 \/ c \in (s + 1)..Len(q)
      BY <2>2, <3>1, FindFirst
    <3> QED BY <1>1, <3>1, <3>2
  <2> QED BY <2>1, <2>2
<1>4. c # 0 => f[c] = g[c]
  BY <1>3
<1>5. CASE c = 0
  BY <1>5 DEF Line, c, s
<1>6. CASE c # 0
  <2>1. f[c] = g[c]
    BY <1>4, <1>6
  <2> QED BY <1>6, <2>1 DEF Line, c, s
<1> QED BY <1>5, <1>6

(* So there is a function that the rounds make together.                   *)
LEMMA LinesExist ==
  ASSUME NEW S, NEW q \in Seq(S)
  PROVE  \E f : f = [i \in 1..(Len(q) + 1) |-> Line(q, f, i)]
<1> DEFINE L == Len(q) + 1
           D(n) == (L + 1 - n)..L
           T == {n \in Nat : n <= L => \E f : f = [i \in D(n) |-> Line(q, f, i)]}
<1>1. Len(q) \in Nat /\ L \in Nat /\ Len(q) = L - 1
  BY LenProperties
<1> HIDE DEF L
<1>2. 0 \in T
  <2> DEFINE f == [i \in D(0) |-> 0]
  <2>1. D(0) = {}
    BY <1>1
  <2>2. f = [i \in D(0) |-> Line(q, f, i)]
    BY <2>1
  <2> QED BY <2>2
<1>3. ASSUME NEW n \in Nat, n \in T PROVE n + 1 \in T
  <2> SUFFICES ASSUME n + 1 <= L
               PROVE  \E f : f = [i \in D(n + 1) |-> Line(q, f, i)]
    OBVIOUS
  <2>1. PICK f : f = [i \in D(n) |-> Line(q, f, i)]
    BY <1>1, <1>3
  <2> DEFINE new == L - n
             g == [i \in D(n + 1) |-> IF i = new THEN Line(q, f, i) ELSE f[i]]
  <2>2. /\ new \in Nat /\ new \in 1..L /\ D(n + 1) \subseteq 1..L
        /\ \A i \in D(n + 1) : i = new \/ i \in D(n)
        /\ \A i \in D(n) : i \in D(n + 1) /\ i # new
        /\ \A i \in D(n + 1) : (i + 1)..Len(q) \subseteq D(n)
    BY <1>1
  <2>3. \A i \in D(n) : g[i] = f[i]
    BY <2>2
  <2>4. ASSUME NEW i \in D(n + 1) PROVE g[i] = Line(q, g, i)
    <3>1. \A c \in (i + 1)..Len(q) : f[c] = g[c]
      BY <2>2, <2>3
    <3>2. i \in 1..(Len(q) + 1)
      BY <2>2 DEF L
    <3>3. Line(q, f, i) = Line(q, g, i)
      <4> HIDE DEF g, D
      <4> QED BY <3>1, <3>2, LineAhead
    <3>4. CASE i = new
      BY <3>3, <3>4
    <3>5. CASE i # new
      <4>1. i \in D(n) /\ g[i] = f[i]
        BY <2>2, <2>3, <3>5
      <4>2. f[i] = Line(q, f, i)
        BY <2>1, <4>1
      <4> QED BY <3>3, <4>1, <4>2
    <3> QED BY <3>4, <3>5
  <2>5. g = [i \in D(n + 1) |-> g[i]]
    OBVIOUS
  <2>6. g = [i \in D(n + 1) |-> Line(q, g, i)]
    <3> HIDE DEF g, D
    <3> QED BY <2>4, <2>5
  <2> QED BY <2>6
<1>4. L \in T
  <2> HIDE DEF T
  <2>1. Nat \subseteq T
    BY <1>2, <1>3, SetInduction
  <2> QED BY <1>1, <2>1
<1>5. D(L) = 1..L
  BY <1>1
<1> HIDE DEF D
<1>6. \E f : f = [i \in 1..L |-> Line(q, f, i)]
  BY <1>1, <1>4, <1>5
<1> QED BY <1>6 DEF L

(* What HeaderLines is, round by round.                                    *)
LEMMA HeaderLinesUnfold ==
  ASSUME NEW S, NEW q \in Seq(S)
  PROVE  \E f : /\ \A e \in 1..(Len(q) + 1) : f[e] = Line(q, f, e)
                /\ \A e : HeaderLines(q, e) = f[e]
<1> DEFINE from == CHOOSE f : f = [i \in 1..(Len(q) + 1) |-> Line(q, f, i)]
<1>1. from = [i \in 1..(Len(q) + 1) |-> Line(q, from, i)]
  BY LinesExist
<1>2. \A e : HeaderLines(q, e) = from[e]
  BY DEF HeaderLines, Line
<1> HIDE DEF from
<1>3. \A e \in 1..(Len(q) + 1) : from[e] = Line(q, from, e)
  BY <1>1
<1> QED BY <1>2, <1>3

(* One word of a text.                                                     *)
LEMMA SubSeqOne ==
  ASSUME NEW S, NEW q \in Seq(S), NEW i \in 1..Len(q)
  PROVE  SubSeq(q, i, i) = <<q[i]>>
<1> DEFINE s == SubSeq(q, i, i)  t == <<q[i]>>
<1>1. Len(q) \in Nat /\ i \in Nat /\ q[i] \in S
  BY LenProperties
<1>2. s \in Seq(S) /\ Len(s) = 1 /\ s[1] = q[i]
  <2>1. \A k \in i..i : q[k] \in S
    BY <1>1
  <2>2. /\ s \in Seq(S) /\ Len(s) = (IF i <= i THEN i - i + 1 ELSE 0)
        /\ \A k \in 1..(i - i + 1) : s[k] = q[i + k - 1]
    BY <1>1, <2>1, SubSeqProperties
  <2> HIDE DEF s
  <2>3. i - i + 1 = 1 /\ i + 1 - 1 = i
    BY <1>1
  <2> QED BY <1>1, <2>3, <2>2
<1>3. t \in Seq(S) /\ Len(t) = 1 /\ t[1] = q[i]
  BY <1>1
<1> HIDE DEF s, t
<1>4. s = t
  BY <1>2, <1>3, SeqEqual
<1> QED BY <1>4 DEF s, t

(* A word found at a place, and not before it.                             *)
LEMMA FoundAt ==
  ASSUME NEW S, NEW q \in Seq(S), NEW word, NEW from \in Nat, from > 0,
         NEW i \in from..Len(q), q[i] = word, \A j \in from..(i - 1) : q[j] # word
  PROVE  Find(q, word, from) = i
<1> DEFINE f == Find(q, word, from)
<1>1. /\ f = 0 => \A j \in from..Len(q) : q[j] # word
      /\ f # 0 => /\ f \in from..Len(q) /\ q[f] = word
                  /\ \A j \in from..Len(q) : q[j] = word => f <= j
  BY FindFirst
<1>2. Len(q) \in Nat
  BY LenProperties
<1> HIDE DEF f
<1>3. f # 0
  BY <1>1
<1>4. f <= i /\ f \in from..Len(q) /\ q[f] = word
  BY <1>1, <1>3
<1>5. ~(f < i)
  BY <1>2, <1>4
<1> QED BY <1>2, <1>4, <1>5 DEF f

LEMMA NotFound ==
  ASSUME NEW S, NEW q \in Seq(S), NEW word, NEW from \in Nat, from > 0,
         \A j \in from..Len(q) : q[j] # word
  PROVE  Find(q, word, from) = 0
BY FindFirst


LEMMA SevenWords ==
  ASSUME NEW S, NEW a \in S, NEW b \in S, NEW c \in S, NEW d \in S, NEW e \in S, NEW f \in S,
         NEW g \in S, NEW s, s = <<a, b, c, d, e, f, g>>
  PROVE  /\ s \in Seq(S) /\ Len(s) = 7
         /\ s[1] = a /\ s[2] = b /\ s[3] = c /\ s[4] = d /\ s[5] = e /\ s[6] = f /\ s[7] = g
<1>1. s \in [1..7 -> S]
  OBVIOUS
<1>2. s \in Seq(S)
  BY <1>1
<1>3. Len(s) = 7
  OBVIOUS
<1>4. s[1] = a /\ s[2] = b /\ s[3] = c /\ s[4] = d /\ s[5] = e /\ s[6] = f /\ s[7] = g
  OBVIOUS
<1> QED BY <1>2, <1>3, <1>4

(* The words of two texts put together, by their places.                   *)
LEMMA Joined ==
  ASSUME NEW S, NEW q \in Seq(S), NEW d \in Seq(S), NEW j, j = q \o d
  PROVE  /\ j \in Seq(S) /\ Len(j) = Len(q) + Len(d)
         /\ \A i \in 1..Len(q) : j[i] = q[i]
         /\ \A i \in (Len(q) + 1)..(Len(q) + Len(d)) : j[i] = d[i - Len(q)]
<1>1. Len(q) \in Nat /\ Len(d) \in Nat
  BY LenProperties
<1>2. /\ j \in Seq(S) /\ Len(j) = Len(q) + Len(d)
      /\ \A i \in 1..(Len(q) + Len(d)) : j[i] = IF i <= Len(q) THEN q[i] ELSE d[i - Len(q)]
  BY ConcatProperties
<1> QED BY <1>1, <1>2

(* The words of the header lines, by their places.                         *)
LEMMA LineWords ==
  ASSUME NEW h
  PROVE  /\ HeaderLine(h)[1] = h.field /\ HeaderLine(h)[2] = ":" /\ HeaderLine(h)[3] = "sp"
         /\ HeaderLine(h)[4] = h.value /\ HeaderLine(h)[5] = "cr" /\ HeaderLine(h)[6] = "lf"
BY DEF HeaderLine

LEMMA SixParts ==
  /\ \A k \in Nat, j \in 1..6 : (6 * k + j - 1) \div 6 = k /\ (6 * k + j - 1) % 6 = j - 1
  /\ \A n \in Nat : \A i \in 1..(6 * n) : (i - 1) \div 6 \in 0..(n - 1) /\ (i - 1) % 6 \in 0..5
<1>1. ASSUME NEW k \in Nat, NEW j \in 1..6
      PROVE  (6 * k + j - 1) \div 6 = k /\ (6 * k + j - 1) % 6 = j - 1
  OBVIOUS
<1>2. ASSUME NEW n \in Nat, NEW i \in 1..(6 * n)
      PROVE  (i - 1) \div 6 \in 0..(n - 1) /\ (i - 1) % 6 \in 0..5
  OBVIOUS
<1> QED BY <1>1, <1>2

HeaderPlaces(hs, S) ==
  /\ Len(hs) \in Nat /\ Header(hs) \in Seq(S) /\ Len(Header(hs)) = 6 * Len(hs)
  /\ \A k \in 0..(Len(hs) - 1), j \in 1..6 : Header(hs)[6 * k + j] = HeaderLine(hs[k + 1])[j]

LEMMA HeaderWords ==
  ASSUME NEW S, NEW F, F \subseteq S, ":" \in S, "sp" \in S, "cr" \in S, "lf" \in S,
         NEW hs \in Seq([field : F, value : F])
  PROVE  HeaderPlaces(hs, S)
<1> DEFINE n == Len(hs)
           x == Header(hs)
           G(i) == HeaderLine(hs[((i - 1) \div 6) + 1])[((i - 1) % 6) + 1]
<1>1. n \in Nat /\ \A i \in 1..n : hs[i] \in [field : F, value : F]
  BY LenProperties
<1>2. x = [i \in 1..(6 * n) |-> G(i)]
  BY DEF Header
<1> HIDE DEF n, x
<1>3. ASSUME NEW i \in 1..(6 * n) PROVE G(i) \in S
  <2> DEFINE k == ((i - 1) \div 6) + 1  j == ((i - 1) % 6) + 1
  <2>1. k \in 1..n /\ j \in 1..6
    <3>1. (i - 1) \div 6 \in 0..(n - 1) /\ (i - 1) % 6 \in 0..5
      BY <1>1, SixParts
    <3> DEFINE a == (i - 1) \div 6  b == (i - 1) % 6
    <3>2. a \in 0..(n - 1) /\ b \in 0..5
      BY <3>1
    <3> HIDE DEF a, b
    <3>3. a + 1 \in 1..n /\ b + 1 \in 1..6
      BY <1>1, <3>2
    <3> QED BY <3>3 DEF a, b
  <2>2. G(i) = HeaderLine(hs[k])[j]
    OBVIOUS
  <2> HIDE DEF k, j, G
  <2>3. hs[k].field \in S /\ hs[k].value \in S
    BY <1>1, <2>1
  <2>4. HeaderLine(hs[k])[j] \in S
    <3> DEFINE h == hs[k]
    <3>1. /\ HeaderLine(h)[1] = h.field /\ HeaderLine(h)[2] = ":" /\ HeaderLine(h)[3] = "sp"
          /\ HeaderLine(h)[4] = h.value /\ HeaderLine(h)[5] = "cr" /\ HeaderLine(h)[6] = "lf"
      BY LineWords
    <3>2. h.field \in S /\ h.value \in S
      BY <2>3
    <3> HIDE DEF h
    <3>3. HeaderLine(h)[j] \in S
      BY <2>1, <3>1, <3>2
    <3> QED BY <3>3 DEF h
  <2> QED BY <2>2, <2>4
<1>4. x \in Seq(S) /\ Len(x) = 6 * n
  <2> HIDE DEF G
  <2>1. 6 * n \in Nat
    BY <1>1
  <2>2. x \in [1..(6 * n) -> S]
    BY <1>2, <1>3
  <2> QED BY <2>1, <2>2
<1>5. ASSUME NEW k \in 0..(n - 1), NEW j \in 1..6 PROVE x[6 * k + j] = HeaderLine(hs[k + 1])[j]
  <2> DEFINE i == 6 * k + j
  <2>1. i \in 1..(6 * n)
    BY <1>1
  <2>2. (6 * k + j - 1) \div 6 = k /\ (6 * k + j - 1) % 6 = j - 1
    BY SixParts
  <2>3. i - 1 = 6 * k + j - 1
    OBVIOUS
  <2>4. x[i] = G(i)
    <3> HIDE DEF G, i
    <3> QED BY <1>2, <2>1
  <2> HIDE DEF i
  <2>5. ((i - 1) \div 6) + 1 = k + 1 /\ ((i - 1) % 6) + 1 = j
    BY <2>2, <2>3
  <2>6. G(i) = HeaderLine(hs[k + 1])[j]
    BY <2>5
  <2> QED BY <2>4, <2>6 DEF i
<1> QED BY <1>1, <1>4, <1>5 DEF n, x, HeaderPlaces

(* How a request lies in a text.                                           *)
Laid(q, hs, body) ==
  LET n == Len(hs)
  IN  /\ Len(q) = 9 + 6 * n + Len(body)
      /\ \A k \in 0..(n - 1) :
           /\ q[6 * k + 8] = hs[k + 1].field /\ q[6 * k + 9] = ":" /\ q[6 * k + 10] = "sp"
           /\ q[6 * k + 11] = hs[k + 1].value /\ q[6 * k + 12] = "cr" /\ q[6 * k + 13] = "lf"
      /\ q[6 * n + 8] = "cr" /\ q[6 * n + 9] = "lf"
      /\ \A i \in 1..Len(body) : q[6 * n + 9 + i] = body[i]

(* The words of two texts put together, counted in each of them.           *)
Starts(j, q, a) == \A i \in 1..a : j[i] = q[i]
Behind(j, d, a, c) == \A i \in 1..c : j[a + i] = d[i]
IsJoin(j, S, q, d, a, c) ==
  j \in Seq(S) /\ Len(j) = a + c /\ Starts(j, q, a) /\ Behind(j, d, a, c)

LEMMA JoinedPlaces ==
  ASSUME NEW S, NEW q \in Seq(S), NEW d \in Seq(S), NEW a, NEW c,
         Len(q) = a, Len(d) = c, NEW j, j = q \o d
  PROVE  IsJoin(j, S, q, d, a, c)
<1>1. a \in Nat /\ c \in Nat
  BY LenProperties
<1>2. /\ j \in Seq(S) /\ Len(j) = Len(q) + Len(d)
      /\ \A i \in 1..(Len(q) + Len(d)) : j[i] = IF i <= Len(q) THEN q[i] ELSE d[i - Len(q)]
  BY ConcatProperties
<1>3. /\ Len(j) = a + c
      /\ \A i \in 1..(a + c) : j[i] = IF i <= a THEN q[i] ELSE d[i - a]
  BY <1>2, Zenon
<1>4. ASSUME NEW i \in 1..a PROVE j[i] = q[i]
  <2>1. i \in 1..(a + c) /\ i <= a
    BY <1>1
  <2> QED BY <1>3, <2>1, Zenon
<1>5. ASSUME NEW i \in 1..c PROVE j[a + i] = d[i]
  <2> DEFINE k == a + i
  <2>1. k \in 1..(a + c) /\ ~(k <= a) /\ k - a = i
    BY <1>1
  <2> HIDE DEF k
  <2>2. j[k] = d[k - a]
    BY <1>3, <2>1, Zenon
  <2>3. j[k] = d[i]
    BY <2>1, <2>2, Zenon
  <2> QED BY <2>3 DEF k
<1> QED BY <1>2, <1>3, <1>4, <1>5, Zenon DEF IsJoin, Starts, Behind

LaidText(S, q, m, v, hs, body) ==
  /\ q \in Seq(S) /\ Laid(q, hs, body)
  /\ q[1] = m /\ q[2] = "sp" /\ q[3] = "path" /\ q[4] = "sp" /\ q[5] = v
  /\ q[6] = "cr" /\ q[7] = "lf"

LEMMA TextLaid ==
  ASSUME NEW S, NEW F, F \subseteq S, ":" \in S, "sp" \in S, "cr" \in S, "lf" \in S, "path" \in S,
         NEW m \in S, NEW v \in S, NEW hs \in Seq([field : F, value : F]), NEW body \in Seq(S),
         NEW q, q = <<m, "sp", "path", "sp", v, "cr", "lf">> \o Header(hs) \o <<"cr", "lf">> \o body
  PROVE  LaidText(S, q, m, v, hs, body)
<1> DEFINE s == <<m, "sp", "path", "sp", v, "cr", "lf">>  x == Header(hs)  t == <<"cr", "lf">>
           w == s \o x  u == w \o t  n == Len(hs)  z == Len(body)
<1>1. /\ s \in Seq(S) /\ Len(s) = 7 /\ s[1] = m /\ s[2] = "sp" /\ s[3] = "path" /\ s[4] = "sp"
      /\ s[5] = v /\ s[6] = "cr" /\ s[7] = "lf"
  <2>1. s = <<m, "sp", "path", "sp", v, "cr", "lf">>
    OBVIOUS
  <2> HIDE DEF s
  <2> QED BY <2>1, SevenWords
<1>2. t \in Seq(S) /\ Len(t) = 2 /\ t[1] = "cr" /\ t[2] = "lf"
  OBVIOUS
<1>3. /\ n \in Nat /\ x \in Seq(S) /\ Len(x) = 6 * n
      /\ \A k \in 0..(n - 1), j \in 1..6 : x[6 * k + j] = HeaderLine(hs[k + 1])[j]
  <2> HIDE DEF s, t
  <2>1. HeaderPlaces(hs, S)
    BY HeaderWords, Zenon
  <2> QED BY <2>1, Zenon DEF HeaderPlaces
<1>4. w = s \o x /\ u = w \o t /\ q = u \o body
  OBVIOUS
<1>5. z \in Nat /\ Len(body) = z
  BY LenProperties
<1> DEFINE a == 6 * n  p == 7 + a  b == 9 + a
<1>6. a \in Nat /\ p \in Nat /\ b \in Nat /\ p = 7 + a /\ b = p + 2 /\ 7 \in Nat /\ 2 \in Nat
  <2> HIDE DEF n
  <2> QED BY <1>3
<1>7. Len(x) = a /\ 9 + 6 * n + z = b + z /\ 6 * n + 8 = p + 1 /\ 6 * n + 9 = p + 2
  <2> HIDE DEF n, z
  <2> QED BY <1>3, <1>5
<1> HIDE DEF s, x, t, w, u, n, z, a, p, b
<1>8. w \in Seq(S) /\ Len(w) = p /\ Starts(w, s, 7) /\ Behind(w, x, 7, a)
  <2>1. IsJoin(w, S, s, x, 7, a)
    BY <1>1, <1>3, <1>4, <1>7, JoinedPlaces, Zenon
  <2> QED BY <1>6, <2>1, Zenon DEF IsJoin
<1>9. u \in Seq(S) /\ Len(u) = b /\ Starts(u, w, p) /\ Behind(u, t, p, 2)
  <2>1. IsJoin(u, S, w, t, p, 2)
    BY <1>2, <1>4, <1>8, JoinedPlaces, Zenon
  <2> QED BY <1>6, <2>1, Zenon DEF IsJoin
<1>10. q \in Seq(S) /\ Len(q) = b + z /\ Starts(q, u, b) /\ Behind(q, body, b, z)
  <2>1. IsJoin(q, S, u, body, b, z)
    BY <1>4, <1>5, <1>9, JoinedPlaces, Zenon
  <2> QED BY <2>1, Zenon DEF IsJoin
<1>11. ASSUME NEW i \in 1..7 PROVE q[i] = s[i]
  <2>1. i \in 1..p /\ i \in 1..b
    BY <1>6
  <2> QED BY <1>8, <1>9, <1>10, <2>1, Zenon DEF Starts
<1>12. ASSUME NEW i \in 1..a PROVE q[7 + i] = x[i]
  <2>1. 7 + i \in 1..p /\ 7 + i \in 1..b
    BY <1>6
  <2> QED BY <1>8, <1>9, <1>10, <2>1, Zenon DEF Starts, Behind
<1>13. ASSUME NEW k \in 0..(n - 1)
       PROVE  /\ q[6 * k + 8] = hs[k + 1].field /\ q[6 * k + 9] = ":" /\ q[6 * k + 10] = "sp"
              /\ q[6 * k + 11] = hs[k + 1].value /\ q[6 * k + 12] = "cr" /\ q[6 * k + 13] = "lf"
  <2> DEFINE h == hs[k + 1]  g == HeaderLine(h)
  <2>1. ASSUME NEW j \in 1..6 PROVE q[7 + (6 * k + j)] = g[j]
    <3>1. 6 * k + j \in 1..a
      BY <1>3 DEF a
    <3>2. x[6 * k + j] = g[j]
      BY <1>3
    <3> QED BY <1>12, <3>1, <3>2
  <2>2. /\ g[1] = h.field /\ g[2] = ":" /\ g[3] = "sp"
        /\ g[4] = h.value /\ g[5] = "cr" /\ g[6] = "lf"
    BY LineWords
  <2> HIDE DEF g
  <2>3. /\ 7 + (6 * k + 1) = 6 * k + 8 /\ 7 + (6 * k + 2) = 6 * k + 9 /\ 7 + (6 * k + 3) = 6 * k + 10
        /\ 7 + (6 * k + 4) = 6 * k + 11 /\ 7 + (6 * k + 5) = 6 * k + 12 /\ 7 + (6 * k + 6) = 6 * k + 13
    BY <1>3
  <2>4. /\ q[7 + (6 * k + 1)] = g[1] /\ q[7 + (6 * k + 2)] = g[2] /\ q[7 + (6 * k + 3)] = g[3]
        /\ q[7 + (6 * k + 4)] = g[4] /\ q[7 + (6 * k + 5)] = g[5] /\ q[7 + (6 * k + 6)] = g[6]
    <3>1. 1 \in 1..6 /\ 2 \in 1..6 /\ 3 \in 1..6 /\ 4 \in 1..6 /\ 5 \in 1..6 /\ 6 \in 1..6
      OBVIOUS
    <3> QED BY <2>1, <3>1, Zenon
  <2> QED BY <2>2, <2>3, <2>4
<1>14. q[6 * n + 8] = "cr" /\ q[6 * n + 9] = "lf"
  <2>1. p + 1 \in 1..b /\ p + 2 \in 1..b /\ 1 \in 1..2 /\ 2 \in 1..2
    BY <1>6
  <2>2. q[p + 1] = t[1] /\ q[p + 2] = t[2]
    BY <1>9, <1>10, <2>1, Zenon DEF Starts, Behind
  <2> QED BY <1>2, <1>7, <2>2, Zenon
<1>15. ASSUME NEW i \in 1..z PROVE q[6 * n + 9 + i] = body[i]
  <2>1. 6 * n + 9 + i = b + i
    BY <1>3 DEF a, b
  <2>2. q[b + i] = body[i]
    BY <1>10, Zenon DEF Behind
  <2> QED BY <2>1, <2>2, Zenon
<1>16. Laid(q, hs, body)
  <2>1. Len(q) = 9 + 6 * n + z
    BY <1>7, <1>10
  <2> QED BY <1>13, <1>14, <1>15, <2>1 DEF Laid, n, z
<1> QED BY <1>1, <1>10, <1>11, <1>16 DEF LaidText

(* The request line of a text, and what handle() makes of it.              *)
RequestLine(q) ==
  /\ Len(q) >= 9
  /\ q[1] # "sp" /\ q[2] = "sp" /\ q[3] # "sp" /\ q[4] = "sp"
  /\ q[5] # "cr" /\ q[6] = "cr" /\ q[7] = "lf"

MethodOf(s) == IF s \in {<<"GET">>, <<"POST">>} THEN s[1] ELSE "kInvalid"
VersionOf(s) == IF s \in {<<"HTTP/1.0">>, <<"HTTP/1.1">>} THEN s[1] ELSE "kUnknown"

LEMMA HandleFields ==
  ASSUME NEW S, NEW q \in Seq(S), RequestLine(q)
  PROVE  /\ Handle(q).ok = HeaderLines(q, 6).ok /\ Handle(q).lines = HeaderLines(q, 6).lines
         /\ Handle(q).method = MethodOf(<<q[1]>>) /\ Handle(q).version = VersionOf(<<q[5]>>)
<1> DEFINE m == Find(q, "sp", 1)
           p == Find(q, "sp", m + 1)
           v == Find(q, "cr", p + 1)
           h == HeaderLines(q, v)
           req == [ok |-> h.ok, lines |-> h.lines,
                   method |-> MethodOf(SubSeq(q, 1, m - 1)),
                   version |-> VersionOf(SubSeq(q, p + 1, v - 1))]
<1>1. Len(q) \in Nat /\ Len(q) >= 9
  BY LenProperties DEF RequestLine
<1>2. m = 2
  <2>1. 1 \in Nat /\ 1 > 0 /\ 2 \in 1..Len(q) /\ q[2] = "sp" /\ \A j \in 1..(2 - 1) : q[j] # "sp"
    BY <1>1 DEF RequestLine
  <2> QED BY <2>1, FoundAt
<1>3. p = 4
  <2>1. 3 \in Nat /\ 3 > 0 /\ 4 \in 3..Len(q) /\ q[4] = "sp" /\ \A j \in 3..(4 - 1) : q[j] # "sp"
    BY <1>1 DEF RequestLine
  <2>2. Find(q, "sp", 3) = 4
    BY <2>1, FoundAt
  <2> HIDE DEF m
  <2>3. m + 1 = 3
    BY <1>2
  <2> QED BY <2>2, <2>3
<1>4. v = 6
  <2>1. 5 \in Nat /\ 5 > 0 /\ 6 \in 5..Len(q) /\ q[6] = "cr" /\ \A j \in 5..(6 - 1) : q[j] # "cr"
    BY <1>1 DEF RequestLine
  <2>2. Find(q, "cr", 5) = 6
    BY <2>1, FoundAt
  <2> HIDE DEF p
  <2>3. p + 1 = 5
    BY <1>3
  <2> QED BY <2>2, <2>3
<1>5. HasLine(q)
  BY <1>1 DEF HasLine, RequestLine
<1>6. Handle(q) = req
  <2>1. ~(m = 0 \/ p = 0 \/ v = 0)
    <3> HIDE DEF m, p, v
    <3> QED BY <1>2, <1>3, <1>4
  <2> QED BY <1>5, <2>1, Zenon DEF Handle, MethodOf, VersionOf
<1> HIDE DEF m, p, v
<1>7. SubSeq(q, 1, m - 1) = <<q[1]>>
  <2>1. m - 1 = 1 /\ 1 \in 1..Len(q)
    BY <1>1, <1>2
  <2>2. SubSeq(q, 1, 1) = <<q[1]>>
    BY <2>1, SubSeqOne
  <2> QED BY <2>1, <2>2
<1>8. SubSeq(q, p + 1, v - 1) = <<q[5]>>
  <2>1. p + 1 = 5 /\ v - 1 = 5 /\ 5 \in 1..Len(q)
    BY <1>1, <1>3, <1>4
  <2>2. SubSeq(q, 5, 5) = <<q[5]>>
    BY <2>1, SubSeqOne
  <2> QED BY <2>1, <2>2
<1>9. h = HeaderLines(q, 6)
  BY <1>4
<1> HIDE DEF h
<1>10. /\ req.ok = h.ok /\ req.lines = h.lines /\ req.method = MethodOf(SubSeq(q, 1, m - 1))
       /\ req.version = VersionOf(SubSeq(q, p + 1, v - 1))
  OBVIOUS
<1> HIDE DEF req
<1> QED BY <1>6, <1>7, <1>8, <1>9, <1>10

(* What the rounds over the header lines find.                             *)
LineOf(h) == [field |-> <<h.field>>, value |-> <<h.value>>]
LinesFrom(hs, k) == [j \in 1..(Len(hs) - k) |-> LineOf(hs[k + j])]

(* Such a line is in front of what the round behind it finds.              *)
LEMMA LinesJoined ==
  ASSUME NEW n \in Nat, NEW hs, Len(hs) = n, NEW k \in 0..(n - 1)
  PROVE  <<LineOf(hs[k + 1])>> \o LinesFrom(hs, k + 1) = LinesFrom(hs, k)
<1> DEFINE L == {LineOf(hs[k + j]) : j \in 1..(n - k)}
           d == <<LineOf(hs[k + 1])>>  r == LinesFrom(hs, k + 1)  s == LinesFrom(hs, k)
<1>1. /\ n - k \in Nat /\ n - (k + 1) \in Nat /\ 1 \in 1..(n - k)
      /\ \A j \in 1..(n - (k + 1)) : j + 1 \in 1..(n - k) /\ k + (j + 1) = (k + 1) + j
  OBVIOUS
<1>2. s \in Seq(L) /\ Len(s) = n - k /\ \A j \in 1..(n - k) : s[j] = LineOf(hs[k + j])
  <2>1. s \in [1..(n - k) -> L] /\ \A j \in 1..(n - k) : s[j] = LineOf(hs[k + j])
    BY DEF LinesFrom
  <2> HIDE DEF s, L
  <2> QED BY <1>1, <2>1
<1>3. r \in Seq(L) /\ Len(r) = n - (k + 1) /\ \A j \in 1..(n - (k + 1)) : r[j] = LineOf(hs[k + (j + 1)])
  <2>1. \A j \in 1..(n - (k + 1)) : LineOf(hs[(k + 1) + j]) = LineOf(hs[k + (j + 1)])
    BY <1>1
  <2>2. r \in [1..(n - (k + 1)) -> L]
    <3>1. \A j \in 1..(n - (k + 1)) : LineOf(hs[k + (j + 1)]) \in L
      BY <1>1
    <3> HIDE DEF L
    <3> QED BY <2>1, <3>1 DEF LinesFrom
  <2>3. \A j \in 1..(n - (k + 1)) : r[j] = LineOf(hs[k + (j + 1)])
    BY <2>1 DEF LinesFrom
  <2> HIDE DEF r, L
  <2> QED BY <1>1, <2>2, <2>3
<1>4. d \in Seq(L) /\ Len(d) = 1 /\ d[1] = LineOf(hs[k + 1])
  <2> DEFINE x == LineOf(hs[k + 1])
  <2>1. x \in L
    BY <1>1
  <2> HIDE DEF x, L
  <2>2. <<x>>[1] = x
    OBVIOUS
  <2>3. <<x>> \in Seq(L) /\ Len(<<x>>) = 1
    BY <2>1, OneWord, Zenon
  <2> QED BY <2>2, <2>3, Zenon DEF x
<1> HIDE DEF L, d, r, s
<1> DEFINE w == d \o r
<1>5. IsJoin(w, L, d, r, 1, n - (k + 1))
  BY <1>3, <1>4, JoinedPlaces, Zenon
<1> HIDE DEF w
<1>6. w \in Seq(L) /\ Len(w) = n - k
  <2>1. w \in Seq(L) /\ Len(w) = 1 + (n - (k + 1))
    BY <1>5, Zenon DEF IsJoin
  <2> QED BY <2>1
<1>7. ASSUME NEW j \in 1..(n - k) PROVE w[j] = s[j]
  <2>1. CASE j = 1
    <3>1. 1 \in 1..1
      OBVIOUS
    <3>2. w[1] = d[1]
      BY <1>5, <3>1, Zenon DEF IsJoin, Starts
    <3> QED BY <1>1, <1>2, <1>4, <2>1, <3>2
  <2>2. CASE j # 1
    <3> DEFINE i == j - 1
    <3>1. i \in 1..(n - (k + 1)) /\ 1 + i = j /\ k + (i + 1) = k + j
      BY <2>2
    <3> HIDE DEF i
    <3>2. w[1 + i] = r[i]
      BY <1>5, <3>1, Zenon DEF IsJoin, Behind
    <3> QED BY <1>2, <1>3, <3>1, <3>2
  <2> QED BY <2>1, <2>2
<1>8. w = s
  BY <1>2, <1>6, <1>7, SeqEqual
<1> QED BY <1>8 DEF w, d, r, s

(* One header line, which starts behind the place e.                       *)
LEMMA LineFound ==
  ASSUME NEW S, NEW q \in Seq(S), NEW e \in Nat, e > 0, e + 6 <= Len(q), NEW h, NEW f,
         q[e + 2] = h.field, h.field # "sp", q[e + 3] = ":", q[e + 4] = "sp",
         q[e + 5] = h.value, h.value # "cr", q[e + 6] = "cr"
  PROVE  Line(q, f, e) = [ok |-> f[e + 6].ok, lines |-> <<LineOf(h)>> \o f[e + 6].lines]
<1>1. Len(q) \in Nat
  BY LenProperties
<1>2. Find(q, "sp", e + 2) = e + 4
  <2>1. e + 2 \in Nat /\ e + 2 > 0 /\ e + 4 \in (e + 2)..Len(q)
    BY <1>1
  <2>2. ASSUME NEW j \in (e + 2)..(e + 4 - 1) PROVE q[j] # "sp"
    <3>1. j = e + 2 \/ j = e + 3
      OBVIOUS
    <3> QED BY <3>1
  <2> QED BY <2>1, <2>2, FoundAt
<1>3. Find(q, "cr", e + 4 + 1) = e + 6
  <2>1. e + 4 + 1 \in Nat /\ e + 4 + 1 > 0 /\ e + 6 \in (e + 4 + 1)..Len(q)
    BY <1>1
  <2>2. ASSUME NEW j \in (e + 4 + 1)..(e + 6 - 1) PROVE q[j] # "cr"
    <3>1. j = e + 5
      OBVIOUS
    <3> QED BY <3>1
  <2> QED BY <2>1, <2>2, FoundAt
<1>4. Field(q, e + 2, e + 4) = <<h.field>>
  <2>1. e + 2 \in 1..Len(q) /\ e + 4 - 2 = e + 2
    BY <1>1
  <2>2. SubSeq(q, e + 2, e + 2) = <<q[e + 2]>>
    BY <2>1, SubSeqOne
  <2> QED BY <2>1, <2>2 DEF Field
<1>5. SubSeq(q, e + 4 + 1, e + 6 - 1) = <<h.value>>
  <2>1. e + 5 \in 1..Len(q) /\ e + 4 + 1 = e + 5 /\ e + 6 - 1 = e + 5
    BY <1>1
  <2>2. SubSeq(q, e + 5, e + 5) = <<q[e + 5]>>
    BY <2>1, SubSeqOne
  <2> QED BY <2>1, <2>2
<1>6. e + 4 # 0 /\ e + 4 # e + 2 /\ e + 6 # 0
  OBVIOUS
<1>7. Line(q, f, e)
        = [ok |-> f[e + 6].ok,
           lines |-> <<[field |-> Field(q, e + 2, e + 4), value |-> SubSeq(q, e + 4 + 1, e + 6 - 1)]>>
                       \o f[e + 6].lines]
  <2> DEFINE s == Find(q, "sp", e + 2)
             c == IF s = 0 THEN 0 ELSE Find(q, "cr", s + 1)
  <2>1. s = e + 4 /\ s # 0 /\ s # e + 2
    BY <1>2, <1>6
  <2>2. c = e + 6 /\ c # 0
    <3> HIDE DEF s
    <3> QED BY <1>3, <1>6, <2>1
  <2>3. Line(q, f, e) = IF s = e + 2 THEN [ok |-> FALSE, lines |-> << >>]
                        ELSE IF c = 0 THEN [ok |-> TRUE, lines |-> << >>]
                        ELSE [ok |-> f[c].ok,
                              lines |-> <<[field |-> Field(q, e + 2, s), value |-> SubSeq(q, s + 1, c - 1)]>>
                                          \o f[c].lines]
    BY Zenon DEF Line
  <2> HIDE DEF s, c
  <2> DEFINE G(i, j) ==
               [ok |-> f[j].ok,
                lines |-> <<[field |-> Field(q, e + 2, i), value |-> SubSeq(q, i + 1, j - 1)]>>
                            \o f[j].lines]
  <2>4. Line(q, f, e) = G(s, c)
    <3>1. s # e + 2 /\ c # 0
      BY <2>1, <2>2, Zenon
    <3> QED BY <2>3, <3>1, Zenon
  <2>5. s = e + 4 /\ c = e + 6
    BY <2>1, <2>2, Zenon
  <2>6. Line(q, f, e) = G(e + 4, e + 6)
    <3> HIDE DEF G
    <3> QED BY <2>4, <2>5
  <2> QED BY <2>6
<1> QED BY <1>4, <1>5, <1>7, Zenon DEF LineOf

(* The empty line behind them, after which no round finds a line.          *)
LEMMA EndFound ==
  ASSUME NEW S, NEW q \in Seq(S), NEW e \in Nat, e > 0, e + 3 <= Len(q), NEW f,
         q[e + 2] = "cr", q[e + 3] = "lf",
         \A i, j \in (e + 4)..Len(q) : i < j /\ q[i] = "sp" => q[j] # "cr"
  PROVE  Line(q, f, e) = [ok |-> TRUE, lines |-> << >>]
<1> DEFINE s == Find(q, "sp", e + 2)
           c == IF s = 0 THEN 0 ELSE Find(q, "cr", s + 1)
<1>1. Len(q) \in Nat /\ e + 2 \in Nat /\ e + 2 > 0
  BY LenProperties
<1>2. s = 0 \/ (s \in (e + 2)..Len(q) /\ q[s] = "sp")
  BY <1>1, FindFirst
<1> HIDE DEF s
<1>3. s # e + 2 /\ s # e + 3
  BY <1>1, <1>2
<1>4. c = 0
  <2>1. CASE s = 0
    BY <2>1
  <2>2. CASE s # 0
    <3>1. s \in (e + 4)..Len(q) /\ q[s] = "sp"
      BY <1>1, <1>2, <1>3, <2>2
    <3>2. \A j \in (s + 1)..Len(q) : q[j] # "cr"
      BY <1>1, <3>1
    <3>3. s + 1 \in Nat /\ s + 1 > 0
      BY <1>1, <3>1
    <3> QED BY <2>2, <3>2, <3>3, NotFound
  <2> QED BY <2>1, <2>2
<1> HIDE DEF c
<1>5. Line(q, f, e) = IF s = e + 2 THEN [ok |-> FALSE, lines |-> << >>]
                      ELSE IF c = 0 THEN [ok |-> TRUE, lines |-> << >>]
                      ELSE [ok |-> f[c].ok,
                            lines |-> <<[field |-> Field(q, e + 2, s), value |-> SubSeq(q, s + 1, c - 1)]>>
                                        \o f[c].lines]
  BY Zenon DEF Line, s, c
<1> QED BY <1>3, <1>4, <1>5, Zenon

(* All header lines of a request.                                          *)
LEMMA LinesFound ==
  ASSUME NEW S, NEW q \in Seq(S), NEW F, "sp" \notin F, "cr" \notin F,
         NEW hs \in Seq([field : F, value : F]), NEW body \in Seq(S), Laid(q, hs, body),
         \A i, j \in 1..Len(body) : i < j /\ body[i] = "sp" => body[j] # "cr"
  PROVE  HeaderLines(q, 6).ok = TRUE /\ HeaderLines(q, 6).lines = LinesFrom(hs, 0)
<1> DEFINE n == Len(hs)  z == Len(body)
<1>1. /\ n \in Nat /\ z \in Nat /\ Len(q) = 9 + 6 * n + z
      /\ \A i \in 1..n : hs[i] \in [field : F, value : F]
  BY LenProperties DEF Laid
<1>2. /\ \A k \in 0..(n - 1) :
           /\ q[6 * k + 8] = hs[k + 1].field /\ q[6 * k + 9] = ":" /\ q[6 * k + 10] = "sp"
           /\ q[6 * k + 11] = hs[k + 1].value /\ q[6 * k + 12] = "cr"
      /\ q[6 * n + 8] = "cr" /\ q[6 * n + 9] = "lf"
      /\ \A i \in 1..z : q[6 * n + 9 + i] = body[i]
  BY DEF Laid
<1>3. PICK f : /\ \A e \in 1..(Len(q) + 1) : f[e] = Line(q, f, e)
               /\ \A e : HeaderLines(q, e) = f[e]
  BY HeaderLinesUnfold
<1> HIDE DEF n, z
<1> DEFINE Done(k) == f[6 * k + 6].ok = TRUE /\ f[6 * k + 6].lines = LinesFrom(hs, k)
           T == {d \in Nat : d <= n => Done(n - d)}
<1>4. Done(n)
  <2> DEFINE e == 6 * n + 6
  <2>1. /\ e \in Nat /\ e > 0 /\ e + 3 <= Len(q) /\ e \in 1..(Len(q) + 1) /\ e + 2 = 6 * n + 8
        /\ e + 3 = 6 * n + 9 /\ Len(q) = e + 3 + z
    BY <1>1
  <2>2. ASSUME NEW i \in (e + 4)..Len(q), NEW j \in (e + 4)..Len(q), i < j, q[i] = "sp"
        PROVE  q[j] # "cr"
    <3> DEFINE a == i - (e + 3)  b == j - (e + 3)
    <3>1. a \in 1..z /\ b \in 1..z /\ a < b /\ 6 * n + 9 + a = i /\ 6 * n + 9 + b = j
      <4> HIDE DEF e
      <4> QED BY <1>1, <2>1, <2>2
    <3> HIDE DEF a, b
    <3>2. body[a] = q[i] /\ body[b] = q[j]
      BY <1>2, <3>1
    <3> QED BY <2>2, <3>1, <3>2 DEF z
  <2>3. q[e + 2] = "cr" /\ q[e + 3] = "lf"
    BY <1>2, <2>1
  <2> HIDE DEF e
  <2>4. Line(q, f, e) = [ok |-> TRUE, lines |-> << >>]
    BY <2>1, <2>2, <2>3, EndFound
  <2>5. f[e].ok = TRUE /\ f[e].lines = << >>
    BY <1>3, <2>1, <2>4
  <2>6. LinesFrom(hs, n) = << >>
    <3>1. Len(hs) - n = 0
      BY <1>1 DEF n
    <3> QED BY <3>1 DEF LinesFrom
  <2> QED BY <2>5, <2>6 DEF e
<1>5. ASSUME NEW k \in 0..(n - 1), Done(k + 1) PROVE Done(k)
  <2> DEFINE e == 6 * k + 6  h == hs[k + 1]
  <2>1. /\ e \in Nat /\ e > 0 /\ e + 6 <= Len(q) /\ e \in 1..(Len(q) + 1) /\ k + 1 \in 1..n
        /\ e + 2 = 6 * k + 8 /\ e + 3 = 6 * k + 9 /\ e + 4 = 6 * k + 10 /\ e + 5 = 6 * k + 11
        /\ e + 6 = 6 * k + 12 /\ e + 6 = 6 * (k + 1) + 6
    BY <1>1
  <2>2. h \in [field : F, value : F]
    BY <1>1, <2>1
  <2>3. h.field # "sp" /\ h.value # "cr"
    BY <2>2
  <2>4. /\ q[e + 2] = h.field /\ q[e + 3] = ":" /\ q[e + 4] = "sp"
        /\ q[e + 5] = h.value /\ q[e + 6] = "cr"
    BY <1>2, <2>1
  <2> HIDE DEF e, h
  <2>5. Line(q, f, e) = [ok |-> f[e + 6].ok, lines |-> <<LineOf(h)>> \o f[e + 6].lines]
    BY <2>1, <2>3, <2>4, LineFound
  <2>6. f[e + 6].ok = TRUE /\ f[e + 6].lines = LinesFrom(hs, k + 1)
    BY <1>5, <2>1
  <2>7. <<LineOf(h)>> \o LinesFrom(hs, k + 1) = LinesFrom(hs, k)
    BY <1>1, LinesJoined DEF n, h
  <2>8. f[e] = Line(q, f, e)
    BY <1>3, <2>1
  <2>9. f[e].ok = f[e + 6].ok /\ f[e].lines = <<LineOf(h)>> \o f[e + 6].lines
    BY <2>5, <2>8
  <2>10. f[e].ok = TRUE /\ f[e].lines = LinesFrom(hs, k)
    BY <2>6, <2>7, <2>9, Zenon
  <2> QED BY <2>10 DEF e
<1> HIDE DEF Done
<1>6. 0 \in T
  BY <1>1, <1>4
<1>7. ASSUME NEW d \in Nat, d \in T PROVE d + 1 \in T
  <2> SUFFICES ASSUME d + 1 <= n PROVE Done(n - (d + 1))
    OBVIOUS
  <2> DEFINE k == n - (d + 1)
  <2>1. k \in 0..(n - 1) /\ k + 1 = n - d /\ d <= n
    BY <1>1
  <2>2. Done(k + 1)
    BY <1>7, <2>1
  <2> HIDE DEF k
  <2>3. Done(k)
    BY <1>5, <2>1, <2>2
  <2> QED BY <2>3 DEF k
<1>8. n \in T
  <2> HIDE DEF T
  <2>1. Nat \subseteq T
    BY <1>6, <1>7, SetInduction
  <2> QED BY <1>1, <2>1
<1>9. Done(0)
  <2>1. n - n = 0 /\ n <= n
    BY <1>1
  <2> QED BY <1>8, <2>1
<1>10. f[6].ok = TRUE /\ f[6].lines = LinesFrom(hs, 0)
  <2>1. 6 * 0 + 6 = 6
    OBVIOUS
  <2> QED BY <1>9, <2>1 DEF Done
<1> QED BY <1>3, <1>10, Zenon

----------------------------------------------------------------------------
(* What handle() makes of a request: its words, and all of its headers.    *)
LEMMA OneWordEqual ==
  /\ \A a, b : <<a>> = <<b>> => a = b
  /\ \A a : <<a>> # << >>
<1>1. ASSUME NEW a, NEW b, <<a>> = <<b>> PROVE a = b
  <2>1. <<a>>[1] = a /\ <<b>>[1] = b
    OBVIOUS
  <2> QED BY <1>1, <2>1, Zenon
<1>2. ASSUME NEW a PROVE <<a>> # << >>
  <2>1. Len(<<a>>) = 1 /\ Len(<< >>) = 0
    OBVIOUS
  <2> QED BY <2>1
<1> QED BY <1>1, <1>2

LEMMA RequestHandled ==
  ASSUME NEW r \in Requests
  PROVE  /\ Handle(Text(r)).ok = TRUE /\ Text(r) # << >>
         /\ Handle(Text(r)).version = r.version
         /\ Handle(Text(r)).lines = LinesFrom(r.headers, 0)
<1> DEFINE m == r.method  v == r.version  hs == r.headers  body == r.body
           S == {m, v, ":", "sp", "path", "cr", "lf"} \cup Word
           F == Word \ {"sp", "cr"}
           q == Text(r)
<1>1. /\ m \in {"GET", "POST"} /\ v \in {"HTTP/1.0", "HTTP/1.1"}
      /\ hs \in Seq([field : F, value : F]) /\ body \in Seq(Word)
      /\ \A i, j \in DOMAIN body : i < j /\ body[i] = "sp" => body[j] # "cr"
  BY RequestAssumption, Zenon
<1>2. m # "sp" /\ v # "cr"
  BY <1>1, Zenon
<1>3. VersionOf(<<v>>) = v
  <2>1. <<v>> \in {<<"HTTP/1.0">>, <<"HTTP/1.1">>}
    BY <1>1, Zenon
  <2>2. <<v>>[1] = v
    OBVIOUS
  <2> QED BY <2>1, <2>2, Zenon DEF VersionOf
<1>4. q = <<m, "sp", "path", "sp", v, "cr", "lf">> \o Header(hs) \o <<"cr", "lf">> \o body
  BY Zenon DEF Text
<1>5. "sp" \notin F /\ "cr" \notin F
  OBVIOUS
<1>6. /\ F \subseteq S /\ ":" \in S /\ "sp" \in S /\ "cr" \in S /\ "lf" \in S /\ "path" \in S
      /\ m \in S /\ v \in S /\ Word \subseteq S
  OBVIOUS
<1> HIDE DEF m, v, hs, body, S, F, q
<1>7. body \in Seq(S) /\ \A i, j \in 1..Len(body) : i < j /\ body[i] = "sp" => body[j] # "cr"
  <2>1. body \in Seq(S)
    <3>1. body \in Seq(Word) /\ Word \subseteq S
      BY <1>1, <1>6, Zenon
    <3> DEFINE A == Word
    <3> HIDE DEF A
    <3>2. body \in Seq(A) /\ A \subseteq S
      BY <3>1, Zenon DEF A
    <3> QED BY <3>2
  <2>2. DOMAIN body = 1..Len(body)
    BY <2>1
  <2>3. \A i, j \in DOMAIN body : i < j /\ body[i] = "sp" => body[j] # "cr"
    BY <1>1, Zenon
  <2> QED BY <2>1, <2>2, <2>3, Zenon
<1>8. /\ q \in Seq(S) /\ Laid(q, hs, body)
      /\ q[1] = m /\ q[2] = "sp" /\ q[3] = "path" /\ q[4] = "sp" /\ q[5] = v
      /\ q[6] = "cr" /\ q[7] = "lf"
  <2>1. hs \in Seq([field : F, value : F]) /\ body \in Seq(S)
    BY <1>1, <1>7, Zenon
  <2>2. LaidText(S, q, m, v, hs, body)
    BY <1>4, <1>6, <2>1, TextLaid, Zenon
  <2> QED BY <2>2, Zenon DEF LaidText
<1>9. Len(q) >= 9
  <2>1. Len(hs) \in Nat /\ Len(body) \in Nat
    BY <1>1, LenProperties
  <2>2. Len(q) = 9 + 6 * Len(hs) + Len(body)
    BY <1>8 DEF Laid
  <2> QED BY <2>1, <2>2
<1>10. RequestLine(q)
  <2>1. "path" # "sp"
    OBVIOUS
  <2> QED BY <1>2, <1>8, <1>9, <2>1, Zenon DEF RequestLine
<1>11. HeaderLines(q, 6).ok = TRUE /\ HeaderLines(q, 6).lines = LinesFrom(hs, 0)
  BY <1>1, <1>5, <1>7, <1>8, LinesFound
<1>12. /\ Handle(q).ok = HeaderLines(q, 6).ok /\ Handle(q).lines = HeaderLines(q, 6).lines
       /\ Handle(q).version = VersionOf(<<q[5]>>)
  BY <1>8, <1>10, HandleFields
<1>13. q # << >>
  BY <1>9
<1> QED BY <1>3, <1>8, <1>11, <1>12, <1>13, Zenon DEF q, v, hs

(* The Connection header that counts is the first of that name.            *)
FirstNamed(hs) == {i \in DOMAIN hs : hs[i].field = "Connection"}
Asked(hs) ==
  IF FirstNamed(hs) = {} THEN "none"
  ELSE hs[CHOOSE i \in FirstNamed(hs) : \A j \in FirstNamed(hs) : i <= j].value

LEMMA FirstHeader ==
  ASSUME NEW F, NEW hs \in Seq([field : F, value : F]), NEW req, req.lines = LinesFrom(hs, 0)
  PROVE  /\ FirstNamed(hs) = {} => GetHeader(req, <<"Connection">>) = << >>
         /\ FirstNamed(hs) # {} => GetHeader(req, <<"Connection">>) = <<Asked(hs)>>
<1> DEFINE n == Len(hs)  lines == req.lines
           at == {i \in 1..Len(lines) : lines[i].field = <<"Connection">>}
           first == CHOOSE i \in at : \A j \in at : i <= j
<1>1. n \in Nat /\ DOMAIN hs = 1..n
  BY LenProperties
<1>2. Len(lines) = n /\ \A i \in 1..n : lines[i] = LineOf(hs[i])
  <2>1. n - 0 = n /\ \A i \in 1..n : 0 + i = i
    BY <1>1
  <2>2. lines = [j \in 1..n |-> LineOf(hs[0 + j])]
    BY <2>1 DEF LinesFrom
  <2> HIDE DEF lines, n
  <2> QED BY <1>1, <2>1, <2>2
<1>3. GetHeader(req, <<"Connection">>) = IF at = {} THEN << >> ELSE lines[first].value
  BY Zenon DEF GetHeader
<1> HIDE DEF lines, n
<1>4. at = FirstNamed(hs)
  <2>1. ASSUME NEW i \in 1..n
        PROVE  lines[i].field = <<"Connection">> <=> hs[i].field = "Connection"
    <3>1. lines[i].field = <<hs[i].field>>
      BY <1>2 DEF LineOf
    <3> QED BY <3>1, OneWordEqual, Zenon
  <2> QED BY <1>1, <1>2, <2>1 DEF FirstNamed
<1>5. CASE at = {}
  BY <1>3, <1>4, <1>5, Zenon
<1>6. CASE at # {}
  <2>1. first \in at
    <3>1. at \subseteq Nat
      BY <1>1, <1>2
    <3> HIDE DEF at
    <3>2. \E i \in at : \A j \in at : i <= j
      BY <1>6, <3>1, LeastNumber
    <3> QED BY <3>2
  <2>2. first \in 1..n
    <3> HIDE DEF first
    <3> QED BY <1>2, <2>1
  <2>3. Asked(hs) = hs[first].value
    BY <1>4, <1>6, Zenon DEF Asked
  <2> HIDE DEF first, at
  <2>4. lines[first].value = <<hs[first].value>>
    BY <1>2, <2>2 DEF LineOf
  <2> QED BY <1>3, <1>4, <1>6, <2>3, <2>4, Zenon
<1> QED BY <1>5, <1>6

(* Without a setting of the callback, the request alone decides.           *)
LEMMA ClosesAsAsked ==
  ASSUME NEW r \in Requests
  PROVE  Closes(Handle(Text(r)))
           = (\/ Asked(r.headers) = "close"
              \/ r.version = "HTTP/1.0" /\ Asked(r.headers) # "Keep-Alive")
<1> DEFINE req == Handle(Text(r))  hs == r.headers
           h == GetHeader(req, <<"Connection">>)
           F == Word \ {"sp", "cr"}
<1>1. req.version = r.version /\ req.lines = LinesFrom(hs, 0)
  BY RequestHandled, Zenon
<1>2. hs \in Seq([field : F, value : F])
  BY RequestAssumption, Zenon
<1>3. Closes(req) = (h = <<"close">> \/ (req.version = "HTTP/1.0" /\ h # <<"Keep-Alive">>))
  BY Zenon DEF Closes
<1> HIDE DEF req, hs, F
<1>4. /\ FirstNamed(hs) = {} => h = << >>
      /\ FirstNamed(hs) # {} => h = <<Asked(hs)>>
  BY <1>1, <1>2, FirstHeader
<1> HIDE DEF h
<1>5. CASE FirstNamed(hs) = {}
  <2>1. h = << >> /\ h # <<"close">> /\ h # <<"Keep-Alive">>
    BY <1>4, <1>5, OneWordEqual, Zenon
  <2>2. Asked(hs) = "none"
    BY <1>5 DEF Asked
  <2>3. Asked(hs) # "close" /\ Asked(hs) # "Keep-Alive"
    BY <2>2
  <2> QED BY <1>1, <1>3, <2>1, <2>3, Zenon DEF req, hs
<1>6. CASE FirstNamed(hs) # {}
  <2>1. h = <<Asked(hs)>>
    BY <1>4, <1>6
  <2>2. (h = <<"close">> <=> Asked(hs) = "close") /\ (h = <<"Keep-Alive">> <=> Asked(hs) = "Keep-Alive")
    BY <2>1, OneWordEqual, Zenon
  <2> QED BY <1>1, <1>3, <2>2, Zenon DEF req, hs
<1> QED BY <1>5, <1>6

(* The last text that was parsed, and what became of it.                   *)
AnswerTo(req) ==
  \E body \in Bodies, setting \in Settings : answer = Response(req, body, setting)

ParsedInv ==
  heard # << >> =>
    /\ failed = ~Handle(heard).ok
    /\ Handle(heard).ok => AnswerTo(Handle(heard))

LEMMA ParsedInvStep == ParsedInv /\ [Next]_vars => ParsedInv'
<1> SUFFICES ASSUME ParsedInv, [Next]_vars PROVE ParsedInv'
  OBVIOUS
<1>1. ASSUME UNCHANGED <<heard, failed, answer>> PROVE ParsedInv'
  BY <1>1 DEF ParsedInv, AnswerTo
<1>2. CASE ClientStarts
  BY <1>1, <1>2 DEF ClientStarts
<1>3. CASE Arrives
  BY <1>1, <1>3 DEF Arrives
<1>4. CASE OnMessage
  <2> DEFINE text == FetchReadable(Append1(input, wire)).text
  <2>1. /\ heard' = text /\ failed' = ~Handle(text).ok
        /\ Handle(text).ok =>
             \E body \in Bodies, setting \in Settings : answer' = Response(Handle(text), body, setting)
    BY <1>4, Zenon DEF OnMessage
  <2> HIDE DEF text
  <2> QED BY <2>1, Zenon DEF ParsedInv, AnswerTo
<1>5. CASE HandleWrite
  BY <1>1, <1>5 DEF HandleWrite
<1>6. CASE UNCHANGED vars
  BY <1>1, <1>6 DEF vars
<1> QED BY <1>2, <1>3, <1>4, <1>5, <1>6 DEF Next

(* A request that one read delivers as a whole, with any number of header  *)
(* lines, is understood and answered as a whole, whatever came before it   *)
(* and whatever the callback answers: the parser fails on none, the        *)
(* connection is kept or not as the callback set or as the version and the *)
(* first Connection header say, and the answer has all its parts, in their *)
(* order (HTTPRequest.cpp:64-102, HTTPServer.cpp:45-59).                   *)
THEOREM WholeRequestAnsweredHolds == Spec => []WholeRequestAnswered
<1>1. Init => ParsedInv
  BY DEF Init, ParsedInv
<1>2. ParsedInv => WholeRequestAnswered
  <2> SUFFICES ASSUME ParsedInv, NEW r \in Requests, heard = Text(r)
               PROVE  LET named == {i \in DOMAIN r.headers : r.headers[i].field = "Connection"}
                          connection ==
                            IF named = {} THEN "none"
                            ELSE r.headers[CHOOSE i \in named : \A j \in named : i <= j].value
                          asked == \/ connection = "close"
                                   \/ r.version = "HTTP/1.0" /\ connection # "Keep-Alive"
                          close == IF answer.setting = "unset" THEN asked ELSE answer.setting = "on"
                          told == IF close THEN <<"Connection: close">>
                                  ELSE <<"Content-Length", Len(answer.body), "Connection: Keep-Alive">>
                      IN  /\ ~failed /\ answer.close = close
                          /\ answer.text = <<"HTTP/1.1 200 OK">> \o told \o <<"cr lf">> \o answer.body
    BY Zenon DEF WholeRequestAnswered
  <2> DEFINE req == Handle(Text(r))
             asked == \/ Asked(r.headers) = "close"
                      \/ r.version = "HTTP/1.0" /\ Asked(r.headers) # "Keep-Alive"
             close == IF answer.setting = "unset" THEN asked ELSE answer.setting = "on"
  <2>1. req.ok = TRUE /\ Text(r) # << >>
    BY RequestHandled, Zenon
  <2>2. ~failed /\ AnswerTo(req)
    BY <2>1, Zenon DEF ParsedInv
  <2>3. Closes(req) = asked
    BY ClosesAsAsked, Zenon
  <2> HIDE DEF req
  <2>4. PICK body \in Bodies, setting \in Settings : answer = Response(req, body, setting)
    BY <2>2, Zenon DEF AnswerTo
  <2>5. /\ answer.close = CloseOf(req, setting) /\ answer.body = body /\ answer.setting = setting
        /\ answer.text = Whole(CloseOf(req, setting), body)
    <3> DEFINE a == Response(req, body, setting)
    <3>1. IsAnswer(a, req, body, setting)
      BY ResponseText
    <3>2. answer = a
      BY <2>4
    <3> HIDE DEF a
    <3>3. IsAnswer(answer, req, body, setting)
      BY <3>1, <3>2
    <3> QED BY <3>3, Zenon DEF IsAnswer
  <2>6. CloseOf(req, setting) = close
    BY <2>3, <2>5, Zenon DEF CloseOf
  <2>7. /\ ~failed /\ answer.close = close
        /\ answer.text = Whole(close, answer.body)
    BY <2>2, <2>5, <2>6, Zenon
  <2> QED BY <2>7, Zenon DEF Whole, Told, Asked, FirstNamed
<1> QED BY <1>1, <1>2, ParsedInvStep, PTL DEF Spec
=============================================================================
