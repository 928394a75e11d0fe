------------------------------- MODULE Buffer -------------------------------
(***************************************************************************)
(* The Buffer of src/hquin/hquin: a vector whose size stays what it was at *)
(* construction, because only its capacity is ever raised, and two indices *)
(* of W bits into it.  A buffer is a record; outside is up when a byte was *)
(* written behind the capacity.                                            *)
(***************************************************************************)
EXTENDS Integers, Sequences

CONSTANTS
  InitialSize,                 \* kInitialSize
  W,                           \* the bits of size_t
  Zero                         \* what fresh memory holds

ASSUME BufferAssumption ==
  InitialSize \in Nat \ {0} /\ W \in Nat /\ 2^W \in Nat /\ InitialSize < 2^W

Wrap(n) == n % 2^W

Fresh ==
  [cap |-> InitialSize, r |-> 0, w |-> 0, mem |-> [i \in 0..(InitialSize - 1) |-> Zero],
   outside |-> FALSE]

ReadableBytes(b) == Wrap(b.w - b.r)
WritableBytes(b) == Wrap(InitialSize - b.w)

(* Mutant: the read index is reset before the write index is lowered.      *)
ToFrontSwapped(b) ==
  [b EXCEPT !.mem = [i \in DOMAIN @ |-> IF i < ReadableBytes(b) THEN @[b.r + i] ELSE @[i]],
            !.r = 0]

(* modifySpace(): what is readable moves to the front.                     *)
ToFront(b) ==
  [cap |-> b.cap, r |-> 0, w |-> ReadableBytes(b), outside |-> b.outside,
   mem |-> [i \in DOMAIN b.mem |-> IF i < ReadableBytes(b) THEN b.mem[b.r + i] ELSE b.mem[i]]]

(* vector::reserve() takes along the elements within the size only.        *)
Reserved(b, n) ==
  IF n <= b.cap THEN b
  ELSE [cap |-> n, r |-> b.r, w |-> b.w, outside |-> b.outside,
        mem |-> [i \in 0..(n - 1) |-> IF i < InitialSize THEN b.mem[i] ELSE Zero]]

ModifySpace(b, len) ==
  IF len < WritableBytes(b) THEN b
  ELSE IF Wrap(ReadableBytes(b) + len) < b.cap THEN ToFront(b)
  ELSE Reserved(b, Wrap(b.w + len))

Append1(b, data) ==
  LET m == ModifySpace(b, Len(data))
      Written(i) == i >= m.w /\ i < m.w + Len(data)
  IN  [cap |-> m.cap, r |-> m.r, w |-> Wrap(m.w + Len(data)),
       mem |-> [i \in DOMAIN m.mem |-> IF Written(i) THEN data[i - m.w + 1] ELSE m.mem[i]],
       outside |-> m.outside \/ m.w + Len(data) > m.cap]

(* Several appends, one after the other.                                   *)
AppendAll(b, pieces) ==
  LET after[i \in 0..Len(pieces)] ==
        IF i = 0 THEN b ELSE Append1(after[i - 1], pieces[i])
  IN  after[Len(pieces)]

Retrieve(b, len) == [b EXCEPT !.r = Wrap(@ + len)]
RetrieveAll(b) == [cap |-> b.cap, r |-> 0, w |-> 0, mem |-> b.mem, outside |-> b.outside]

(* A byte behind the capacity reads as anything; it is taken for Zero.     *)
StringifyReadable(b) ==
  [i \in 1..ReadableBytes(b) |->
     IF b.r + i - 1 \in DOMAIN b.mem THEN b.mem[b.r + i - 1] ELSE Zero]

(* Mutant: the indices are not reset.                                      *)
FetchKeeping(b) == [text |-> StringifyReadable(b), rest |-> Retrieve(b, ReadableBytes(b))]

(* fetchReadble(): the text, and the buffer it leaves.                     *)
FetchReadable(b) == [text |-> StringifyReadable(b), rest |-> RetrieveAll(b)]
=============================================================================
