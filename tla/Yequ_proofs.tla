---------------------------- MODULE Yequ_proofs ----------------------------
(***************************************************************************)
(* For a ring of any length the buffer of the terminal is the line that    *)
(* was typed: Terminal implements LineEditor.  For a screen of any size    *)
(* the cursor is on it whenever the kernel's own output is not under way,  *)
(* what follows the cursor is blank until init() prints its message, and   *)
(* nothing is ever written below the row under the screen.  On a memory of *)
(* any size the string functions compute what their references say, and    *)
(* with an int of any number of bits what printk() has formatted is read   *)
(* back.                                                                   *)
(***************************************************************************)
EXTENDS Yequ, SequenceTheorems, FiniteSetTheorems, WellFoundedInduction, TLAPS

Typed == Char \ {BS}
Places == StartPlaces \cup {"poll", "test", "first", "put"} \cup PutPlaces

(* The types the refinement needs.                                         *)
RingInv ==
  /\ buf \in [0..(N - 1) -> Typed]
  /\ tail \in 0..(N - 1)
  /\ count \in 0..N
  /\ pc \in Places

LEMMA NIsNat == N \in Nat /\ N > 1
  BY TerminalAssumption

(* The character before tail is the last of the line, the slots of the     *)
(* others are in the ring and none of them is tail.                        *)
LEMMA Slots ==
  ASSUME RingInv, NEW i \in 1..count
  PROVE  /\ Base \in Int /\ Slot(i) \in 0..(N - 1)
         /\ count < N => Slot(i) # tail
  BY NIsNat DEF RingInv, Base, Slot

LEMMA LineIsSeq ==
  ASSUME RingInv, pc \notin StartPlaces
  PROVE  /\ Line \in Seq(Typed) /\ Len(Line) = count
         /\ \A i \in 1..count : Line[i] = buf[Slot(i)]
<1>1. \A i \in 1..count : buf[Slot(i)] \in Typed
  BY Slots, NIsNat DEF RingInv
<1>2. count \in Nat
  BY DEF RingInv, NIsNat
<1> QED
  BY <1>1, <1>2 DEF Line

LEMMA PushKeepsRing ==
  ASSUME RingInv, NEW c \in Typed, Push(c), pc' = pc
  PROVE  RingInv'
  BY NIsNat DEF RingInv, Push, After, tty

LEMMA PopKeepsRing ==
  ASSUME RingInv, Pop, pc' = pc
  PROVE  RingInv'
  BY NIsNat DEF RingInv, Pop, Prev, tty

LEMMA AppendIs ==
  ASSUME NEW S, NEW s \in Seq(S), NEW c \in S, NEW f,
         f = [i \in 1..(Len(s) + 1) |-> f[i]],
         \A i \in 1..Len(s) : f[i] = s[i], f[Len(s) + 1] = c
  PROVE  f = Append(s, c)
<1>1. Len(s) \in Nat /\ \A i \in 1..Len(s) : s[i] \in S
  BY LenProperties, ElementOfSeq
<1>2. ASSUME NEW i \in 1..(Len(s) + 1) PROVE f[i] \in S
  <2>1. CASE i = Len(s) + 1
    BY <2>1
  <2>2. CASE i \in 1..Len(s)
    <3>1. f[i] = s[i] /\ s[i] \in S
      BY <1>1, <2>2
    <3> QED
      BY <3>1
  <2> QED
    BY <1>1, <2>1, <2>2
<1>3. f \in Seq(S) /\ Len(f) = Len(s) + 1
  BY <1>1, <1>2
<1>4. /\ Append(s, c) \in Seq(S) /\ Len(Append(s, c)) = Len(s) + 1
      /\ \A i \in 1..Len(s) : Append(s, c)[i] = s[i]
      /\ Append(s, c)[Len(s) + 1] = c
  BY AppendProperties
<1>5. \A i \in 1..Len(f) : f[i] = Append(s, c)[i]
  BY <1>1, <1>3, <1>4
<1> QED
  BY <1>3, <1>4, <1>5, SeqEqual

(* A push adds its character at the end of the line, or is dropped.        *)
LEMMA PushTypes ==
  ASSUME RingInv, pc \notin StartPlaces, NEW c \in Typed, Push(c), pc' = pc
  PROVE  Editor!Type(c) \/ UNCHANGED Line
<1>1. CASE count = N
  BY <1>1 DEF Push, tty, Line, Slot, Base
<1>2. CASE count # N
  <2>1. RingInv'
    BY PushKeepsRing
  <2>2. count < N /\ count' = count + 1 /\ tail' = After(tail) /\ buf' = [buf EXCEPT ![tail] = c]
    BY <1>2, NIsNat DEF RingInv, Push
  <2>3. Base' = Base
    BY <2>2, NIsNat DEF RingInv, Base, After
  <2>4. Slot(count + 1) = tail
    BY <2>2, NIsNat DEF RingInv, Base, Slot
  <2>5. \A i : Slot(i)' = Slot(i)
    BY <2>3 DEF Slot
  <2>6. /\ Line \in Seq(Typed) /\ Len(Line) = count
        /\ \A i \in 1..count : Line[i] = buf[Slot(i)]
    BY LineIsSeq
  <2>7. Line' = [i \in 1..(count + 1) |-> buf'[Slot(i)]]
    BY <2>2, <2>5 DEF Line
  <2>8. \A i \in 1..count : buf'[Slot(i)] = Line[i]
    BY <2>2, <2>6, Slots DEF RingInv
  <2>9. buf'[Slot(count + 1)] = c
    BY <2>2, <2>4 DEF RingInv
  <2>10. Line' = Append(Line, c)
    <3>1. \A i \in 1..(count + 1) : Line'[i] = buf'[Slot(i)]
      BY <2>7
    <3>2. \A i \in 1..count : i \in 1..(count + 1)
      BY DEF RingInv
    <3>3. count + 1 \in 1..(count + 1)
      BY DEF RingInv
    <3>4. Line' = [i \in 1..(Len(Line) + 1) |-> Line'[i]]
      BY <2>6, <2>7
    <3>5. /\ \A i \in 1..Len(Line) : Line'[i] = Line[i]
          /\ Line'[Len(Line) + 1] = c
      BY <2>6, <2>8, <2>9, <3>1, <3>2, <3>3
    <3> QED
      BY <2>6, <3>4, <3>5, AppendIs
  <2> QED
    BY <2>2, <2>6, <2>10 DEF Editor!Type
<1> QED
  BY <1>1, <1>2

(* A pop takes the last character off the line.                            *)
LEMMA PopRubs ==
  ASSUME RingInv, pc \notin StartPlaces, Pop, pc' = pc
  PROVE  Editor!Rub \/ UNCHANGED Line
<1>1. CASE count = 0
  BY <1>1 DEF Pop, tty, Line, Slot, Base
<1>2. CASE count # 0
  <2>1. count > 0 /\ count' = count - 1 /\ tail' = Prev(tail) /\ buf' = buf
    BY <1>2 DEF RingInv, Pop
  <2>2. Base' = Base
    BY <2>1, NIsNat DEF RingInv, Base, Prev
  <2>3. \A i : Slot(i)' = Slot(i)
    BY <2>2 DEF Slot
  <2>4. /\ Line \in Seq(Typed) /\ Len(Line) = count
        /\ \A i \in 1..count : Line[i] = buf[Slot(i)]
    BY LineIsSeq
  <2>5. Line' = [i \in 1..(count - 1) |-> buf[Slot(i)]]
    BY <2>1, <2>3 DEF Line
  <2>6. Line' = SubSeq(Line, 1, Len(Line) - 1)
    BY <2>1, <2>4, <2>5 DEF RingInv
  <2>7. Line # << >>
    BY <2>1, <2>4
  <2> QED
    BY <2>6, <2>7 DEF Editor!Rub
<1> QED
  BY <1>1, <1>2

(* What a key does to the ring.                                            *)
LEMMA KeyActs ==
  ASSUME KeyInterrupt
  PROVE  pc' = pc /\ (UNCHANGED tty \/ Pop \/ \E c \in Typed : Push(c))
<1>1. pc' = pc
  BY DEF KeyInterrupt
<1>2. PICK code \in Codes :
        IF KeyVector \notin handlers THEN full' = TRUE /\ UNCHANGED <<shift, tty, screen>>
        ELSE /\ UNCHANGED full
             /\ shift' = IF code = ShiftL THEN TRUE
                         ELSE IF code \in ReleasesShift THEN FALSE ELSE shift
             /\ IF code \in Released \cup {ShiftL, ShiftR} THEN UNCHANGED <<tty, screen>>
                ELSE TtyPutc(IF shift' THEN Upper[code] ELSE Lower[code])
  BY DEF KeyInterrupt
<1>3. CASE KeyVector \notin handlers \/ code \in Released \cup {ShiftL, ShiftR}
  BY <1>1, <1>2, <1>3
<1>4. CASE KeyVector \in handlers /\ code \notin Released \cup {ShiftL, ShiftR}
  <2> DEFINE c == IF shift' THEN Upper[code] ELSE Lower[code]
  <2>1. TtyPutc(c)
    BY <1>2, <1>4
  <2>2. code \in Keys
    BY <1>4 DEF Codes
  <2>3. c \in Char
    BY <2>2, TerminalAssumption
  <2>4. IF c = BS THEN Pop ELSE Push(c)
    BY <2>1 DEF TtyPutc
  <2> HIDE DEF c
  <2> QED
    BY <1>1, <2>3, <2>4 DEF Typed
<1> QED
  BY <1>3, <1>4

(* After tty_init() the steps of init() leave the ring alone.              *)
LEMMA InitStepActs ==
  ASSUME RingInv, InitStep \/ Spin, pc \notin StartPlaces
  PROVE  UNCHANGED tty /\ pc' \notin StartPlaces /\ pc' \in Places
<1>1. CASE Startup
  BY <1>1 DEF Startup, VgaInit, PrintTitle, GatesAndSti, TimerInit, RegisterHandler,
       ClearByte, ClearTail, ClearCount, Goes, StartPlaces
<1>2. CASE Getc
  BY <1>2 DEF Getc, GetcLoads, GetcTests, GetcReturns, Goes, StartPlaces, Places
<1>3. CASE PutStep
  <2>1. CASE PutBranch
    BY <2>1 DEF PutBranch, Regs, StartPlaces, Places, PutPlaces
  <2>2. CASE WrapTests \/ ScrollTests
    BY <2>2 DEF WrapTests, ScrollTests, Keep, Regs, StartPlaces, Places, PutPlaces
  <2>3. CASE ~(PutBranch \/ WrapTests \/ ScrollTests)
    BY <1>3, <2>3 DEF PutStep, CellRow, CellColumn, PutCell, StepLoads, StepStores, TabStores,
         NextRowLoads, NextRowStores, WrapColumn, WrapRowLoads, WrapRowStores, CopyLoads,
         CopyStores, BlankStores, ScrollClips, Goes, Keep, Regs, StartPlaces, Places, PutPlaces
  <2> QED
    BY <2>1, <2>2, <2>3
<1>4. CASE Spin
  BY <1>4 DEF Spin, vars, tty, RingInv
<1> QED
  BY <1>1, <1>2, <1>3, <1>4 DEF InitStep

LEMMA StartupActs ==
  ASSUME RingInv, Startup
  PROVE  /\ RingInv'
         /\ Line' = << >>
<1> USE DEF Goes, StartPlaces, Places, RingInv, tty
<1>1. NUL \in Typed /\ 0 \in 0..(N - 1) /\ 0 \in 0..N
  BY TerminalAssumption DEF Typed, Char
<1>2. CASE VgaInit \/ PrintTitle \/ GatesAndSti \/ TimerInit \/ RegisterHandler
  BY <1>2 DEF VgaInit, PrintTitle, GatesAndSti, TimerInit, RegisterHandler, Line
<1>3. CASE ClearByte
  BY <1>1, <1>3 DEF ClearByte, Line
<1>4. CASE ClearTail
  BY <1>1, <1>4 DEF ClearTail, Line
<1>5. CASE ClearCount
  <2>1. RingInv' /\ count' = 0 /\ pc' = "poll"
    BY <1>1, <1>5 DEF ClearCount
  <2>2. Line' = [i \in 1..0 |-> buf'[Slot(i)']]
    BY <2>1 DEF Line
  <2> QED
    BY <2>1, <2>2
<1> QED
  BY <1>2, <1>3, <1>4, <1>5 DEF Startup

LEMMA RingInductive ==
  ASSUME RingInv, [Next]_vars
  PROVE  RingInv'
<1>1. CASE Startup
  BY <1>1, StartupActs
<1>2. CASE (InitStep \/ Spin) /\ pc \notin StartPlaces
  <2>1. UNCHANGED tty /\ pc' \in Places
    BY <1>2, InitStepActs
  <2> QED
    BY <2>1 DEF RingInv, tty
<1>3. CASE InitStep /\ pc \in StartPlaces
  BY <1>1, <1>3 DEF InitStep, CopyLoads, CopyStores, BlankStores, Getc, GetcLoads, GetcTests, GetcReturns, PutStep, PutBranch,
       CellRow, CellColumn, PutCell, StepLoads, StepStores, TabStores, NextRowLoads,
       NextRowStores, WrapTests, WrapColumn, WrapRowLoads, WrapRowStores, ScrollTests,
       ScrollClips, Goes, StartPlaces
<1>4. CASE KeyInterrupt
  <2>1. pc' = pc /\ (UNCHANGED tty \/ Pop \/ \E c \in Typed : Push(c))
    BY <1>4, KeyActs
  <2>2. CASE UNCHANGED tty
    BY <2>1, <2>2 DEF RingInv, tty
  <2> QED
    BY <2>1, <2>2, PopKeepsRing, PushKeepsRing
<1>5. CASE Spin \/ UNCHANGED vars
  BY <1>5 DEF Spin, vars, RingInv, tty
<1> QED
  BY <1>2, <1>3, <1>4, <1>5 DEF Next

(* The indices of the ring never leave it and the buffer never holds a     *)
(* backspace (tty.c:63-90), for any length of the ring.                    *)
THEOREM RingTypeCorrect == Spec => []RingInv
<1>1. Init => RingInv
  BY TerminalAssumption DEF Init, RingInv, Typed, Char, Places, StartPlaces
<1>2. RingInv /\ [Next]_vars => RingInv'
  BY RingInductive
<1> QED
  BY <1>1, <1>2, PTL DEF Spec

LEMMA StepRefines ==
  ASSUME RingInv, [Next]_vars
  PROVE  [Editor!Next]_Line
<1>1. CASE Startup
  <2>1. Line = << >>
    BY <1>1 DEF Startup, VgaInit, PrintTitle, GatesAndSti, TimerInit, RegisterHandler,
         ClearByte, ClearTail, ClearCount, Goes, StartPlaces, Line
  <2>2. Line' = << >>
    BY <1>1, StartupActs
  <2> QED
    BY <2>1, <2>2
<1>2. CASE (InitStep \/ Spin) /\ pc \notin StartPlaces
  <2>1. UNCHANGED tty /\ pc' \notin StartPlaces
    BY <1>2, InitStepActs
  <2> QED
    BY <1>2, <2>1 DEF Line, Slot, Base, tty
<1>3. CASE InitStep /\ pc \in StartPlaces
  BY <1>1, <1>3 DEF InitStep, CopyLoads, CopyStores, BlankStores, Getc, GetcLoads, GetcTests, GetcReturns, PutStep, PutBranch,
       CellRow, CellColumn, PutCell, StepLoads, StepStores, TabStores, NextRowLoads,
       NextRowStores, WrapTests, WrapColumn, WrapRowLoads, WrapRowStores, ScrollTests,
       ScrollClips, Goes, StartPlaces
<1>4. CASE KeyInterrupt
  <2>1. pc' = pc /\ (UNCHANGED tty \/ Pop \/ \E c \in Typed : Push(c))
    BY <1>4, KeyActs
  <2>2. CASE pc \in StartPlaces
    BY <2>1, <2>2 DEF Line
  <2>3. CASE UNCHANGED tty /\ pc \notin StartPlaces
    BY <2>1, <2>3 DEF Line, Slot, Base, tty
  <2>4. CASE Pop /\ pc \notin StartPlaces
    BY <2>1, <2>4, PopRubs DEF Editor!Next
  <2>5. ASSUME NEW c \in Typed, Push(c), pc \notin StartPlaces
        PROVE  [Editor!Next]_Line
    BY <2>1, <2>5, PushTypes DEF Editor!Next, Typed
  <2> QED
    BY <2>1, <2>2, <2>3, <2>4, <2>5
<1>5. CASE Spin \/ UNCHANGED vars
  BY <1>5 DEF Spin, vars, Line, Slot, Base, tty
<1> QED
  BY <1>2, <1>3, <1>4, <1>5 DEF Next

(* The terminal implements the line editor for every length of the ring:   *)
(* a key adds or removes the last character of the line, and nothing that  *)
(* init() does afterwards touches it (tty.c:36-90).                        *)
THEOREM ImplementsLineEditor == Spec => RingIsLine
<1>1. Init => Editor!Init
  BY DEF Init, Editor!Init, Line, StartPlaces
<1>2. RingInv /\ [Next]_vars => [Editor!Next]_Line
  BY StepRefines
<1> QED
  BY <1>1, <1>2, RingTypeCorrect, PTL DEF Spec, RingIsLine, Editor!Spec

----------------------------------------------------------------------------
(* The cursor.                                                             *)
IsScreen(s) == s.x \in Nat /\ s.y \in Nat /\ s = [x |-> s.x, y |-> s.y, ink |-> s.ink]

Scrolling == {"scroll", "copy", "inked", "blank"}

CursorInv ==
  /\ x \in Nat /\ y \in Nat /\ reg \in Nat
  /\ pc \in Places
  /\ CursorOnScreen
  /\ pc \in {"wrapRow", "wrapped"} \cup Scrolling => x < Cols

LEMMA SizesAreNat == Rows \in Nat /\ Rows > 0 /\ Cols \in Nat /\ Cols > 0
  BY TerminalAssumption

LEMMA ProductIsNat ==
  ASSUME NEW a \in Nat, NEW b \in Nat
  PROVE  a * b \in Nat
  OBVIOUS

LEMMA TabIsNat == ASSUME NEW col \in Nat PROVE TabbedTo(col) \in Nat
<1>1. TabStop \in Nat /\ TabStop > 0
  BY TerminalAssumption
<1>2. (col + TabStop) \div TabStop \in Nat
  BY <1>1
<1> QED
  BY <1>1, <1>2, ProductIsNat DEF TabbedTo

LEMMA CellIsInt ==
  ASSUME NEW row \in Nat, NEW col \in Nat
  PROVE  row * Cols + col \in Nat
<1>1. row * Cols \in Nat
  BY SizesAreNat, ProductIsNat
<1> QED
  BY <1>1

(* The cases of vga_putc_color() exclude each other.                       *)
LEMMA MovedCases ==
  ASSUME NEW c, NEW s
  PROVE  /\ c = BS /\ s.x > 0 => Moved(c, s) = [s EXCEPT !.x = @ - 1]
         /\ c = TAB => Moved(c, s) = [s EXCEPT !.x = TabbedTo(@)]
         /\ c = NL => Moved(c, s) = [x |-> 0, y |-> s.y + 1, ink |-> s.ink]
         /\ c = SP => Moved(c, s) = [x |-> s.x + 1, y |-> s.y, ink |-> s.ink \ {CellAt(s)}]
         /\ c \in Glyph => Moved(c, s) = [x |-> s.x + 1, y |-> s.y, ink |-> s.ink \cup {CellAt(s)}]
         /\ ~(c = BS /\ s.x > 0) /\ c \notin Glyph \cup {TAB, NL, SP} => Moved(c, s) = s
<1>0. /\ BS # TAB /\ BS # NL /\ BS # SP /\ BS \notin Glyph /\ TAB # NL /\ TAB # SP
      /\ TAB \notin Glyph /\ NL # SP /\ NL \notin Glyph /\ SP \notin Glyph
  BY TerminalAssumption
<1>1. CASE c = BS
  BY <1>0, <1>1, Zenon DEF Moved
<1>2. CASE c = TAB
  BY <1>0, <1>2, Zenon DEF Moved
<1>3. CASE c = NL
  BY <1>0, <1>3, Zenon DEF Moved
<1>4. CASE c = SP
  BY <1>0, <1>4, Zenon DEF Moved
<1>5. CASE c \in Glyph
  BY <1>0, <1>5, Zenon DEF Moved
<1>6. CASE c # BS /\ c \notin Glyph \cup {TAB, NL, SP}
  BY <1>0, <1>6, Zenon DEF Moved
<1> QED
  BY <1>1, <1>2, <1>3, <1>4, <1>5, <1>6

LEMMA MovedIsScreen ==
  ASSUME NEW c, NEW s, IsScreen(s)
  PROVE  IsScreen(Moved(c, s))
<1>1. PICK a \in Nat, b \in Nat : \E i : s = [x |-> a, y |-> b, ink |-> i]
  BY DEF IsScreen
<1>2. PICK i : s = [x |-> a, y |-> b, ink |-> i]
  BY <1>1
<1>3. CASE c = BS /\ s.x > 0
  <2>1. Moved(c, s) = [s EXCEPT !.x = @ - 1]
    BY <1>3, MovedCases
  <2> QED
    BY <1>2, <1>3, <2>1 DEF IsScreen
<1>4. CASE c = TAB
  <2>1. Moved(c, s) = [s EXCEPT !.x = TabbedTo(@)]
    BY <1>4, MovedCases
  <2> QED
    BY <1>2, <2>1, TabIsNat DEF IsScreen
<1>5. CASE c = NL
  <2>1. Moved(c, s) = [x |-> 0, y |-> s.y + 1, ink |-> s.ink]
    BY <1>5, MovedCases
  <2> QED
    BY <1>2, <2>1 DEF IsScreen
<1>6. CASE c = SP
  <2>1. Moved(c, s) = [x |-> s.x + 1, y |-> s.y, ink |-> s.ink \ {CellAt(s)}]
    BY <1>6, MovedCases
  <2> QED
    BY <1>2, <2>1 DEF IsScreen
<1>7. CASE c \in Glyph
  <2>1. Moved(c, s) = [x |-> s.x + 1, y |-> s.y, ink |-> s.ink \cup {CellAt(s)}]
    BY <1>7, MovedCases
  <2> QED
    BY <1>2, <2>1 DEF IsScreen
<1>8. CASE ~(c = BS /\ s.x > 0) /\ c \notin Glyph \cup {TAB, NL, SP}
  BY <1>8, MovedCases
<1> QED
  BY <1>3, <1>4, <1>5, <1>6, <1>7, <1>8

LEMMA WrappedIsScreen ==
  ASSUME NEW a \in Nat, NEW b \in Nat, NEW i
  PROVE  LET t == Wrapped([x |-> a, y |-> b, ink |-> i])
         IN  IsScreen(t) /\ t.x < Cols
<1> DEFINE s == [x |-> a, y |-> b, ink |-> i]
<1>1. CASE a >= Cols
  <2>1. Wrapped(s) = [x |-> 0, y |-> b + 1, ink |-> i]
    BY <1>1 DEF Wrapped
  <2> QED
    BY <2>1, SizesAreNat DEF IsScreen
<1>2. CASE a < Cols
  <2>1. Wrapped(s) = s
    BY <1>2, SizesAreNat DEF Wrapped
  <2> QED
    BY <1>2, <2>1 DEF IsScreen
<1> QED
  BY <1>1, <1>2, SizesAreNat

LEMMA ScrolledIsScreen ==
  ASSUME NEW a \in Nat, NEW b \in Nat, NEW i, a < Cols
  PROVE  LET t == Scrolled([x |-> a, y |-> b, ink |-> i])
         IN  IsScreen(t) /\ t.x < Cols /\ t.y < Rows
<1> DEFINE s == [x |-> a, y |-> b, ink |-> i]
<1>1. CASE b >= Rows
  <2>1. Scrolled(s) = [x |-> a, y |-> Rows - 1, ink |-> RolledUp(i)]
    BY <1>1 DEF Scrolled
  <2> QED
    BY <2>1, SizesAreNat DEF IsScreen
<1>2. CASE b < Rows
  <2>1. Scrolled(s) = s
    BY <1>2, SizesAreNat DEF Scrolled
  <2> QED
    BY <1>2, <2>1 DEF IsScreen
<1> QED
  BY <1>1, <1>2, SizesAreNat

(* Wherever the cursor is, a character leaves it on the screen.            *)
LEMMA PutcOnScreen ==
  ASSUME NEW c, NEW s, IsScreen(s)
  PROVE  IsScreen(VgaPutc(c, s)) /\ VgaPutc(c, s).x < Cols /\ VgaPutc(c, s).y < Rows
<1>1. \A t : IsScreen(t) =>
         t.x \in Nat /\ t.y \in Nat /\ t = [x |-> t.x, y |-> t.y, ink |-> t.ink]
  BY DEF IsScreen
<1>2. IsScreen(Moved(c, s))
  BY <1>1, MovedIsScreen
<1>3. IsScreen(Wrapped(Moved(c, s))) /\ Wrapped(Moved(c, s)).x < Cols
  BY <1>1, <1>2, WrappedIsScreen
<1> QED
  BY <1>1, <1>3, ScrolledIsScreen DEF VgaPutc

LEMMA DrawnOnScreen ==
  ASSUME NEW c, NEW s, IsScreen(s)
  PROVE  IsScreen(Drawn(c, s)) /\ Drawn(c, s).x < Cols /\ Drawn(c, s).y < Rows
<1>1. IsScreen(VgaPutc(BS, s))
  BY PutcOnScreen
<1>2. IsScreen(VgaPutc(SP, VgaPutc(BS, s)))
  BY <1>1, PutcOnScreen
<1> QED
  BY <1>2, PutcOnScreen DEF Drawn

LEMMA InsidePutc ==
  ASSUME pc' \in PutPlaces, x' \in Nat, y' \in Nat, reg' \in Nat,
         pc' \in {"wrapRow", "wrapped"} \cup Scrolling => x' < Cols
  PROVE  CursorInv'
  BY DEF CursorInv, CursorOnScreen, Places, Scrolling

LEMMA CursorInductive ==
  ASSUME RingInv, CursorInv, [Next]_vars
  PROVE  CursorInv'
<1> USE DEF CursorInv, CursorOnScreen, Scrolling
<1>0. Rows - 1 \in Nat /\ 0 < Cols /\ 0 < Rows /\ Rows \in Nat /\ Cols \in Nat
  BY SizesAreNat
<1>1. CASE VgaInit
  BY <1>0, <1>1 DEF VgaInit, Goes, Places, StartPlaces, PutPlaces
<1>2. CASE PrintTitle
  <2>1. CASE out = << >>
    BY <1>2, <2>1 DEF PrintTitle, screen, Places, StartPlaces, PutPlaces
  <2>2. CASE out # << >>
    <3> DEFINE s == [x |-> x, y |-> y, ink |-> ink]
               t == VgaPutc(Head(out), s)
    <3>1. IsScreen(t) /\ t.x < Cols /\ t.y < Rows
      BY PutcOnScreen DEF IsScreen
    <3>2. x' = t.x /\ y' = t.y /\ ink' = t.ink /\ pc' = pc /\ reg' = reg
      BY <1>2, <2>2 DEF PrintTitle
    <3> HIDE DEF t
    <3> QED
      BY <3>1, <3>2 DEF IsScreen
  <2> QED
    BY <2>1, <2>2
<1>3. CASE GatesAndSti \/ TimerInit \/ RegisterHandler \/ ClearByte \/ ClearTail \/ ClearCount
  BY <1>3 DEF GatesAndSti, TimerInit, RegisterHandler, ClearByte, ClearTail, ClearCount, Goes,
       screen, Places, StartPlaces, PutPlaces
<1>4. CASE Getc
  <2>1. reg' \in Nat
    BY <1>4, NIsNat DEF RingInv, Getc, GetcLoads, GetcTests, GetcReturns
  <2> QED
    BY <1>4, <2>1 DEF Getc, GetcLoads, GetcTests, GetcReturns, Goes, screen, Places, PutPlaces
<1>5. CASE PutBranch
  BY <1>0, <1>5 DEF PutBranch, Regs, Places, PutPlaces
<1> HIDE DEF CursorInv, CursorOnScreen
<1>x. x \in Nat /\ y \in Nat /\ reg \in Nat
  BY DEF CursorInv
<1>6. CASE CellRow \/ CellColumn
  <2>1. reg * Cols + x \in Nat
    BY <1>x, CellIsInt
  <2> QED
    BY <1>x, <1>6, <2>1, InsidePutc DEF CellRow, CellColumn, Goes, Keep, screen, PutPlaces
<1>7. CASE PutCell \/ StepLoads \/ StepStores
  BY <1>x, <1>7, InsidePutc DEF PutCell, StepLoads, StepStores, Goes, Keep, screen, PutPlaces
<1>8. CASE TabStores
  <2>1. TabbedTo(reg) \in Nat
    BY <1>x, TabIsNat
  <2> QED
    BY <1>x, <1>8, <2>1, InsidePutc DEF TabStores, Goes, PutPlaces
<1>9. CASE NextRowLoads \/ NextRowStores
  BY <1>x, <1>9, InsidePutc DEF NextRowLoads, NextRowStores, Goes, Keep, screen, PutPlaces
<1>10. CASE WrapTests \/ WrapColumn \/ WrapRowLoads \/ WrapRowStores
  BY <1>x, <1>0, <1>10, InsidePutc DEF CursorInv, WrapTests, WrapColumn, WrapRowLoads,
       WrapRowStores, Goes, Keep, screen, PutPlaces
<1>11. CASE ScrollTests \/ CopyLoads \/ CopyStores \/ BlankStores \/ ScrollClips
  <2>1. CASE ScrollTests
    BY <1>x, <1>0, <1>11, <2>1 DEF ScrollTests, screen, CursorInv, CursorOnScreen, Places, PutPlaces
  <2>2. CASE CopyLoads \/ CopyStores \/ BlankStores
    <3>1. x' = x /\ y' = y /\ reg' \in {reg, reg + 1} /\ {pc, pc'} \subseteq Scrolling
      BY <2>2 DEF CopyLoads, CopyStores, BlankStores, Goes, Keep, screen
    <3> QED
      BY <1>x, <3>1, InsidePutc DEF CursorInv, PutPlaces
  <2>3. CASE ScrollClips
    BY <1>x, <1>0, <2>3 DEF ScrollClips, Goes, CursorInv, CursorOnScreen, Places, PutPlaces
  <2> QED
    BY <1>11, <2>1, <2>2, <2>3
<1>12. CASE KeyInterrupt
  <2>1. pc' = pc /\ reg' = reg
    BY <1>12 DEF KeyInterrupt
  <2>2. CASE UNCHANGED screen
    BY <2>1, <2>2 DEF screen, CursorInv, CursorOnScreen
  <2>3. ASSUME NEW c, TtyPutc(c) PROVE CursorInv'
    <3> DEFINE s == [x |-> x, y |-> y, ink |-> ink]
               t == Drawn(c, s)
    <3>1. IsScreen(t) /\ t.x < Cols /\ t.y < Rows
      BY <1>x, DrawnOnScreen DEF IsScreen
    <3>2. x' = t.x /\ y' = t.y /\ ink' = t.ink
      BY <2>3 DEF TtyPutc
    <3> HIDE DEF t
    <3> QED
      BY <2>1, <3>1, <3>2 DEF IsScreen, CursorInv, CursorOnScreen
  <2>4. UNCHANGED screen \/ \E c : TtyPutc(c)
    BY <1>12 DEF KeyInterrupt
  <2> QED
    BY <2>2, <2>3, <2>4
<1>13. CASE Spin \/ UNCHANGED vars
  BY <1>13 DEF Spin, vars, screen, CursorInv, CursorOnScreen
<1> QED
  BY <1>1, <1>2, <1>3, <1>4, <1>5, <1>6, <1>7, <1>8, <1>9, <1>10, <1>11, <1>12, <1>13
     DEF Next, InitStep, Startup, PutStep

(* For any size of the screen and any texts and keys the cursor is on the  *)
(* screen whenever init() is not in the middle of vga_putc(): every echo   *)
(* ends with it there, and so does every sequence of init()'s own steps,   *)
(* with any number of echoes between them (vga.c:70-99).                   *)
THEOREM CursorOnScreenHolds == Spec => []CursorOnScreen
<1>1. Init => CursorInv
  BY SizesAreNat DEF Init, CursorInv, CursorOnScreen, Places, StartPlaces
<1>2. RingInv /\ CursorInv /\ [Next]_vars => CursorInv'
  BY CursorInductive
<1>3. CursorInv => CursorOnScreen
  BY DEF CursorInv
<1> QED
  BY <1>1, <1>2, <1>3, RingTypeCorrect, PTL DEF Spec

----------------------------------------------------------------------------
(* The ink.  The cells of a row, and the first cell of the next.           *)
Row(b) == b * Cols

LEMMA RowFacts ==
  /\ \A b \in Nat : Row(b) \in Nat /\ Row(b + 1) = Row(b) + Cols
  /\ \A a, b \in Nat : a <= b => Row(a) <= Row(b)
  /\ \A a, b \in Nat : a < b => Row(a) + Cols <= Row(b)
  /\ Row(Rows) = Row(Rows - 1) + Cols
<1>1. ASSUME NEW b \in Nat PROVE Row(b) \in Nat /\ Row(b + 1) = Row(b) + Cols
  BY SizesAreNat DEF Row
<1>2. ASSUME NEW a \in Nat, NEW b \in Nat, a <= b PROVE Row(a) <= Row(b)
  <2> DEFINE d == b - a
  <2>1. d \in Nat /\ b = a + d
    BY <1>2
  <2> HIDE DEF d
  <2>2. (a + d) * Cols = a * Cols + d * Cols
    BY <2>1, SizesAreNat
  <2>3. d * Cols \in Nat /\ a * Cols \in Nat
    BY <2>1, SizesAreNat
  <2> QED BY <2>1, <2>2, <2>3 DEF Row
<1>3. ASSUME NEW a \in Nat, NEW b \in Nat, a < b PROVE Row(a) + Cols <= Row(b)
  <2>1. a + 1 \in Nat /\ a + 1 <= b
    BY <1>3
  <2>2. Row(a + 1) <= Row(b)
    BY <1>2, <2>1
  <2> QED BY <1>1, <2>2
<1>4. Row(Rows) = Row(Rows - 1) + Cols
  <2>1. Rows - 1 \in Nat /\ (Rows - 1) + 1 = Rows
    BY SizesAreNat
  <2> QED BY <1>1, <2>1
<1> QED BY <1>1, <1>2, <1>3, <1>4

LEMMA TabAhead ==
  ASSUME NEW col \in Nat
  PROVE  TabbedTo(col) \in Nat /\ TabbedTo(col) > col /\ TabbedTo(col) <= col + TabStop
<1> DEFINE q == (col + TabStop) \div TabStop
           r == (col + TabStop) % TabStop
<1>1. TabStop \in Nat /\ TabStop > 0
  BY TerminalAssumption, SizesAreNat
<1>2. q \in Nat /\ r \in 0..(TabStop - 1) /\ col + TabStop = q * TabStop + r
  BY <1>1
<1>3. TabbedTo(col) = q * TabStop
  BY DEF TabbedTo
<1> HIDE DEF q, r
<1>4. q * TabStop \in Nat
  BY <1>1, <1>2
<1> QED BY <1>1, <1>2, <1>3, <1>4

(* A character on the screen that neither wraps nor scrolls.               *)
LEMMA NothingToDo ==
  ASSUME NEW a \in Nat, NEW b \in Nat, NEW i, a < Cols, b < Rows
  PROVE  Scrolled(Wrapped([x |-> a, y |-> b, ink |-> i])) = [x |-> a, y |-> b, ink |-> i]
<1> DEFINE s == [x |-> a, y |-> b, ink |-> i]
<1>1. ~(s.x >= Cols) /\ ~(s.y >= Rows)
  BY SizesAreNat
<1> HIDE DEF s
<1>2. Wrapped(s) = s /\ Scrolled(s) = s
  BY <1>1 DEF Wrapped, Scrolled
<1> QED BY <1>2 DEF s

(* Only the cell under the cursor is written.                              *)
LEMMA MovedInk ==
  ASSUME NEW c, NEW s, IsScreen(s)
  PROVE  Moved(c, s).ink \subseteq s.ink \cup {CellAt(s)}
<1>1. CASE c = BS /\ s.x > 0
  <2>1. Moved(c, s) = [s EXCEPT !.x = @ - 1]
    BY <1>1, MovedCases
  <2> QED BY <2>1 DEF IsScreen
<1>2. CASE c = TAB
  <2>1. Moved(c, s) = [s EXCEPT !.x = TabbedTo(@)]
    BY <1>2, MovedCases
  <2> QED BY <2>1 DEF IsScreen
<1>3. CASE c = NL
  <2>1. Moved(c, s) = [x |-> 0, y |-> s.y + 1, ink |-> s.ink]
    BY <1>3, MovedCases
  <2> QED BY <2>1
<1>4. CASE c = SP
  <2>1. Moved(c, s) = [x |-> s.x + 1, y |-> s.y, ink |-> s.ink \ {CellAt(s)}]
    BY <1>4, MovedCases
  <2> QED BY <2>1
<1>5. CASE c \in Glyph
  <2>1. Moved(c, s) = [x |-> s.x + 1, y |-> s.y, ink |-> s.ink \cup {CellAt(s)}]
    BY <1>5, MovedCases
  <2> QED BY <2>1
<1>6. CASE ~(c = BS /\ s.x > 0) /\ c \notin Glyph \cup {TAB, NL, SP}
  BY <1>6, MovedCases
<1> QED BY <1>1, <1>2, <1>3, <1>4, <1>5, <1>6

(* Rolling up does not take ink further down.                              *)
LEMMA RolledInk ==
  ASSUME NEW i \in SUBSET Nat, NEW p \in RolledUp(i)
  PROVE  /\ p \in Nat
         /\ \/ p \in i /\ p >= Row(Rows)
            \/ p + Cols \in i /\ p + Cols < Row(Rows)
<1>1. Rows * Cols = Row(Rows) /\ Row(Rows) \in Nat /\ Cols \in Nat
  BY SizesAreNat, ProductIsNat DEF Row
<1>2. \/ p \in i /\ p >= Rows * Cols
      \/ \E q \in i : q >= Cols /\ q < Rows * Cols /\ p = q - Cols
  BY Zenon DEF RolledUp
<1>3. CASE p \in i /\ p >= Rows * Cols
  BY <1>1, <1>3
<1>4. ASSUME NEW q \in i, q >= Cols, q < Rows * Cols, p = q - Cols
      PROVE  p \in Nat /\ p + Cols \in i /\ p + Cols < Row(Rows)
  <2>1. q \in Nat /\ p + Cols = q
    BY <1>1, <1>4
  <2> QED BY <1>1, <1>4, <2>1
<1> QED BY <1>2, <1>3, <1>4

(* The ink of a screen lies above R, and so does its cursor.               *)
InkAbove(s, R) == s.ink \subseteq Nat /\ \A p \in s.ink : p < R

LEMMA PutcInk ==
  ASSUME NEW c, NEW s, IsScreen(s), NEW R \in Nat, InkAbove(s, R), CellAt(s) < R
  PROVE  InkAbove(VgaPutc(c, s), R)
<1> DEFINE m == Moved(c, s)  w == Wrapped(m)  v == Scrolled(w)
<1>1. CellAt(s) \in Nat
  BY CellIsInt DEF CellAt, IsScreen
<1>2. InkAbove(m, R)
  <2>1. m.ink \subseteq s.ink \cup {CellAt(s)}
    BY MovedInk
  <2> HIDE DEF m
  <2> QED BY <1>1, <2>1 DEF InkAbove
<1>3. IsScreen(m)
  BY MovedIsScreen
<1> HIDE DEF m
<1>4. w.ink = m.ink
  <2>1. [m EXCEPT !.x = 0, !.y = @ + 1].ink = m.ink
    BY <1>3 DEF IsScreen
  <2> QED BY <2>1 DEF Wrapped
<1>5. IsScreen(w)
  <2>1. m = [x |-> m.x, y |-> m.y, ink |-> m.ink] /\ m.x \in Nat /\ m.y \in Nat
    BY <1>3 DEF IsScreen
  <2> QED BY <2>1, WrappedIsScreen
<1> HIDE DEF w
<1>6. v.ink = w.ink \/ v.ink = RolledUp(w.ink)
  BY <1>5 DEF Scrolled, IsScreen
<1> HIDE DEF v
<1>7. InkAbove(v, R)
  <2>1. InkAbove(w, R)
    BY <1>2, <1>4 DEF InkAbove
  <2>2. ASSUME NEW p \in RolledUp(w.ink) PROVE p \in Nat /\ p < R
    <3>1. p \in Nat /\ (p \in w.ink \/ p + Cols \in w.ink)
      BY <2>1, RolledInk DEF InkAbove
    <3> QED BY <2>1, <3>1, SizesAreNat DEF InkAbove
  <2> QED BY <1>6, <2>1, <2>2 DEF InkAbove
<1> QED BY <1>7 DEF VgaPutc, v, w, m

(* A screen that is blank from its cursor on; and what it is between the   *)
(* character and its wrapping and scrolling.                               *)
CleanScreen(s) ==
  /\ IsScreen(s) /\ s.x < Cols /\ s.y < Rows
  /\ InkAbove(s, Row(s.y) + s.x)

MovedScreen(s) ==
  /\ IsScreen(s) /\ InkAbove(s, Row(s.y) + s.x) /\ InkAbove(s, Row(s.y) + Cols)
  /\ s.y < Rows \/ (s.y = Rows /\ s.x = 0)

LEMMA CleanAfterMove ==
  ASSUME NEW a \in Nat, NEW b \in Nat, NEW i, MovedScreen([x |-> a, y |-> b, ink |-> i])
  PROVE  CleanScreen(Scrolled(Wrapped([x |-> a, y |-> b, ink |-> i])))
<1> DEFINE s == [x |-> a, y |-> b, ink |-> i]
           R == Row(b)  B == Row(Rows)
<1>1. /\ Rows \in Nat /\ Rows > 0 /\ Cols \in Nat /\ Cols > 0
      /\ R \in Nat /\ Row(b + 1) = R + Cols /\ B \in Nat /\ Row(Rows - 1) + Cols = B
      /\ Row(Rows - 1) \in Nat
  <2>1. Rows \in Nat /\ Rows > 0 /\ Cols \in Nat /\ Cols > 0 /\ Rows - 1 \in Nat
    BY SizesAreNat
  <2> QED BY <2>1, RowFacts
<1>2. /\ i \subseteq Nat /\ \A p \in i : p < R + a /\ p < R + Cols
      /\ b < Rows \/ (b = Rows /\ a = 0)
  BY DEF MovedScreen, InkAbove
<1> HIDE DEF R, B
<1>3. ASSUME NEW y1 \in Nat, NEW x1 \in Nat, x1 < Cols, y1 < Rows \/ (y1 = Rows /\ x1 = 0),
             \A p \in i : p < Row(y1) + x1
      PROVE  CleanScreen(Scrolled([x |-> x1, y |-> y1, ink |-> i]))
  <2> DEFINE w == [x |-> x1, y |-> y1, ink |-> i]
  <2>1. CASE y1 < Rows
    <3>1. ~(w.y >= Rows)
      BY <1>1, <2>1
    <3>2. Scrolled(w) = w
      <4> HIDE DEF w
      <4> QED BY <3>1 DEF Scrolled
    <3> QED BY <1>2, <1>3, <2>1, <3>2 DEF CleanScreen, InkAbove, IsScreen
  <2>2. CASE y1 = Rows /\ x1 = 0
    <3>1. Scrolled(w) = [x |-> 0, y |-> Rows - 1, ink |-> RolledUp(i)]
      <4>1. w.y >= Rows
        BY <1>1, <2>2
      <4> QED BY <2>2, <4>1 DEF Scrolled
    <3>2. ASSUME NEW p \in RolledUp(i) PROVE p \in Nat /\ p < Row(Rows - 1) + 0
      <4>1. \A q \in i : q \in Nat /\ q < B
        <5>1. Row(y1) = B
          BY <2>2 DEF B
        <5> QED BY <1>1, <1>2, <1>3, <2>2, <5>1
      <4>2. p \in Nat /\ ((p \in i /\ p >= B) \/ p + Cols \in i)
        BY <1>2, RolledInk DEF B
      <4>3. p + Cols \in i
        BY <1>1, <4>1, <4>2
      <4> QED BY <1>1, <4>1, <4>2, <4>3
    <3>3. Rows - 1 \in Nat /\ Rows - 1 < Rows /\ 0 < Cols
      BY <1>1
    <3> QED BY <3>1, <3>2, <3>3 DEF CleanScreen, InkAbove, IsScreen
  <2> QED BY <1>3, <2>1, <2>2
<1>4. CASE a >= Cols
  <2>1. Wrapped(s) = [x |-> 0, y |-> b + 1, ink |-> i]
    BY <1>4 DEF Wrapped
  <2>2. b + 1 \in Nat /\ (b + 1 < Rows \/ (b + 1 = Rows /\ 0 = 0)) /\ 0 < Cols
    BY <1>1, <1>2, <1>4
  <2>3. \A p \in i : p < Row(b + 1) + 0
    BY <1>1, <1>2
  <2> QED BY <1>3, <2>1, <2>2, <2>3
<1>5. CASE ~(a >= Cols)
  <2>1. Wrapped(s) = s
    BY <1>5 DEF Wrapped
  <2>2. a < Cols
    BY <1>1, <1>5
  <2>3. \A p \in i : p < Row(b) + a
    BY <1>2 DEF R
  <2> QED BY <1>2, <1>3, <2>1, <2>2, <2>3
<1> QED BY <1>4, <1>5

(* What stays or goes forward writes at the cursor at most.                *)
LEMMA MovedForward ==
  ASSUME NEW c, c # BS, NEW s, CleanScreen(s)
  PROVE  MovedScreen(Moved(c, s))
<1> DEFINE R == Row(s.y)
<1>1. /\ s.x \in Nat /\ s.y \in Nat /\ s.x < Cols /\ s.y < Rows /\ s.ink \subseteq Nat
      /\ \A p \in s.ink : p < R + s.x
      /\ s = [x |-> s.x, y |-> s.y, ink |-> s.ink]
  BY DEF CleanScreen, IsScreen, InkAbove
<1>2. /\ Rows \in Nat /\ Cols \in Nat /\ Cols > 0 /\ R \in Nat /\ Row(s.y + 1) = R + Cols
      /\ CellAt(s) = R + s.x
  BY <1>1, RowFacts, SizesAreNat DEF CellAt, Row
<1> HIDE DEF R
<1>3. \A p \in s.ink : p < R + Cols
  BY <1>1, <1>2
<1>4. CASE c = TAB
  <2>1. Moved(c, s) = [x |-> TabbedTo(s.x), y |-> s.y, ink |-> s.ink]
    BY <1>1, <1>4, MovedCases
  <2>2. TabbedTo(s.x) \in Nat /\ TabbedTo(s.x) > s.x
    BY <1>1, TabAhead
  <2>3. \A p \in s.ink : p < R + TabbedTo(s.x)
    BY <1>1, <1>2, <2>2
  <2> QED BY <1>1, <1>3, <2>1, <2>2, <2>3 DEF MovedScreen, IsScreen, InkAbove, R
<1>5. CASE c = NL
  <2>1. Moved(c, s) = [x |-> 0, y |-> s.y + 1, ink |-> s.ink]
    BY <1>5, MovedCases
  <2>2. \A p \in s.ink : p < Row(s.y + 1) + 0 /\ p < Row(s.y + 1) + Cols
    BY <1>1, <1>2
  <2>3. s.y + 1 \in Nat /\ (s.y + 1 < Rows \/ (s.y + 1 = Rows /\ 0 = 0))
    BY <1>1, <1>2
  <2> QED BY <1>1, <2>1, <2>2, <2>3 DEF MovedScreen, IsScreen, InkAbove
<1>6. ASSUME NEW i, i \subseteq s.ink \cup {CellAt(s)}
      PROVE  MovedScreen([x |-> s.x + 1, y |-> s.y, ink |-> i])
  <2>1. \A p \in i : p \in Nat /\ p < R + (s.x + 1) /\ p < R + Cols
    BY <1>1, <1>2, <1>6
  <2>2. s.x + 1 \in Nat
    BY <1>1
  <2> QED BY <1>1, <2>1, <2>2 DEF MovedScreen, IsScreen, InkAbove, R
<1>7. CASE c = SP
  <2>1. Moved(c, s) = [x |-> s.x + 1, y |-> s.y, ink |-> s.ink \ {CellAt(s)}]
    BY <1>7, MovedCases
  <2> QED BY <1>6, <2>1
<1>8. CASE c \in Glyph
  <2>1. Moved(c, s) = [x |-> s.x + 1, y |-> s.y, ink |-> s.ink \cup {CellAt(s)}]
    BY <1>8, MovedCases
  <2> QED BY <1>6, <2>1
<1>9. CASE c \notin Glyph \cup {TAB, NL, SP}
  <2>1. Moved(c, s) = s
    BY <1>9, MovedCases
  <2> QED BY <1>1, <1>3, <2>1 DEF MovedScreen, IsScreen, InkAbove, R
<1> QED BY <1>4, <1>5, <1>7, <1>8, <1>9

LEMMA PutcClean ==
  ASSUME NEW c, c # BS, NEW s, CleanScreen(s)
  PROVE  CleanScreen(VgaPutc(c, s))
<1> DEFINE m == Moved(c, s)
<1>1. MovedScreen(m)
  BY MovedForward
<1> HIDE DEF m
<1>2. m.x \in Nat /\ m.y \in Nat /\ m = [x |-> m.x, y |-> m.y, ink |-> m.ink]
  BY <1>1 DEF MovedScreen, IsScreen
<1>3. CleanScreen(Scrolled(Wrapped(m)))
  BY <1>1, <1>2, CleanAfterMove
<1> QED BY <1>3 DEF VgaPutc, m

(* A backspace leaves the cursor's cell and all that follow it blank.      *)
LEMMA BackClean ==
  ASSUME NEW s, CleanScreen(s)
  PROVE  CleanScreen(Drawn(BS, s))
<1> DEFINE R == Row(s.y)
           s1 == VgaPutc(BS, s)
           s2 == VgaPutc(SP, s1)
           s3 == VgaPutc(BS, s2)
<1>1. /\ s.x \in Nat /\ s.y \in Nat /\ s.x < Cols /\ s.y < Rows /\ s.ink \subseteq Nat
      /\ \A p \in s.ink : p < R + s.x
      /\ s = [x |-> s.x, y |-> s.y, ink |-> s.ink]
  BY DEF CleanScreen, IsScreen, InkAbove
<1>2. /\ Cols \in Nat /\ Cols > 0 /\ R \in Nat
      /\ \A t : t.y = s.y => CellAt(t) = R + t.x
  BY <1>1, RowFacts, SizesAreNat DEF CellAt, Row
<1>3. Drawn(BS, s) = s3
  BY DEF Drawn
<1> HIDE DEF R
<1>4. ASSUME NEW a \in Nat, NEW i, 0 < a, a < Cols
      PROVE  VgaPutc(BS, [x |-> a, y |-> s.y, ink |-> i]) = [x |-> a - 1, y |-> s.y, ink |-> i]
  <2> DEFINE t == [x |-> a, y |-> s.y, ink |-> i]
  <2>1. Moved(BS, t) = [t EXCEPT !.x = @ - 1]
    <3>1. t.x > 0
      BY <1>4
    <3> HIDE DEF t
    <3> QED BY <3>1, MovedCases
  <2>2. [t EXCEPT !.x = @ - 1] = [x |-> a - 1, y |-> s.y, ink |-> i]
    OBVIOUS
  <2>3. a - 1 \in Nat /\ a - 1 < Cols
    BY <1>2, <1>4
  <2>4. Scrolled(Wrapped([x |-> a - 1, y |-> s.y, ink |-> i])) = [x |-> a - 1, y |-> s.y, ink |-> i]
    BY <1>1, <2>3, NothingToDo
  <2> QED BY <2>1, <2>2, <2>4 DEF VgaPutc
<1>5. ASSUME NEW a \in Nat, NEW i, a + 1 < Cols
      PROVE  VgaPutc(SP, [x |-> a, y |-> s.y, ink |-> i])
               = [x |-> a + 1, y |-> s.y, ink |-> i \ {R + a}]
  <2> DEFINE t == [x |-> a, y |-> s.y, ink |-> i]
  <2>1. Moved(SP, t) = [x |-> t.x + 1, y |-> t.y, ink |-> t.ink \ {CellAt(t)}]
    <3> HIDE DEF t
    <3> QED BY MovedCases
  <2>2. CellAt(t) = R + a
    BY <1>2
  <2>3. Moved(SP, t) = [x |-> a + 1, y |-> s.y, ink |-> i \ {R + a}]
    BY <2>1, <2>2
  <2>4. Scrolled(Wrapped([x |-> a + 1, y |-> s.y, ink |-> i \ {R + a}]))
          = [x |-> a + 1, y |-> s.y, ink |-> i \ {R + a}]
    BY <1>1, <1>5, NothingToDo
  <2> QED BY <2>3, <2>4 DEF VgaPutc
<1>6. ASSUME NEW a \in Nat, NEW i \in SUBSET Nat, a < Cols, \A p \in i : p < R + a
      PROVE  CleanScreen([x |-> a, y |-> s.y, ink |-> i])
  BY <1>1, <1>6 DEF CleanScreen, IsScreen, InkAbove, R
<1>7. CASE s.x > 0
  <2> DEFINE a == s.x - 1
             i == s.ink \ {R + a}
  <2>1. a \in Nat /\ a + 1 = s.x /\ a + 1 < Cols /\ a < Cols
    BY <1>1, <1>2, <1>7
  <2>2. s1 = [x |-> a, y |-> s.y, ink |-> s.ink]
    BY <1>1, <1>4, <1>7
  <2> HIDE DEF s1
  <2>3. s2 = [x |-> s.x, y |-> s.y, ink |-> i]
    BY <1>5, <2>1, <2>2
  <2> HIDE DEF s2
  <2>4. s3 = [x |-> a, y |-> s.y, ink |-> i]
    BY <1>1, <1>4, <1>7, <2>3
  <2>5. i \in SUBSET Nat /\ \A p \in i : p < R + a
    BY <1>1, <1>2, <2>1
  <2> HIDE DEF a, i, s3
  <2> QED BY <1>3, <1>6, <2>1, <2>4, <2>5
<1>8. CASE s.x = 0
  <2>1. s1 = s
    <3>1. BS \notin Glyph \cup {TAB, NL, SP} /\ ~(s.x > 0)
      BY <1>8, TerminalAssumption
    <3>2. Moved(BS, s) = s
      BY <3>1, MovedCases
    <3>3. Scrolled(Wrapped(s)) = s
      BY <1>1, NothingToDo
    <3> QED BY <3>2, <3>3 DEF VgaPutc
  <2>2. CleanScreen(s2)
    <3>1. SP # BS
      BY TerminalAssumption
    <3> HIDE DEF s1
    <3> QED BY <2>1, <3>1, PutcClean
  <2>3. CASE Cols > 1
    <3> DEFINE i == s.ink \ {R + 0}
    <3> HIDE DEF s1
    <3>0. 0 \in Nat /\ 0 + 1 = 1 /\ 1 \in Nat /\ 0 < 1 /\ 1 < Cols /\ 1 - 1 = 0
      BY <1>2, <2>3
    <3>1. s1 = [x |-> 0, y |-> s.y, ink |-> s.ink]
      BY <1>1, <1>8, <2>1
    <3>2. s2 = [x |-> 0 + 1, y |-> s.y, ink |-> i]
      <4>1. VgaPutc(SP, [x |-> 0, y |-> s.y, ink |-> s.ink]) = [x |-> 0 + 1, y |-> s.y, ink |-> i]
        <5>1. 0 + 1 < Cols
          BY <3>0
        <5> QED BY <1>5, <3>0, <5>1
      <4> QED BY <3>1, <4>1
    <3> HIDE DEF s2
    <3>4. s3 = [x |-> 0, y |-> s.y, ink |-> i]
      <4>1. VgaPutc(BS, [x |-> 1, y |-> s.y, ink |-> i]) = [x |-> 1 - 1, y |-> s.y, ink |-> i]
        BY <1>4, <3>0
      <4> QED BY <3>0, <3>2, <4>1
    <3>3. i \in SUBSET Nat /\ \A p \in i : p < R + 0
      BY <1>1, <1>2, <1>8
    <3> HIDE DEF i, s3
    <3> QED BY <1>2, <1>3, <1>6, <3>3, <3>4
  <2>4. CASE ~(Cols > 1)
    <3> HIDE DEF s2
    <3>1. s2.x = 0 /\ s2.x < Cols /\ s2.y < Rows
      BY <1>2, <2>2, <2>4 DEF CleanScreen, IsScreen
    <3>2. BS \notin Glyph \cup {TAB, NL, SP} /\ ~(s2.x > 0)
      BY <3>1, TerminalAssumption
    <3>3. Moved(BS, s2) = s2
      BY <3>2, MovedCases
    <3>4. Scrolled(Wrapped(s2)) = s2
      BY <2>2, NothingToDo DEF CleanScreen, IsScreen
    <3> QED BY <1>3, <2>2, <3>3, <3>4 DEF VgaPutc
  <2> QED BY <2>3, <2>4
<1> QED BY <1>1, <1>7, <1>8

LEMMA DrawnClean ==
  ASSUME NEW c, NEW s, CleanScreen(s)
  PROVE  CleanScreen(Drawn(c, s))
<1>1. CASE c = BS
  BY <1>1, BackClean
<1>2. CASE c # BS
  BY <1>2, PutcClean DEF Drawn
<1> QED BY <1>1, <1>2

(* A cursor on the screen stands above the row below it.                   *)
LEMMA CellOnScreen ==
  ASSUME NEW b \in Nat, NEW a \in Nat, NEW rows \in Nat, a < Cols, b < rows
  PROVE  b * Cols + a < Row(rows)
<1>1. Row(b) + Cols <= Row(rows) /\ Row(b) \in Nat /\ Row(rows) \in Nat
  BY RowFacts
<1>2. Row(b) + a < Row(rows)
  BY <1>1, SizesAreNat
<1> QED BY <1>2 DEF Row

Below == Row(Rows + 1)

LEMMA DrawnInk ==
  ASSUME NEW c, NEW s, IsScreen(s), InkAbove(s, Below), CellAt(s) < Below
  PROVE  InkAbove(Drawn(c, s), Below)
<1>1. Rows + 1 \in Nat /\ Below \in Nat
  BY RowFacts, SizesAreNat DEF Below
<1>2. ASSUME NEW d, NEW t, IsScreen(t), InkAbove(t, Below), CellAt(t) < Below
      PROVE  LET u == VgaPutc(d, t)
             IN  IsScreen(u) /\ InkAbove(u, Below) /\ CellAt(u) < Below
  <2> DEFINE u == VgaPutc(d, t)
  <2>1. IsScreen(u) /\ u.x < Cols /\ u.y < Rows
    BY <1>2, PutcOnScreen
  <2>2. InkAbove(u, Below)
    BY <1>1, <1>2, PutcInk
  <2>3. u.x \in Nat /\ u.y \in Nat /\ u.y < Rows + 1
    BY <2>1, SizesAreNat DEF IsScreen
  <2> HIDE DEF u
  <2>4. CellAt(u) < Below
    <3>1. u.y * Cols + u.x < Row(Rows + 1)
      BY <1>1, <2>1, <2>3, CellOnScreen
    <3> QED BY <3>1 DEF CellAt, Below
  <2> QED BY <2>1, <2>2, <2>4 DEF u
<1> DEFINE s1 == VgaPutc(BS, s)
           s2 == VgaPutc(SP, s1)
<1>3. IsScreen(s1) /\ InkAbove(s1, Below) /\ CellAt(s1) < Below
  BY <1>2
<1> HIDE DEF s1
<1>4. IsScreen(s2) /\ InkAbove(s2, Below) /\ CellAt(s2) < Below
  BY <1>2, <1>3
<1> HIDE DEF s2
<1>5. InkAbove(VgaPutc(BS, s2), Below) /\ InkAbove(VgaPutc(c, s), Below)
  BY <1>2, <1>4
<1> QED BY <1>5 DEF Drawn, s2, s1

(* What holds of the ink and of the registers of vga_putc() at each place  *)
(* of init(): the cursor that is under way has not left the row below the  *)
(* screen, and the cell that is written was the cursor's once.             *)
OnScreen == x < Cols /\ y < Rows
CursorBelow == (y < Rows /\ x < 2 * Cols) \/ (y <= Rows /\ x < Cols)
Quiet == pc \notin PutPlaces \cup {"boot", "put"}
AtScreen == {"cellRow", "cellColumn", "cell", "step", "stepped", "tab", "nextRow", "row",
             "wrapRow", "wrapped"}

PutInv ==
  /\ CursorBelow
  /\ pc \in AtScreen => OnScreen
  /\ pc = "wrapping" => y < Rows
  /\ pc \in Scrolling => x < Cols
  /\ pc \in {"cellColumn", "row", "wrapped"} => reg < Rows
  /\ pc \in {"cell", "inked", "blank"} => reg < Below
  /\ pc \in {"stepped", "tab"} => reg < Cols

InkInv ==
  /\ ink \subseteq Nat /\ \A p \in ink : p < Below
  /\ PutInv
  /\ Quiet => \A p \in ink : p < y * Cols + x
  /\ pc = "title" => out \in Seq(Char \ {BS})

LEMMA BelowFacts ==
  /\ Rows \in Nat /\ Rows > 0 /\ Cols \in Nat /\ Cols > 0 /\ Below \in Nat
  /\ \A a, b \in Nat : (b < Rows /\ a < 2 * Cols) \/ (b <= Rows /\ a < Cols) => b * Cols + a < Below
<1>1. Rows \in Nat /\ Rows > 0 /\ Cols \in Nat /\ Cols > 0 /\ Rows + 1 \in Nat
  BY SizesAreNat
<1>2. Below \in Nat /\ Below = Row(Rows) + Cols /\ Row(Rows) \in Nat
  BY <1>1, RowFacts DEF Below
<1>3. ASSUME NEW a \in Nat, NEW b \in Nat, b < Rows /\ a < 2 * Cols
      PROVE  b * Cols + a < Below
  <2>1. Row(b) + Cols <= Row(Rows) /\ Row(b) \in Nat
    BY <1>1, <1>3, RowFacts
  <2>2. Row(b) + a < Below
    BY <1>1, <1>2, <1>3, <2>1
  <2> QED BY <2>2 DEF Row
<1>4. ASSUME NEW a \in Nat, NEW b \in Nat, b <= Rows /\ a < Cols
      PROVE  b * Cols + a < Below
  <2>1. b < Rows + 1
    BY <1>1, <1>4
  <2> QED BY <1>1, <1>4, <2>1, CellOnScreen DEF Below
<1> QED BY <1>1, <1>2, <1>3, <1>4

(* A key's echo, wherever init() is.                                       *)
LEMMA EchoInk ==
  ASSUME RingInv, CursorInv, InkInv, KeyInterrupt
  PROVE  InkInv'
<1> DEFINE s == [x |-> x, y |-> y, ink |-> ink]
<1>1. /\ pc' = pc /\ reg' = reg /\ out' = out
      /\ UNCHANGED screen \/ \E c : TtyPutc(c)
  BY DEF KeyInterrupt
<1>2. CASE UNCHANGED screen
  BY <1>1, <1>2 DEF screen, InkInv, PutInv, CursorBelow, OnScreen, Quiet
<1>3. ASSUME NEW c, TtyPutc(c) PROVE InkInv'
  <2> DEFINE t == Drawn(c, s)
  <2>1. x' = t.x /\ y' = t.y /\ ink' = t.ink
    BY <1>3 DEF TtyPutc
  <2>2. x \in Nat /\ y \in Nat /\ reg \in Nat /\ IsScreen(s)
    BY DEF CursorInv, IsScreen
  <2>3. IsScreen(t) /\ t.x < Cols /\ t.y < Rows
    BY <2>2, DrawnOnScreen
  <2>4. InkAbove(t, Below)
    <3>1. InkAbove(s, Below)
      BY DEF InkInv, InkAbove
    <3>2. CellAt(s) < Below
      BY <2>2, BelowFacts DEF InkInv, PutInv, CursorBelow, CellAt
    <3> QED BY <2>2, <3>1, <3>2, DrawnInk
  <2>5. ASSUME Quiet PROVE InkAbove(t, Row(t.y) + t.x)
    <3>1. CleanScreen(s)
      BY <2>2, <2>5 DEF CleanScreen, InkAbove, InkInv, CursorInv, CursorOnScreen, Quiet, Row
    <3> QED BY <3>1, DrawnClean DEF CleanScreen
  <2> HIDE DEF t
  <2>6. PutInv'
    <3>1. OnScreen' /\ CursorBelow'
      BY <2>1, <2>3, BelowFacts DEF OnScreen, CursorBelow, IsScreen
    <3>2. x' < Cols /\ y' < Rows
      BY <2>1, <2>3
    <3> QED BY <1>1, <3>1, <3>2 DEF InkInv, PutInv
  <2> QED BY <1>1, <2>1, <2>4, <2>5, <2>6 DEF InkInv, InkAbove, Quiet, Row
<1> QED BY <1>1, <1>2, <1>3

(* The title is printed character by character.                            *)
LEMMA TitleInk ==
  ASSUME RingInv, CursorInv, InkInv, PrintTitle
  PROVE  InkInv'
<1>1. pc = "title" /\ reg' = reg /\ out \in Seq(Char \ {BS}) /\ Quiet /\ OnScreen
  BY DEF PrintTitle, InkInv, Quiet, PutPlaces, OnScreen, CursorInv, CursorOnScreen
<1>2. CASE out = << >>
  BY <1>1, <1>2 DEF PrintTitle, screen, InkInv, PutInv, CursorBelow, OnScreen, Quiet, AtScreen,
     PutPlaces
<1>3. CASE out # << >>
  <2> DEFINE s == [x |-> x, y |-> y, ink |-> ink]
             t == VgaPutc(Head(out), s)
  <2>1. x' = t.x /\ y' = t.y /\ ink' = t.ink /\ pc' = pc /\ out' = Tail(out)
    BY <1>3 DEF PrintTitle
  <2>2. Head(out) # BS /\ Tail(out) \in Seq(Char \ {BS})
    BY <1>1, <1>3, HeadTailProperties
  <2>3. CleanScreen(s)
    BY <1>1 DEF CleanScreen, InkAbove, InkInv, CursorInv, OnScreen, Row, IsScreen
  <2>4. CleanScreen(t)
    <3> HIDE DEF s
    <3> QED BY <2>2, <2>3, PutcClean
  <2> HIDE DEF t
  <2>5. /\ x' \in Nat /\ y' \in Nat /\ x' < Cols /\ y' < Rows
        /\ ink' \subseteq Nat /\ \A p \in ink' : p < y' * Cols + x'
    <3>1. /\ t.x \in Nat /\ t.y \in Nat /\ t.x < Cols /\ t.y < Rows
          /\ t.ink \subseteq Nat /\ \A p \in t.ink : p < Row(t.y) + t.x
      BY <2>4 DEF CleanScreen, IsScreen, InkAbove
    <3> QED BY <2>1, <3>1 DEF Row
  <2>6. CursorBelow'
    BY <2>5, BelowFacts DEF CursorBelow
  <2>7. \A p \in ink' : p < Below
    <3>1. y' * Cols + x' < Below /\ y' * Cols + x' \in Nat
      BY <2>5, <2>6, BelowFacts, CellIsInt DEF CursorBelow
    <3> DEFINE cell == y' * Cols + x'
    <3>2. cell \in Nat /\ cell < Below /\ Below \in Nat /\ ink' \subseteq Nat /\ \A p \in ink' : p < cell
      BY <2>5, <3>1, BelowFacts
    <3> HIDE DEF cell
    <3> QED BY <3>2
  <2> QED BY <1>1, <2>1, <2>2, <2>5, <2>6, <2>7 DEF InkInv, PutInv, Quiet, AtScreen, OnScreen
<1> QED BY <1>2, <1>3

(* The steps that leave the screen alone.                                  *)
LEMMA QuietInk ==
  ASSUME RingInv, CursorInv, InkInv, UNCHANGED screen,
         \/ (pc' = pc /\ reg' = reg /\ out' = out)
         \/ (Quiet /\ pc' \in {"gates", "timer", "register", "clear", "count", "poll", "test",
                               "first", "put"})
  PROVE  InkInv'
<1>1. x' = x /\ y' = y /\ ink' = ink
  BY DEF screen
<1>2. CASE pc' = pc /\ reg' = reg /\ out' = out
  BY <1>1, <1>2 DEF InkInv, PutInv, CursorBelow, OnScreen, Quiet
<1>3. CASE Quiet /\ pc' \in {"gates", "timer", "register", "clear", "count", "poll", "test",
                             "first", "put"}
  BY <1>1, <1>3 DEF InkInv, PutInv, CursorBelow, OnScreen, Quiet, AtScreen, Scrolling,
     PutPlaces
<1> QED BY <1>2, <1>3

LEMMA StartInk ==
  ASSUME RingInv, CursorInv, InkInv, Startup \/ Getc
  PROVE  InkInv'
<1>1. CASE VgaInit
  <2>1. x' = 0 /\ y' = 0 /\ ink' = {} /\ out' = Title /\ pc' = "title"
    BY <1>1 DEF VgaInit, Goes
  <2>2. Title \in Seq(Char \ {BS})
    BY TerminalAssumption
  <2> QED BY <2>1, <2>2, BelowFacts DEF InkInv, PutInv, CursorBelow, AtScreen
<1>2. CASE PrintTitle
  BY <1>2, TitleInk
<1>3. CASE GatesAndSti \/ TimerInit \/ RegisterHandler \/ ClearTail \/ ClearCount \/ Getc
  <2>1. UNCHANGED screen
    BY <1>3 DEF GatesAndSti, TimerInit, RegisterHandler, ClearTail, ClearCount, Getc, GetcLoads,
       GetcTests, GetcReturns
  <2>2. pc \in {"gates", "timer", "register", "clear", "count", "poll", "test", "first"}
    BY <1>3 DEF GatesAndSti, TimerInit, RegisterHandler, ClearTail, ClearCount, Getc, GetcLoads,
       GetcTests, GetcReturns, Goes
  <2>3. pc' \in {"timer", "register", "clear", "count", "poll", "test", "first", "put"}
    BY <1>3 DEF GatesAndSti, TimerInit, RegisterHandler, ClearTail, ClearCount, Getc, GetcLoads,
       GetcTests, GetcReturns, Goes
  <2>4. Quiet
    BY <2>2 DEF Quiet, PutPlaces
  <2> QED BY <2>1, <2>3, <2>4, QuietInk
<1>4. CASE ClearByte
  <2>1. UNCHANGED screen /\ pc' = pc /\ reg' = reg /\ out' = out
    BY <1>4 DEF ClearByte
  <2> QED BY <2>1, QuietInk
<1> QED BY <1>1, <1>2, <1>3, <1>4 DEF Startup, Getc

(* A step of vga_putc(): the ink stays but for the cell, and PutInv holds. *)
LEMMA PutInk ==
  ASSUME RingInv, CursorInv, InkInv, PutStep
  PROVE  InkInv'
<1> DEFINE To == PutPlaces \cup {"put"}
<1>0. /\ x \in Nat /\ y \in Nat /\ reg \in Nat
      /\ Rows \in Nat /\ Rows > 0 /\ Cols \in Nat /\ Cols > 0 /\ Below \in Nat
      /\ Rows - 1 \in Nat /\ Rows - 1 < Rows /\ Rows - 1 <= Rows
  BY BelowFacts DEF CursorInv
<1>1. ASSUME pc' \in To, ink' \subseteq Nat, \A p \in ink' : p < Below, PutInv'
      PROVE  InkInv'
  BY <1>1 DEF InkInv, Quiet, PutPlaces
<1>2. ink \subseteq Nat /\ (\A p \in ink : p < Below) /\ PutInv
  BY DEF InkInv
<1>3. ASSUME pc' \in To, UNCHANGED ink, PutInv' PROVE InkInv'
  BY <1>1, <1>2, <1>3
<1> HIDE DEF To
<1> USE DEF PutInv, CursorBelow, OnScreen, AtScreen, Goes, Scrolling
<1>4. CASE PutBranch
  <2>1. OnScreen
    BY <1>4 DEF PutBranch, CursorInv, CursorOnScreen, PutPlaces
  <2>2. /\ pc' \in {"cellRow", "nextRow", "tab", "wrap"} /\ x' \in {x, 0}
        /\ y' = y /\ ink' = ink /\ (pc' = "tab" => reg' = x)
    BY <1>4, TerminalAssumption DEF PutBranch
  <2>3. PutInv'
    <3>1. x' < Cols /\ y' < Rows
      BY <1>0, <2>1, <2>2
    <3>2. y' <= Rows
      BY <1>0, <2>1, <2>2
    <3> QED BY <1>0, <2>1, <2>2, <3>1, <3>2
  <2>4. pc' \in To
    BY <2>2 DEF To, PutPlaces
  <2> QED BY <1>3, <2>2, <2>3, <2>4
<1>5. CASE CellRow \/ NextRowLoads \/ StepLoads \/ WrapRowLoads
  <2>1. /\ UNCHANGED screen
        /\ pc' \in {"cellColumn", "row", "stepped", "wrapped"}
        /\ pc \in {"cellRow", "nextRow", "step", "wrapRow"}
        /\ pc' \in {"cellColumn", "row", "wrapped"} => reg' = y
        /\ pc' = "stepped" => reg' = x
    BY <1>5 DEF CellRow, NextRowLoads, StepLoads, WrapRowLoads, Keep
  <2>2. PutInv'
    BY <1>0, <1>2, <2>1 DEF screen
  <2>3. pc' \in To
    BY <2>1 DEF To, PutPlaces
  <2> QED BY <1>3, <2>1, <2>2, <2>3 DEF screen
<1>6. CASE CellColumn
  <2>1. /\ x' = x /\ y' = y /\ ink' = ink /\ pc = "cellColumn" /\ pc' = "cell"
        /\ reg' = reg * Cols + x
    BY <1>6 DEF CellColumn, Keep, screen
  <2>2. reg' < Below
    BY <1>0, <1>2, <2>1, BelowFacts
  <2>3. PutInv'
    BY <1>0, <1>2, <2>1, <2>2
  <2> QED BY <1>3, <2>1, <2>3 DEF To, PutPlaces
<1>7. CASE PutCell
  <2>1. x' = x /\ y' = y /\ pc = "cell" /\ pc' = "step" /\ ink' \subseteq ink \cup {reg}
    BY <1>7 DEF PutCell
  <2>2. PutInv'
    BY <1>0, <1>2, <2>1
  <2>3. ink' \subseteq Nat /\ \A p \in ink' : p < Below
    BY <1>0, <1>2, <2>1
  <2> QED BY <1>1, <2>1, <2>2, <2>3 DEF To, PutPlaces
<1>8. CASE StepStores
  <2>1. x' = reg + 1 /\ y' = y /\ ink' = ink /\ pc = "stepped" /\ pc' = "wrap"
    BY <1>8 DEF StepStores
  <2>2. PutInv'
    BY <1>0, <1>2, <2>1
  <2> QED BY <1>3, <2>1, <2>2 DEF To, PutPlaces
<1>9. CASE TabStores
  <2>1. x' = TabbedTo(reg) /\ y' = y /\ ink' = ink /\ pc = "tab" /\ pc' = "wrap"
    BY <1>9 DEF TabStores
  <2>2. x' \in Nat /\ x' <= reg + TabStop /\ TabStop \in Nat /\ TabStop <= Cols
    BY <1>0, <2>1, TabAhead, TerminalAssumption
  <2>3. x' < 2 * Cols /\ y < Rows
    BY <1>0, <1>2, <2>1, <2>2
  <2>4. PutInv'
    BY <2>1, <2>3
  <2> QED BY <1>3, <2>1, <2>4 DEF To, PutPlaces
<1>10. CASE NextRowStores \/ WrapRowStores
  <2>1. /\ x' = x /\ y' = reg + 1 /\ ink' = ink
        /\ pc \in {"row", "wrapped"} /\ pc' \in {"wrap", "scroll"}
    BY <1>10 DEF NextRowStores, WrapRowStores
  <2>2. y' <= Rows /\ x' < Cols
    BY <1>0, <1>2, <2>1
  <2>3. PutInv'
    BY <2>1, <2>2
  <2>4. pc' \in To
    BY <2>1 DEF To, PutPlaces
  <2> QED BY <1>3, <2>1, <2>3, <2>4
<1>11. CASE WrapTests
  <2>1. /\ x' = x /\ y' = y /\ ink' = ink /\ pc = "wrap" /\ pc' \in {"wrapping", "scroll"}
        /\ pc' = "wrapping" <=> x >= Cols
    BY <1>11 DEF WrapTests, Keep, screen
  <2>2. PutInv'
    BY <1>0, <1>2, <2>1
  <2>3. pc' \in To
    BY <2>1 DEF To, PutPlaces
  <2> QED BY <1>3, <2>1, <2>2, <2>3
<1>12. CASE WrapColumn
  <2>1. x' = 0 /\ y' = y /\ ink' = ink /\ pc = "wrapping" /\ pc' = "wrapRow"
    BY <1>12 DEF WrapColumn
  <2>2. PutInv'
    BY <1>0, <1>2, <2>1
  <2> QED BY <1>3, <2>1, <2>2 DEF To, PutPlaces
<1>13. CASE ScrollTests
  <2>1. UNCHANGED screen /\ pc = "scroll" /\ pc' \in {"copy", "put"}
    BY <1>13 DEF ScrollTests
  <2>2. PutInv'
    BY <1>2, <2>1 DEF screen
  <2>3. pc' \in To
    BY <2>1 DEF To, PutPlaces
  <2> QED BY <1>3, <2>1, <2>2, <2>3 DEF screen
<1>14. CASE CopyLoads
  <2>1. UNCHANGED screen /\ pc = "copy" /\ pc' \in {"inked", "blank"} /\ reg' = reg
        /\ reg < (Rows - 1) * Cols
    BY <1>14 DEF CopyLoads, Keep
  <2>2. reg < Below
    <3>1. (Rows - 1) * Cols = Row(Rows - 1) /\ Row(Rows - 1) \in Nat
      BY <1>0, RowFacts DEF Row
    <3>2. Row(Rows - 1) <= Below
      BY <1>0, RowFacts DEF Below
    <3> QED BY <1>0, <2>1, <3>1, <3>2
  <2>3. PutInv'
    BY <1>2, <2>1, <2>2 DEF screen
  <2>4. pc' \in To
    BY <2>1 DEF To, PutPlaces
  <2> QED BY <1>3, <2>1, <2>3, <2>4 DEF screen
<1>15. CASE CopyStores \/ BlankStores
  <2>1. /\ x' = x /\ y' = y /\ pc \in Scrolling /\ pc' = "copy" /\ ink' \subseteq ink \cup {reg}
        /\ pc = "copy" => ink' \subseteq ink
        /\ pc \in {"copy", "inked", "blank"}
    BY <1>15 DEF CopyStores, BlankStores
  <2>2. PutInv'
    BY <1>2, <2>1
  <2>3. ink' \subseteq Nat /\ \A p \in ink' : p < Below
    BY <1>0, <1>2, <2>1
  <2> QED BY <1>1, <2>1, <2>2, <2>3 DEF To, PutPlaces
<1>16. CASE ScrollClips
  <2>1. x' = x /\ y' = Rows - 1 /\ ink' = ink /\ pc = "copy" /\ pc' = "put"
    BY <1>16 DEF ScrollClips
  <2>2. PutInv'
    BY <1>0, <1>2, <2>1
  <2> QED BY <1>3, <2>1, <2>2 DEF To, PutPlaces
<1> QED BY <1>4, <1>5, <1>6, <1>7, <1>8, <1>9, <1>10, <1>11, <1>12, <1>13, <1>14, <1>15, <1>16
   DEF PutStep

(* For a screen of any size, any keys and any texts without a backspace,   *)
(* the cells behind the cursor are blank between the characters of the     *)
(* title and from there until init() begins its message, and no write at   *)
(* any time lands further down than the row below the screen               *)
(* (tty.c:36-41, vga.c:28-51, 88).                                         *)
THEOREM InkBeforeCursorHolds == Spec => []InkBeforeCursor
<1>1. Init => CursorInv /\ InkInv
  <2> SUFFICES ASSUME Init PROVE CursorInv /\ InkInv
    OBVIOUS
  <2>1. /\ pc = "boot" /\ x = 0 /\ y = 0 /\ reg = 0 /\ ink = 0..(Rows * Cols - 1)
    BY DEF Init
  <2>2. Row(Rows) \in Nat /\ Rows * Cols = Row(Rows) /\ Row(Rows + 1) = Row(Rows) + Cols
    BY RowFacts, SizesAreNat DEF Row
  <2>3. ink \subseteq Nat /\ \A p \in ink : p < Below
    BY <2>1, <2>2, SizesAreNat DEF Below
  <2>4. InkInv
    BY <2>1, <2>3, SizesAreNat DEF InkInv, PutInv, CursorBelow, OnScreen, AtScreen, Quiet
  <2>5. CursorInv
    BY <2>1, SizesAreNat DEF CursorInv, CursorOnScreen, Places, StartPlaces
  <2> QED BY <2>4, <2>5
<1>2. RingInv /\ CursorInv /\ InkInv /\ [Next]_vars => CursorInv' /\ InkInv'
  <2> SUFFICES ASSUME RingInv, CursorInv, InkInv, [Next]_vars PROVE CursorInv' /\ InkInv'
    OBVIOUS
  <2>1. CursorInv'
    BY CursorInductive
  <2>2. CASE KeyInterrupt
    BY <2>1, <2>2, EchoInk
  <2>3. CASE InitStep
    BY <2>1, <2>3, StartInk, PutInk DEF InitStep
  <2>4. CASE Spin \/ UNCHANGED vars
    <3>1. UNCHANGED screen /\ pc' = pc /\ reg' = reg /\ out' = out
      BY <2>4 DEF Spin, vars
    <3> QED BY <2>1, <3>1, QuietInk
  <2> QED BY <2>2, <2>3, <2>4 DEF Next
<1>3. InkInv => InkBeforeCursor
  BY DEF InkInv, InkBeforeCursor, Quiet, Below, Row
<1> QED BY <1>1, <1>2, <1>3, RingTypeCorrect, PTL DEF Spec

----------------------------------------------------------------------------

(* Induction, for a set instead of a property.                             *)
LEMMA SetInduction ==
  ASSUME NEW T, 0 \in T, \A n \in Nat : n \in T => n + 1 \in T
  PROVE  Nat \subseteq T
<1> SUFFICES ASSUME Nat \ T # {} PROVE FALSE
  OBVIOUS
<1> DEFINE R == {ss \in Nat \X Nat : ss[1] < ss[2]}
<1>1. IsWellFoundedOn(R, Nat)
  BY NatLessThanWellFounded DEF OpToRel
<1>2. \A z, w \in Nat : w < z => <<w, z>> \in R
  OBVIOUS
<1> HIDE DEF R
<1>3. PICK z \in Nat \ T : \A w \in Nat \ T : <<w, z>> \notin R
  BY <1>1, WFMin
<1>4. z # 0 /\ z - 1 \in Nat /\ z - 1 < z
  BY <1>3
<1>5. z - 1 \in T
  BY <1>2, <1>3, <1>4
<1>6. (z - 1) + 1 = z
  BY <1>3
<1> QED BY <1>3, <1>4, <1>5, <1>6

(* A function defined by what it is at zero and how each value follows     *)
(* from the one before.                                                    *)
Follows(f, z, g, n) == f[0] = z /\ \A k \in Nat : k < n => f[k + 1] = g[<<k, f[k]>>]

Stepping(S) == [Nat \X S -> S]

LEMMA FollowerExists ==
  ASSUME NEW S, NEW z \in S, NEW g \in [Nat \X S -> S]
  PROVE  \A n \in Nat : \E f \in [Nat -> S] : Follows(f, z, g, n)
<1> DEFINE T == {n \in Nat : \E f \in [Nat -> S] : Follows(f, z, g, n)}
<1>1. 0 \in T
  <2> DEFINE f == [k \in Nat |-> z]
  <2>1. f \in [Nat -> S] /\ f[0] = z
    OBVIOUS
  <2> HIDE DEF f
  <2>2. Follows(f, z, g, 0)
    BY <2>1 DEF Follows
  <2> QED BY <2>1, <2>2
<1>2. ASSUME NEW n \in Nat, n \in T PROVE n + 1 \in T
  <2>1. PICK f \in [Nat -> S] : Follows(f, z, g, n)
    BY <1>2
  <2>2. f[n] \in S /\ g[<<n, f[n]>>] \in S
    OBVIOUS
  <2> DEFINE h == [f EXCEPT ![n + 1] = g[<<n, f[n]>>]]
  <2>3. /\ h \in [Nat -> S] /\ h[n + 1] = g[<<n, f[n]>>]
        /\ \A k \in Nat : k # n + 1 => h[k] = f[k]
    BY <2>2
  <2> HIDE DEF h
  <2>4. h[0] = z
    BY <2>1, <2>3 DEF Follows
  <2>5. ASSUME NEW k \in Nat, k < n + 1 PROVE h[k + 1] = g[<<k, h[k]>>]
    <3>1. h[k] = f[k]
      BY <2>3, <2>5
    <3>2. CASE k = n
      BY <2>3, <3>1, <3>2
    <3>3. CASE k < n
      <4>1. h[k + 1] = f[k + 1]
        BY <2>3, <3>3
      <4> QED BY <2>1, <3>1, <3>3, <4>1 DEF Follows
    <3> QED BY <2>5, <3>2, <3>3
  <2>6. Follows(h, z, g, n + 1)
    BY <2>4, <2>5 DEF Follows
  <2> QED BY <2>3, <2>6
<1> HIDE DEF T
<1>3. Nat \subseteq T
  BY <1>1, <1>2, SetInduction
<1> QED BY <1>3 DEF T

LEMMA Recursion ==
  ASSUME NEW S, NEW z, z \in S, NEW g, g \in Stepping(S)
  PROVE  \E f \in [Nat -> S] : f[0] = z /\ \A n \in Nat : f[n + 1] = g[<<n, f[n]>>]
<1> g \in [Nat \X S -> S]
  BY DEF Stepping
<1> DEFINE of(n) == CHOOSE f : f \in [Nat -> S] /\ Follows(f, z, g, n)
           all == [n \in Nat |-> of(n)[n]]
<1>1. \A n \in Nat : of(n) \in [Nat -> S] /\ Follows(of(n), z, g, n)
  BY FollowerExists
<1> HIDE DEF of
<1>2. all \in [Nat -> S] /\ all[0] = z
  BY <1>1 DEF Follows
<1>3. ASSUME NEW n \in Nat PROVE all[n + 1] = g[<<n, all[n]>>]
  <2>1. Follows(of(n + 1), z, g, n)
    BY <1>1 DEF Follows
  <2>2. of(n + 1)[n] = of(n)[n]
    <3>1. PICK f \in [Nat -> S] : f = of(n + 1) /\ Follows(f, z, g, n)
      BY <1>1, <2>1
    <3>2. PICK h \in [Nat -> S] : h = of(n) /\ Follows(h, z, g, n)
      BY <1>1
    <3>3. f[n] = h[n]
      <4> DEFINE T == {i \in Nat : i <= n => f[i] = h[i]}
      <4>1. 0 \in T
        BY <3>1, <3>2 DEF Follows
      <4>2. ASSUME NEW i \in Nat, i \in T PROVE i + 1 \in T
        <5> SUFFICES ASSUME i + 1 <= n PROVE f[i + 1] = h[i + 1]
          OBVIOUS
        <5>1. i < n /\ i <= n
          OBVIOUS
        <5>2. f[i] = h[i]
          BY <4>2, <5>1
        <5> QED BY <3>1, <3>2, <5>1, <5>2 DEF Follows
      <4>3. Nat \subseteq T
        <5> HIDE DEF T
        <5> QED BY <4>1, <4>2, SetInduction
      <4> QED BY <4>3
    <3> QED BY <3>1, <3>2, <3>3
  <2>3. of(n + 1)[n + 1] = g[<<n, of(n + 1)[n]>>]
    BY <1>1 DEF Follows
  <2> QED BY <2>2, <2>3
<1> HIDE DEF all
<1>4. all \in [Nat -> S]
  BY <1>2
<1> WITNESS all \in [Nat -> S]
<1> QED BY <1>2, <1>3

----------------------------------------------------------------------------
(* A copy.  c holds the memory after each round.                           *)
IsCopy(D, B, m, n, from, to) ==
  m \in [D -> B] /\ n \in Nat /\ from \in [1..n -> D] /\ to \in [1..n -> D]

Steps(c, m, n, from, to) ==
  /\ c[0] = m
  /\ \A i \in 1..n : c[i] = [c[i - 1] EXCEPT ![to[i]] = c[i - 1][from[i]]]

LEMMA StepsExist ==
  ASSUME NEW D, NEW B, NEW m, NEW n, NEW from, NEW to, IsCopy(D, B, m, n, from, to)
  PROVE  \E c : c = [i \in 0..n |-> c[i]] /\ Steps(c, m, n, from, to)
<1> m \in [D -> B] /\ n \in Nat /\ from \in [1..n -> D] /\ to \in [1..n -> D]
  BY DEF IsCopy
<1> DEFINE S == [D -> B]
           Copy(k, s) == [s EXCEPT ![to[k + 1]] = s[from[k + 1]]]
           g == [p \in Nat \X S |-> IF p[1] < n THEN Copy(p[1], p[2]) ELSE p[2]]
<1>1. ASSUME NEW k \in Nat, NEW s \in S, k < n PROVE Copy(k, s) \in S
  <2>1. k + 1 \in 1..n
    BY <1>1
  <2>2. to[k + 1] \in D /\ from[k + 1] \in D
    BY <2>1
  <2>3. s[from[k + 1]] \in B
    BY <2>2
  <2> QED BY <2>2, <2>3
<1>2. \A p \in Nat \X S : p[1] \in Nat /\ p[2] \in S
  OBVIOUS
<1>3. g \in [Nat \X S -> S]
  <2> HIDE DEF S, Copy
  <2>1. \A p \in Nat \X S : (IF p[1] < n THEN Copy(p[1], p[2]) ELSE p[2]) \in S
    BY <1>1, <1>2
  <2> QED BY <2>1
<1>4. \A k \in Nat, s \in S : k < n => g[<<k, s>>] = Copy(k, s)
  <2> HIDE DEF S, Copy
  <2> QED OBVIOUS
<1>5. m \in S
  OBVIOUS
<1> HIDE DEF g, S
<1>6. PICK f \in [Nat -> S] : f[0] = m /\ \A k \in Nat : f[k + 1] = g[<<k, f[k]>>]
  <2>1. g \in Stepping(S)
    BY <1>3 DEF Stepping
  <2> QED BY <1>5, <2>1, Recursion
<1> DEFINE c == [i \in 0..n |-> f[i]]
<1>7. c = [i \in 0..n |-> c[i]] /\ c[0] = m
  BY <1>6
<1>8. ASSUME NEW i \in 1..n PROVE c[i] = [c[i - 1] EXCEPT ![to[i]] = c[i - 1][from[i]]]
  <2>1. i - 1 \in Nat /\ i - 1 < n /\ (i - 1) + 1 = i /\ i \in 0..n /\ i - 1 \in 0..n
    OBVIOUS
  <2>2. f[i - 1] \in S
    BY <2>1, <1>6
  <2>3. f[(i - 1) + 1] = g[<<i - 1, f[i - 1]>>]
    BY <1>6, <2>1
  <2>4. g[<<i - 1, f[i - 1]>>] = Copy(i - 1, f[i - 1])
    BY <1>4, <2>1, <2>2
  <2> QED BY <2>1, <2>3, <2>4
<1> HIDE DEF c
<1> QED BY <1>7, <1>8 DEF Steps

LEMMA CopiedUnfolds ==
  ASSUME NEW D, NEW B, NEW m, NEW n, NEW from, NEW to, IsCopy(D, B, m, n, from, to)
  PROVE  \E c : Steps(c, m, n, from, to) /\ Copied(m, n, from, to) = c[n]
<1> m \in [D -> B] /\ n \in Nat /\ from \in [1..n -> D] /\ to \in [1..n -> D]
  BY DEF IsCopy
<1> DEFINE Rec(c) == [i \in 0..n |-> IF i = 0 THEN m
                                     ELSE [c[i - 1] EXCEPT ![to[i]] = c[i - 1][from[i]]]]
           a == CHOOSE c : c = Rec(c)
<1>1. PICK c : c = [i \in 0..n |-> c[i]] /\ Steps(c, m, n, from, to)
  BY StepsExist
<1>2. ASSUME NEW i \in 0..n PROVE \/ i = 0 /\ c[i] = m
                                  \/ i # 0 /\ c[i] = [c[i - 1] EXCEPT ![to[i]] = c[i - 1][from[i]]]
  <2>1. i = 0 \/ i \in 1..n
    OBVIOUS
  <2> QED BY <1>1, <2>1 DEF Steps
<1>3. c = Rec(c)
  <2> QED BY <1>1, <1>2
<1>4. a = Rec(a)
  <2> HIDE DEF Rec
  <2> QED BY <1>3
<1>5. Copied(m, n, from, to) = a[n]
  BY DEF Copied
<1> HIDE DEF a
<1>6. Steps(a, m, n, from, to)
  <2>1. 0 \in 0..n
    OBVIOUS
  <2>2. a[0] = m
    BY <1>4, <2>1
  <2>3. ASSUME NEW i \in 1..n PROVE a[i] = [a[i - 1] EXCEPT ![to[i]] = a[i - 1][from[i]]]
    <3>1. i \in 0..n /\ i # 0
      OBVIOUS
    <3> QED BY <1>4, <3>1
  <2> QED BY <2>2, <2>3 DEF Steps
<1> QED BY <1>5, <1>6

(* Copied bytes arrive if no round reads what an earlier one has written.  *)
LEMMA CopiedArrives ==
  ASSUME NEW D, NEW B, NEW m, NEW n, NEW from, NEW to, IsCopy(D, B, m, n, from, to),
         \A i, k \in 1..n : k < i => to[k] # to[i] /\ to[k] # from[i]
  PROVE  /\ Copied(m, n, from, to) \in [D -> B]
         /\ \A k \in 1..n : Copied(m, n, from, to)[to[k]] = m[from[k]]
         /\ \A a \in D : (\A k \in 1..n : to[k] # a) => Copied(m, n, from, to)[a] = m[a]
<1>1. PICK c : Steps(c, m, n, from, to) /\ Copied(m, n, from, to) = c[n]
  BY CopiedUnfolds
<1> m \in [D -> B] /\ n \in Nat /\ from \in [1..n -> D] /\ to \in [1..n -> D]
  BY DEF IsCopy
<1> DEFINE Arrived(i) ==
             /\ c[i] \in [D -> B]
             /\ \A k \in 1..n : k <= i => c[i][to[k]] = m[from[k]]
             /\ \A a \in D : (\A k \in 1..n : k <= i => to[k] # a) => c[i][a] = m[a]
           T == {i \in Nat : i <= n => Arrived(i)}
<1>2. 0 \in T
  <2>1. \A k \in 1..n : ~(k <= 0)
    OBVIOUS
  <2> QED BY <1>1, <2>1 DEF Steps
<1>3. ASSUME NEW j \in Nat, j \in T PROVE j + 1 \in T
  <2> SUFFICES ASSUME j + 1 <= n PROVE Arrived(j + 1)
    OBVIOUS
  <2> DEFINE i == j + 1
  <2>1. i \in 1..n /\ i - 1 = j /\ j <= n /\ (\A k \in 1..n : k <= i <=> k <= j \/ k = i)
    OBVIOUS
  <2>2. Arrived(j)
    BY <1>3, <2>1
  <2> HIDE DEF i
  <2>3. to[i] \in D /\ from[i] \in D
    BY <2>1
  <2>4. c[j][from[i]] = m[from[i]]
    <3>1. \A k \in 1..n : k <= j => to[k] # from[i]
      BY <2>1 DEF i
    <3> QED BY <2>2, <2>3, <3>1
  <2>5. c[i] = [c[j] EXCEPT ![to[i]] = c[j][from[i]]]
    BY <1>1, <2>1 DEF Steps
  <2>6. c[i] \in [D -> B] /\ c[i][to[i]] = m[from[i]] /\ \A a \in D : a # to[i] => c[i][a] = c[j][a]
    <3>1. m[from[i]] \in B
      BY <2>3
    <3> QED BY <2>2, <2>3, <2>4, <2>5, <3>1
  <2>7. ASSUME NEW k \in 1..n, k <= i PROVE c[i][to[k]] = m[from[k]]
    <3>1. CASE k = i
      BY <2>6, <3>1
    <3>2. CASE k <= j
      <4>1. to[k] # to[i] /\ to[k] \in D
        BY <2>1, <3>2 DEF i
      <4> QED BY <2>2, <2>6, <3>2, <4>1
    <3> QED BY <2>1, <2>7, <3>1, <3>2
  <2>8. ASSUME NEW a \in D, \A k \in 1..n : k <= i => to[k] # a PROVE c[i][a] = m[a]
    <3>1. a # to[i] /\ \A k \in 1..n : k <= j => to[k] # a
      BY <2>1, <2>8 DEF i
    <3> QED BY <2>2, <2>6, <3>1
  <2>9. Arrived(i)
    BY <2>6, <2>7, <2>8
  <2> QED BY <2>9 DEF i
<1>4. Arrived(n)
  <2>1. Nat \subseteq T
    <3> HIDE DEF T
    <3> QED BY <1>2, <1>3, SetInduction
  <2> QED BY <2>1
<1>5. \A k \in 1..n : k <= n
  OBVIOUS
<1> QED BY <1>1, <1>4, <1>5

LEMMA LeastNat ==
  ASSUME NEW T, T \subseteq Nat, T # {}
  PROVE  \E z \in T : \A w \in T : z <= w
<1> DEFINE R == {ss \in Nat \X Nat : ss[1] < ss[2]}
<1>1. IsWellFoundedOn(R, Nat)
  BY NatLessThanWellFounded DEF OpToRel
<1>2. \A z, w \in Nat : w < z => <<w, z>> \in R
  OBVIOUS
<1> HIDE DEF R
<1>3. PICK z \in T : \A w \in T : <<w, z>> \notin R
  BY <1>1, WFMin
<1>4. ASSUME NEW w \in T PROVE z <= w
  <2>1. z \in Nat /\ w \in Nat
    OBVIOUS
  <2>2. ~(w < z)
    BY <1>2, <1>3, <2>1
  <2> QED BY <2>1, <2>2
<1> QED BY <1>4

----------------------------------------------------------------------------
(* Rounds returns the first stop, or the limit.                            *)
StopsAt(limit, stops, i, r) ==
  /\ r \in i..limit
  /\ r = limit \/ r \in stops
  /\ \A j \in i..limit : j < r => j \notin stops

LEMMA StopsOnce ==
  ASSUME NEW limit \in Nat, NEW stops, NEW i \in Nat,
         NEW r, StopsAt(limit, stops, i, r), NEW q, StopsAt(limit, stops, i, q)
  PROVE  r = q
<1>1. r \in i..limit /\ q \in i..limit /\ r \in Int /\ q \in Int
  BY DEF StopsAt
<1>2. ~(r < q) /\ ~(q < r)
  BY <1>1 DEF StopsAt
<1> QED BY <1>1, <1>2

LEMMA StopExists ==
  ASSUME NEW limit \in Nat, NEW stops, NEW i \in 0..limit
  PROVE  \E r : StopsAt(limit, stops, i, r)
<1> DEFINE T == {r \in i..limit : r = limit \/ r \in stops}
<1>1. T \subseteq Nat /\ limit \in T
  OBVIOUS
<1>2. PICK r \in T : \A w \in T : r <= w
  <2> HIDE DEF T
  <2> QED BY <1>1, LeastNat
<1>3. \A j \in i..limit : j < r => j \notin stops
  BY <1>2
<1> QED BY <1>2, <1>3 DEF StopsAt

LEMMA StopsHereOrLater ==
  ASSUME NEW limit \in Nat, NEW stops, NEW i \in 0..limit, NEW r
  PROVE  /\ i = limit \/ i \in stops => StopsAt(limit, stops, i, i)
         /\ ~(i = limit \/ i \in stops) =>
              i + 1 \in 0..limit /\ (StopsAt(limit, stops, i + 1, r) => StopsAt(limit, stops, i, r))
BY DEF StopsAt

LEMMA RoundsStop ==
  ASSUME NEW limit \in Nat, NEW stops
  PROVE  StopsAt(limit, stops, 0, Rounds(limit, stops))
<1> DEFINE Ends(i) == i = limit \/ i \in stops
           Rec(w) == [i \in 0..limit |-> IF Ends(i) THEN i ELSE w[i + 1]]
           First(i) == CHOOSE r : StopsAt(limit, stops, i, r)
           f == [i \in 0..limit |-> First(i)]
           walk == CHOOSE w : w = Rec(w)
<1>1. \A i \in 0..limit : StopsAt(limit, stops, i, First(i))
  BY StopExists
<1>2. ASSUME NEW i \in 0..limit PROVE f[i] = IF Ends(i) THEN i ELSE f[i + 1]
  <2> HIDE DEF First
  <2>1. CASE Ends(i)
    <3>1. StopsAt(limit, stops, i, i) /\ StopsAt(limit, stops, i, First(i))
      BY <1>1, <2>1, StopsHereOrLater
    <3> QED BY <2>1, <3>1, StopsOnce
  <2>2. CASE ~Ends(i)
    <3>1. i + 1 \in 0..limit
      BY <2>2
    <3>2. StopsAt(limit, stops, i, First(i + 1)) /\ StopsAt(limit, stops, i, First(i))
      BY <1>1, <2>2, <3>1, StopsHereOrLater
    <3>3. First(i) = First(i + 1)
      BY <3>2, StopsOnce
    <3> QED BY <2>2, <3>1, <3>3
  <2> QED BY <2>1, <2>2
<1>3. f = Rec(f)
  <2> HIDE DEF Ends, First
  <2> QED BY <1>2
<1>4. walk = Rec(walk)
  <2> HIDE DEF Rec, f
  <2> QED BY <1>3
<1>5. Rounds(limit, stops) = walk[0]
  BY DEF Rounds
<1> HIDE DEF walk
<1>6. \A i \in 0..limit : walk[i] = IF Ends(i) THEN i ELSE walk[i + 1]
  <2> HIDE DEF Ends
  <2> QED BY <1>4
<1> DEFINE T == {k \in Nat : k <= limit => StopsAt(limit, stops, limit - k, walk[limit - k])}
<1>7. 0 \in T
  <2>1. limit - 0 = limit /\ limit \in 0..limit
    OBVIOUS
  <2>2. walk[limit] = limit
    BY <1>6, <2>1
  <2> QED BY <2>1, <2>2, StopsHereOrLater
<1>8. ASSUME NEW k \in Nat, k \in T PROVE k + 1 \in T
  <2> SUFFICES ASSUME k + 1 <= limit
               PROVE StopsAt(limit, stops, limit - (k + 1), walk[limit - (k + 1)])
    OBVIOUS
  <2> DEFINE i == limit - (k + 1)
  <2>1. i \in 0..limit /\ i + 1 = limit - k /\ k <= limit
    OBVIOUS
  <2>2. StopsAt(limit, stops, i + 1, walk[i + 1])
    BY <1>8, <2>1
  <2> HIDE DEF i
  <2>3. walk[i] = IF Ends(i) THEN i ELSE walk[i + 1]
    BY <1>6, <2>1
  <2>4. StopsAt(limit, stops, i, walk[i])
    <3>1. CASE Ends(i)
      BY <2>1, <2>3, <3>1, StopsHereOrLater
    <3>2. CASE ~Ends(i)
      BY <2>1, <2>2, <2>3, <3>2, StopsHereOrLater
    <3> QED BY <3>1, <3>2
  <2> QED BY <2>4 DEF i
<1>9. StopsAt(limit, stops, limit - limit, walk[limit - limit])
  <2>1. Nat \subseteq T
    <3> HIDE DEF T
    <3> QED BY <1>7, <1>8, SetInduction
  <2> QED BY <2>1
<1> QED BY <1>5, <1>9

----------------------------------------------------------------------------
(* A memory of M bytes, and the strings in it.                             *)
IsMemory(m, M) == M \in Nat /\ m \in [0..(M - 1) -> Nat]
EndsAt(m, M, s, e) == e \in s..(M - 1) /\ m[e] = 0 /\ \A b \in s..(e - 1) : m[b] # 0

LEMMA RoomIs ==
  ASSUME NEW m, NEW M, IsMemory(m, M), NEW s \in 0..(M - 1)
  PROVE  Room(m, s) = M - s
<1>1. M \in Nat /\ DOMAIN m = 0..(M - 1)
  BY DEF IsMemory
<1>2. {a \in DOMAIN m : a >= s} = s..(M - 1)
  BY <1>1
<1>3. s \in Int /\ M - 1 \in Int /\ ~(s > M - 1) /\ (M - 1) - s + 1 = M - s
  BY <1>1
<1>4. Cardinality(s..(M - 1)) = (M - 1) - s + 1
  BY <1>3, FS_Interval
<1> QED BY <1>2, <1>3, <1>4 DEF Room

LEMMA EndIs ==
  ASSUME NEW m, NEW M, IsMemory(m, M), NEW s \in Nat, NEW e, EndsAt(m, M, s, e)
  PROVE  IsString(m, s) /\ EndOf(m, s) = e
<1>1. M \in Nat /\ DOMAIN m = 0..(M - 1)
  BY DEF IsMemory
<1>2. e \in DOMAIN m /\ e >= s /\ m[e] = 0 /\ \A b \in s..(e - 1) : m[b] # 0
  BY <1>1 DEF EndsAt
<1>3. ASSUME NEW a \in DOMAIN m, a >= s, m[a] = 0, \A b \in s..(a - 1) : m[b] # 0 PROVE a = e
  <2>1. a \in Int /\ e \in Int
    BY <1>1, <1>2
  <2>2. ~(a < e) /\ ~(e < a)
    BY <1>2, <1>3, <2>1
  <2> QED BY <2>1, <2>2
<1> QED BY <1>2, <1>3 DEF IsString, EndOf

LEMMA StringEnds ==
  ASSUME NEW m, NEW M, IsMemory(m, M), NEW s \in Nat, IsString(m, s)
  PROVE  EndsAt(m, M, s, EndOf(m, s))
<1>1. M \in Nat /\ DOMAIN m = 0..(M - 1)
  BY DEF IsMemory
<1> DEFINE T == {a \in s..(M - 1) : m[a] = 0}
<1>2. T # {} /\ T \subseteq Nat
  BY <1>1 DEF IsString
<1>3. PICK e \in T : \A a \in T : e <= a
  <2> HIDE DEF T
  <2> QED BY <1>2, LeastNat
<1>4. ASSUME NEW b \in s..(e - 1) PROVE m[b] # 0
  <2>1. b \in s..(M - 1) /\ ~(e <= b)
    BY <1>1, <1>3
  <2> QED BY <1>3, <2>1
<1>5. EndsAt(m, M, s, e)
  BY <1>3, <1>4 DEF EndsAt
<1> QED BY <1>5, EndIs

(* A loop that looks for the terminating zero for at most n rounds.        *)
LEMMA ZeroFound ==
  ASSUME NEW m, NEW M, IsMemory(m, M), NEW s \in Nat, IsString(m, s),
         NEW n \in Nat, s + n <= M
  PROVE  Rounds(n, Zeros(m, s, n)) = Lesser(n, EndOf(m, s) - s)
<1> DEFINE e == EndOf(m, s)
           stops == Zeros(m, s, n)
           r == Rounds(n, stops)
<1>1. M \in Nat /\ e \in s..(M - 1) /\ m[e] = 0 /\ \A b \in s..(e - 1) : m[b] # 0
  <2>1. EndsAt(m, M, s, e)
    BY StringEnds
  <2> QED BY <2>1 DEF EndsAt, IsMemory
<1>2. StopsAt(n, stops, 0, r)
  BY RoundsStop
<1> HIDE DEF e, r
<1>3. \A j \in 0..(n - 1) : j \in stops <=> m[s + j] = 0
  BY DEF Zeros
<1>4. StopsAt(n, stops, 0, Lesser(n, e - s))
  <2>1. CASE n <= e - s
    <3>1. Lesser(n, e - s) = n
      BY <1>1, <2>1 DEF Lesser
    <3>2. ASSUME NEW j \in 0..n, j < n PROVE j \notin stops
      <4>1. j \in 0..(n - 1) /\ s + j \in s..(e - 1)
        BY <1>1, <2>1, <3>2
      <4> QED BY <1>1, <1>3, <4>1
    <3> QED BY <3>1, <3>2 DEF StopsAt
  <2>2. CASE ~(n <= e - s)
    <3>1. Lesser(n, e - s) = e - s /\ e - s \in 0..(n - 1) /\ s + (e - s) = e
      BY <1>1, <2>2 DEF Lesser
    <3>2. e - s \in stops
      BY <1>1, <1>3, <3>1
    <3>3. ASSUME NEW j \in 0..n, j < e - s PROVE j \notin stops
      <4>1. j \in 0..(n - 1) /\ s + j \in s..(e - 1)
        BY <1>1, <3>1, <3>3
      <4> QED BY <1>1, <1>3, <4>1
    <3> HIDE DEF stops
    <3> QED BY <3>1, <3>2, <3>3 DEF StopsAt
  <2> QED BY <2>1, <2>2
<1>5. r = Lesser(n, e - s)
  BY <1>2, <1>4, StopsOnce
<1> QED BY <1>5 DEF r, e

LEMMA StrlenIs ==
  ASSUME NEW m, NEW M, IsMemory(m, M), NEW s \in 0..(M - 1), IsString(m, s)
  PROVE  Strlen(m, s) = EndOf(m, s) - s /\ Strlen(m, s) \in Nat /\ s + Strlen(m, s) < M
<1>1. M \in Nat /\ EndOf(m, s) \in s..(M - 1) /\ s \in Nat
  <2>1. M \in Nat /\ s \in Nat
    BY DEF IsMemory
  <2>2. EndsAt(m, M, s, EndOf(m, s))
    BY <2>1, StringEnds
  <2> QED BY <2>1, <2>2 DEF EndsAt
<1>2. Room(m, s) = M - s
  BY RoomIs
<1>3. Strlen(m, s) = Lesser(M - s, EndOf(m, s) - s)
  <2>1. M - s \in Nat /\ s + (M - s) <= M
    BY <1>1
  <2> QED BY <1>1, <1>2, <2>1, ZeroFound DEF Strlen
<1> QED BY <1>1, <1>3 DEF Lesser

(* after differs from m by the n bytes at dest, which are those at src.     *)
Transfers(m, M, after, dest, src, n) ==
  /\ IsMemory(after, M)
  /\ \A k \in 0..(n - 1) : after[dest + k] = m[src + k]
  /\ \A a \in 0..(M - 1) : a < dest \/ a >= dest + n => after[a] = m[a]

(* Regions that run the same way do not overlap in the wrong place.        *)
LEMMA StraightCopy ==
  ASSUME NEW m, NEW M, IsMemory(m, M), NEW dest \in Nat, NEW src \in Nat, NEW n \in Nat,
         dest + n <= M, src + n <= M, ~(src < dest /\ src + n > dest)
  PROVE  Transfers(m, M, Copied(m, n, Upward(src, n), Upward(dest, n)), dest, src, n)
<1> DEFINE D == 0..(M - 1)
           from == Upward(src, n)
           to == Upward(dest, n)
           after == Copied(m, n, from, to)
<1>1. M \in Nat /\ m \in [D -> Nat]
  BY DEF IsMemory
<1>2. \A i \in 1..n : from[i] = src + i - 1 /\ to[i] = dest + i - 1
  BY DEF Upward
<1>3. \A i \in 1..n : src + i - 1 \in D /\ dest + i - 1 \in D
  BY <1>1
<1>4. IsCopy(D, Nat, m, n, from, to)
  BY <1>1, <1>3 DEF IsCopy, Upward
<1> HIDE DEF D, from, to
<1>5. \A i, k \in 1..n : k < i => to[k] # to[i] /\ to[k] # from[i]
  BY <1>2
<1>6. /\ after \in [D -> Nat]
      /\ \A k \in 1..n : after[to[k]] = m[from[k]]
      /\ \A a \in D : (\A k \in 1..n : to[k] # a) => after[a] = m[a]
  BY <1>4, <1>5, CopiedArrives
<1> HIDE DEF after
<1>7. ASSUME NEW k \in 0..(n - 1) PROVE after[dest + k] = m[src + k]
  <2>1. k + 1 \in 1..n /\ dest + (k + 1) - 1 = dest + k /\ src + (k + 1) - 1 = src + k
    OBVIOUS
  <2>2. after[to[k + 1]] = m[from[k + 1]]
    BY <1>6, <2>1
  <2> QED BY <1>2, <2>1, <2>2
<1>8. ASSUME NEW a \in D, a < dest \/ a >= dest + n PROVE after[a] = m[a]
  <2>1. ASSUME NEW k \in 1..n PROVE to[k] # a
    <3>1. a \in Int
      BY <1>1 DEF D
    <3>2. dest + k - 1 # a
      BY <1>8, <3>1
    <3> QED BY <1>2, <3>2
  <2> QED BY <1>6, <2>1
<1>9. IsMemory(after, M)
  BY <1>1, <1>6 DEF IsMemory, D
<1>10. Transfers(m, M, after, dest, src, n)
  BY <1>7, <1>8, <1>9 DEF Transfers, D
<1> QED BY <1>10 DEF after, from, to

LEMMA MemmoveIs ==
  ASSUME NEW m, NEW M, IsMemory(m, M), NEW dest \in Nat, NEW src \in Nat, NEW n \in Nat,
         dest + n <= M, src + n <= M
  PROVE  MemmoveMeets(m, dest, src, n)
<1> SUFFICES ASSUME ~(src < dest /\ src + n > dest)
             PROVE  LET after == Memcpy(m, dest, src, n)
                    IN  /\ Region(after, dest, n) = Region(m, src, n)
                        /\ Elsewhere(m, after, dest, n)
  BY DEF MemmoveMeets
<1> DEFINE after == Copied(m, n, Upward(src, n), Upward(dest, n))
<1>1. Memcpy(m, dest, src, n) = after
  BY DEF Memcpy, Memmove
<1>2. Transfers(m, M, after, dest, src, n)
  BY StraightCopy
<1> HIDE DEF after
<1>3. Region(after, dest, n) = Region(m, src, n)
  BY <1>2 DEF Region, Transfers
<1>4. Elsewhere(m, after, dest, n)
  <2>1. M \in Nat /\ DOMAIN m = 0..(M - 1)
    BY DEF IsMemory
  <2>2. \A a \in (0..(M - 1)) \ (dest..(dest + n - 1)) : a < dest \/ a >= dest + n
    BY <2>1
  <2> QED BY <1>2, <2>1, <2>2 DEF Elsewhere, Transfers
<1> QED BY <1>1, <1>3, <1>4

LEMMA StrcpyIs ==
  ASSUME NEW m, NEW M, IsMemory(m, M), NEW dest \in 0..(M - 1), NEW src \in 0..(M - 1),
         IsString(m, src),
         LET len == EndOf(m, src) - src
         IN  dest + len < src \/ (dest > src + len /\ dest + len < M)
  PROVE  /\ StringAt(Strcpy(m, dest, src), dest) = StringAt(m, src)
         /\ Elsewhere(m, Strcpy(m, dest, src), dest, EndOf(m, src) - src + 1)
<1> DEFINE e == EndOf(m, src)
           len == e - src
           n == len + 1
           after == Copied(m, n, Upward(src, n), Upward(dest, n))
<1>1. /\ M \in Nat /\ DOMAIN m = 0..(M - 1) /\ src \in Nat /\ dest \in Nat
  BY DEF IsMemory
<1>2. EndsAt(m, M, src, e)
  BY <1>1, StringEnds
<1>3. e \in src..(M - 1) /\ m[e] = 0 /\ \A b \in src..(e - 1) : m[b] # 0
  BY <1>2 DEF EndsAt
<1>4. Strlen(m, src) = len
  BY StrlenIs
<1>5. Strcpy(m, dest, src) = after
  BY <1>4 DEF Strcpy
<1>6. dest + len < src \/ (dest > src + len /\ dest + len < M)
  OBVIOUS
<1> HIDE DEF e
<1>7. len \in Nat /\ n \in Nat /\ dest + n <= M /\ src + n <= M /\ ~(src < dest /\ src + n > dest)
  BY <1>1, <1>3, <1>6
<1>8. src + len = e /\ n = len + 1
  BY <1>1, <1>3
<1> HIDE DEF len, n
<1>9. Transfers(m, M, after, dest, src, n)
  BY <1>1, <1>7, StraightCopy
<1> HIDE DEF after
<1>10. /\ IsMemory(after, M)
       /\ \A k \in 0..(n - 1) : after[dest + k] = m[src + k]
       /\ \A a \in 0..(M - 1) : a < dest \/ a >= dest + n => after[a] = m[a]
  BY <1>9 DEF Transfers
<1>11. EndsAt(after, M, dest, dest + len)
  <2>1. after[dest + len] = m[src + len]
    BY <1>7, <1>10, <1>8
  <2>2. ASSUME NEW b \in dest..(dest + len - 1) PROVE after[b] # 0
    <3>1. b - dest \in 0..(n - 1) /\ dest + (b - dest) = b /\ src + (b - dest) \in src..(e - 1)
      BY <1>1, <1>3, <1>7, <1>8
    <3>2. after[dest + (b - dest)] = m[src + (b - dest)]
      BY <1>10, <3>1
    <3> QED BY <1>3, <3>1, <3>2
  <2>3. dest + len \in dest..(M - 1)
    BY <1>1, <1>7, <1>8
  <2>4. after[dest + len] = 0
    BY <1>3, <1>8, <2>1
  <2> QED BY <1>1, <1>7, <2>2, <2>3, <2>4 DEF EndsAt
<1>12. EndOf(after, dest) = dest + len
  BY <1>1, <1>10, <1>11, EndIs
<1>13. StringAt(after, dest) = StringAt(m, src)
  <2>1. (dest + len) - dest = len /\ \A k \in 0..(len - 1) : k \in 0..(n - 1)
    BY <1>1, <1>7, <1>8
  <2>2. Region(after, dest, len) = Region(m, src, len)
    BY <1>10, <2>1 DEF Region
  <2> QED BY <1>12, <2>1, <2>2 DEF StringAt, e, len
<1>14. Elsewhere(m, after, dest, n)
  <2>1. \A a \in (0..(M - 1)) \ (dest..(dest + n - 1)) : a < dest \/ a >= dest + n
    BY <1>1, <1>7
  <2> QED BY <1>1, <1>10, <2>1 DEF Elsewhere
<1> QED BY <1>5, <1>13, <1>14 DEF e, len, n, after

LEMMA StrncpyIs ==
  ASSUME NEW m, NEW M, IsMemory(m, M), NEW dest \in 0..(M - 1), NEW src \in 0..(M - 1),
         IsString(m, src), NEW n \in Nat, dest + n <= M,
         dest + n <= src \/ dest > EndOf(m, src)
  PROVE  LET len == EndOf(m, src) - src
         IN  /\ Region(Strncpy(m, dest, src, n), dest, n)
                  = [i \in 0..(n - 1) |-> IF i < len THEN m[src + i] ELSE 0]
             /\ Elsewhere(m, Strncpy(m, dest, src, n), dest, n)
<1> DEFINE D == 0..(M - 1)
           e == EndOf(m, src)
           len == e - src
           At(i) == src + (IF i - 1 < len THEN i - 1 ELSE len)
           from == [i \in 1..n |-> At(i)]
           to == Upward(dest, n)
           after == Copied(m, n, from, to)
<1>1. M \in Nat /\ m \in [D -> Nat] /\ src \in Nat /\ dest \in Nat
  BY DEF IsMemory
<1>2. EndsAt(m, M, src, e)
  BY <1>1, StringEnds
<1>3. e \in src..(M - 1) /\ m[e] = 0
  BY <1>2 DEF EndsAt
<1>4. Strlen(m, src) = len
  BY StrlenIs
<1>5. Strncpy(m, dest, src, n) = after
  BY <1>4 DEF Strncpy
<1>6. dest + n <= src \/ dest > e
  OBVIOUS
<1> HIDE DEF e
<1>7. len \in Nat /\ src + len = e
  BY <1>1, <1>3
<1> HIDE DEF len
<1>8. \A i \in 1..n : At(i) \in src..e /\ At(i) \in D /\ dest + i - 1 \in D
  BY <1>1, <1>3, <1>7
<1>9. \A i \in 1..n : from[i] = At(i) /\ to[i] = dest + i - 1
  BY DEF Upward
<1>10. IsCopy(D, Nat, m, n, from, to)
  <2>1. from \in [1..n -> D] /\ to \in [1..n -> D]
    <3> HIDE DEF At, D
    <3> QED BY <1>8 DEF Upward
  <2> HIDE DEF D, from, to
  <2> QED BY <1>1, <2>1 DEF IsCopy
<1> HIDE DEF D, from, to
<1>11. \A i, k \in 1..n : k < i => to[k] # to[i] /\ to[k] # from[i]
  <2> SUFFICES ASSUME NEW i \in 1..n, NEW k \in 1..n, k < i
               PROVE  to[k] # to[i] /\ to[k] # from[i]
    OBVIOUS
  <2>1. At(i) \in src..e
    BY <1>8
  <2> HIDE DEF At
  <2>2. dest + k - 1 # dest + i - 1 /\ dest + k - 1 # At(i)
    BY <1>1, <1>3, <1>6, <2>1
  <2> QED BY <1>9, <2>2
<1>12. /\ \A k \in 1..n : after[to[k]] = m[from[k]]
       /\ \A a \in D : (\A k \in 1..n : to[k] # a) => after[a] = m[a]
  BY <1>10, <1>11, CopiedArrives
<1> HIDE DEF after
<1>13. ASSUME NEW i \in 0..(n - 1) PROVE after[dest + i] = IF i < len THEN m[src + i] ELSE 0
  <2>1. i \in Int /\ i + 1 \in 1..n /\ (i + 1) - 1 = i /\ dest + (i + 1) - 1 = dest + i
    BY <1>1
  <2>2. At(i + 1) = IF i < len THEN src + i ELSE e
    BY <1>7, <2>1
  <2> HIDE DEF At
  <2>3. after[to[i + 1]] = m[from[i + 1]] /\ from[i + 1] = At(i + 1) /\ to[i + 1] = dest + i
    BY <1>9, <1>12, <2>1
  <2> QED BY <1>3, <2>2, <2>3
<1>14. Elsewhere(m, after, dest, n)
  <2>1. ASSUME NEW a \in D \ (dest..(dest + n - 1)) PROVE after[a] = m[a]
    <3>1. \A k \in 1..n : dest + k - 1 \in dest..(dest + n - 1)
      BY <1>1
    <3>2. \A k \in 1..n : to[k] # a
      BY <1>9, <3>1
    <3> QED BY <1>12, <3>2
  <2>2. DOMAIN m = D
    BY <1>1
  <2> QED BY <2>1, <2>2 DEF Elsewhere
<1>15. Region(after, dest, n) = [i \in 0..(n - 1) |-> IF i < len THEN m[src + i] ELSE 0]
  BY <1>13 DEF Region
<1> QED BY <1>5, <1>14, <1>15 DEF len, e

LEMMA StrlcpyIs ==
  ASSUME NEW m, NEW M, IsMemory(m, M), NEW dest \in 0..(M - 1), NEW src \in 0..(M - 1),
         IsString(m, src), NEW n \in Nat, n > 0, dest + n <= M, src + n <= M,
         dest + n <= src \/ dest > EndOf(m, src)
  PROVE  LET cut == Strlcpy(m, dest, src, n)
             k == Lesser(EndOf(m, src) - src, n - 1)
         IN  /\ StringAt(cut.mem, dest) = Region(m, src, k)
             /\ Elsewhere(m, cut.mem, dest, k + 1)
<1> DEFINE e == EndOf(m, src)
           k == Lesser(e - src, n - 1)
           copy == Copied(m, k, Upward(src, k), Upward(dest, k))
           mem == [copy EXCEPT ![dest + k] = 0]
           cut == Strlcpy(m, dest, src, n)
<1>1. M \in Nat /\ DOMAIN m = 0..(M - 1) /\ src \in Nat /\ dest \in Nat
  BY DEF IsMemory
<1>2. EndsAt(m, M, src, e)
  BY <1>1, StringEnds
<1>3. e \in src..(M - 1) /\ \A b \in src..(e - 1) : m[b] # 0
  BY <1>2 DEF EndsAt
<1>4. Rounds(n - 1, Zeros(m, src, n - 1)) = Lesser(n - 1, e - src)
  <2>1. n - 1 \in Nat /\ src + (n - 1) <= M
    BY <1>1
  <2> QED BY <1>1, <2>1, ZeroFound
<1>5. Lesser(n - 1, e - src) = k
  BY <1>1, <1>3 DEF Lesser
<1>6. cut = [mem |-> mem, ret |-> -k]
  BY <1>4, <1>5 DEF Strlcpy
<1>7. dest + n <= src \/ dest > e
  OBVIOUS
<1> HIDE DEF e
<1>8. k \in Nat /\ k <= n - 1 /\ k <= e - src
  BY <1>1, <1>3 DEF Lesser
<1> HIDE DEF k
<1>9. dest + k <= M /\ src + k <= M /\ ~(src < dest /\ src + k > dest) /\ dest + k \in 0..(M - 1)
  BY <1>1, <1>3, <1>7, <1>8
<1>10. Transfers(m, M, copy, dest, src, k)
  BY <1>1, <1>8, <1>9, StraightCopy
<1> HIDE DEF copy
<1>11. /\ M \in Nat /\ copy \in [0..(M - 1) -> Nat]
       /\ \A i \in 0..(k - 1) : copy[dest + i] = m[src + i]
       /\ \A a \in 0..(M - 1) : a < dest \/ a >= dest + k => copy[a] = m[a]
  BY <1>10 DEF Transfers, IsMemory
<1>12. /\ mem \in [0..(M - 1) -> Nat] /\ mem[dest + k] = 0
       /\ \A a \in 0..(M - 1) : a # dest + k => mem[a] = copy[a]
  BY <1>9, <1>11
<1> HIDE DEF mem
<1>13. \A i \in 0..(k - 1) : mem[dest + i] = m[src + i]
  <2> SUFFICES ASSUME NEW i \in 0..(k - 1) PROVE mem[dest + i] = m[src + i]
    OBVIOUS
  <2>1. dest + i \in 0..(M - 1) /\ dest + i # dest + k
    BY <1>1, <1>8, <1>9
  <2> QED BY <1>11, <1>12, <2>1
<1>14. EndsAt(mem, M, dest, dest + k)
  <2>1. ASSUME NEW b \in dest..(dest + k - 1) PROVE mem[b] # 0
    <3>1. b - dest \in 0..(k - 1) /\ dest + (b - dest) = b /\ src + (b - dest) \in src..(e - 1)
      BY <1>1, <1>3, <1>8
    <3>2. mem[dest + (b - dest)] = m[src + (b - dest)]
      BY <1>13, <3>1
    <3> QED BY <1>3, <3>1, <3>2
  <2>2. dest + k \in dest..(M - 1)
    BY <1>1, <1>8, <1>9
  <2> QED BY <1>1, <1>8, <1>12, <2>1, <2>2 DEF EndsAt
<1>15. EndOf(mem, dest) = dest + k
  <2>1. IsMemory(mem, M)
    BY <1>11, <1>12 DEF IsMemory
  <2> QED BY <1>1, <1>14, <2>1, EndIs
<1>16. StringAt(mem, dest) = Region(m, src, k)
  <2>1. (dest + k) - dest = k
    BY <1>1, <1>8
  <2>2. Region(mem, dest, k) = Region(m, src, k)
    BY <1>13 DEF Region
  <2> QED BY <1>15, <2>1, <2>2 DEF StringAt
<1>17. Elsewhere(m, mem, dest, k + 1)
  <2>1. \A a \in (0..(M - 1)) \ (dest..(dest + (k + 1) - 1)) :
          a # dest + k /\ (a < dest \/ a >= dest + k)
    BY <1>1, <1>8
  <2> QED BY <1>1, <1>11, <1>12, <2>1 DEF Elsewhere
<1>18. cut.mem = mem
  BY <1>6
<1> HIDE DEF cut
<1> QED BY <1>16, <1>17, <1>18 DEF k, e, cut

----------------------------------------------------------------------------
(* The order of the dictionary, for two regions that agree up to the i-th  *)
(* byte, where one of them ends or they differ.                            *)
AgreeUpTo(m, s1, s2, a, b, i) ==
  /\ i \in Nat /\ i <= a /\ i <= b /\ \A j \in 0..(i - 1) : m[s1 + j] = m[s2 + j]
  /\ i = a \/ i = b \/ m[s1 + i] # m[s2 + i]

LEMMA Dictionary ==
  ASSUME NEW m, NEW M, IsMemory(m, M), NEW s1 \in Nat, NEW s2 \in Nat, NEW a \in Nat, NEW b \in Nat,
         s1 + a <= M, s2 + b <= M,
         NEW i, AgreeUpTo(m, s1, s2, a, b, i)
  PROVE  Before(Region(m, s1, a), Region(m, s2, b))
           <=> (i < b /\ (i = a \/ (i < a /\ m[s1 + i] < m[s2 + i])))
<1> DEFINE u == Region(m, s1, a)
           v == Region(m, s2, b)
<1> USE DEF AgreeUpTo
<1>1. M \in Nat /\ m \in [0..(M - 1) -> Nat]
  BY DEF IsMemory
<1>2. /\ DOMAIN u = 0..(a - 1) /\ \A j \in 0..(a - 1) : u[j] = m[s1 + j]
      /\ DOMAIN v = 0..(b - 1) /\ \A j \in 0..(b - 1) : v[j] = m[s2 + j]
  BY DEF Region
<1> HIDE DEF u, v
<1>3. /\ \A j \in 0..(a - 1) : u[j] \in Nat
      /\ \A j \in 0..(b - 1) : v[j] \in Nat
      /\ \A j \in 0..(i - 1) : u[j] = v[j] /\ j \in DOMAIN u /\ j \in DOMAIN v
      /\ i < a => u[i] = m[s1 + i] /\ i \in DOMAIN u
      /\ i < b => v[i] = m[s2 + i] /\ i \in DOMAIN v
  <2>1. \A j \in 0..(a - 1) : s1 + j \in 0..(M - 1)
    BY <1>1
  <2>2. \A j \in 0..(b - 1) : s2 + j \in 0..(M - 1)
    BY <1>1
  <2>3. \A j \in 0..(i - 1) : j \in 0..(a - 1) /\ j \in 0..(b - 1)
    OBVIOUS
  <2>4. (i < a => i \in 0..(a - 1)) /\ (i < b => i \in 0..(b - 1))
    OBVIOUS
  <2> QED BY <1>1, <1>2, <2>1, <2>2, <2>3, <2>4
<1>4. ASSUME i < b, i = a \/ (i < a /\ m[s1 + i] < m[s2 + i]) PROVE Before(u, v)
  <2>1. i \in DOMAIN v /\ (i \notin DOMAIN u \/ (i \in DOMAIN u /\ u[i] < v[i]))
    BY <1>2, <1>3, <1>4
  <2> QED BY <1>3, <2>1 DEF Before
<1>5. ASSUME Before(u, v) PROVE i < b /\ (i = a \/ (i < a /\ m[s1 + i] < m[s2 + i]))
  <2>1. PICK k \in DOMAIN v \cup {0} :
          /\ \A j \in 0..(k - 1) : j \in DOMAIN u /\ j \in DOMAIN v /\ u[j] = v[j]
          /\ k \in DOMAIN v /\ (k \notin DOMAIN u \/ (k \in DOMAIN u /\ u[k] < v[k]))
    BY <1>5 DEF Before
  <2>2. k \in 0..(b - 1) /\ k \in Int
    BY <1>2, <2>1
  <2>3. ~(k < i)
    <3> SUFFICES ASSUME k < i PROVE FALSE
      OBVIOUS
    <3>1. k \in 0..(i - 1)
      BY <2>2
    <3>2. k \in DOMAIN u /\ u[k] = v[k] /\ u[k] \in Nat
      BY <1>2, <1>3, <3>1
    <3> QED BY <2>1, <3>2
  <2>4. ~(i < k)
    <3> SUFFICES ASSUME i < k PROVE FALSE
      OBVIOUS
    <3>1. i \in 0..(k - 1)
      BY <2>2
    <3>2. i \in DOMAIN u /\ i \in DOMAIN v /\ u[i] = v[i]
      BY <2>1, <3>1
    <3>3. i < a /\ i < b
      BY <1>2, <3>2
    <3> QED BY <1>3, <3>2, <3>3
  <2>5. k = i
    BY <2>2, <2>3, <2>4
  <2> QED BY <1>2, <1>3, <2>1, <2>2, <2>5
<1> QED BY <1>4, <1>5 DEF u, v

(* What a comparison returns that stops at round i.                        *)
Decides(m, s1, s2, a, b, i, ret) ==
  /\ i \in Nat /\ i <= a /\ i <= b /\ \A j \in 0..(i - 1) : m[s1 + j] = m[s2 + j]
  /\ \/ i = a /\ i = b /\ ret = 0
     \/ i = a /\ i < b /\ ret < 0
     \/ i < a /\ i = b /\ ret > 0
     \/ i < a /\ i < b /\ m[s1 + i] # m[s2 + i] /\ ret = m[s1 + i] - m[s2 + i]

LEMMA DecidesAgrees ==
  ASSUME NEW m, NEW M, IsMemory(m, M), NEW s1 \in Nat, NEW s2 \in Nat, NEW a \in Nat, NEW b \in Nat,
         s1 + a <= M, s2 + b <= M, NEW i, NEW ret \in Int, Decides(m, s1, s2, a, b, i, ret)
  PROVE  Agrees(ret, Region(m, s1, a), Region(m, s2, b))
<1>1. M \in Nat /\ m \in [0..(M - 1) -> Nat]
  BY DEF IsMemory
<1>2. /\ i \in Nat /\ i <= a /\ i <= b
      /\ \A j \in 0..(i - 1) : m[s1 + j] = m[s2 + j]
      /\ i = a \/ i = b \/ m[s1 + i] # m[s2 + i]
  BY DEF Decides
<1>3. AgreeUpTo(m, s1, s2, a, b, i) /\ AgreeUpTo(m, s2, s1, b, a, i)
  BY <1>2 DEF AgreeUpTo
<1>4. Before(Region(m, s1, a), Region(m, s2, b))
        <=> (i < b /\ (i = a \/ (i < a /\ m[s1 + i] < m[s2 + i])))
  BY <1>3, Dictionary
<1>5. Before(Region(m, s2, b), Region(m, s1, a))
        <=> (i < a /\ (i = b \/ (i < b /\ m[s2 + i] < m[s1 + i])))
  BY <1>3, Dictionary
<1>6. (i < a => m[s1 + i] \in Nat) /\ (i < b => m[s2 + i] \in Nat)
  <2>1. (i < a => s1 + i \in 0..(M - 1)) /\ (i < b => s2 + i \in 0..(M - 1))
    BY <1>1, <1>2
  <2> QED BY <1>1, <2>1
<1>7. ret < 0 <=> (i < b /\ (i = a \/ (i < a /\ m[s1 + i] < m[s2 + i])))
  BY <1>2, <1>6 DEF Decides
<1>8. ret > 0 <=> (i < a /\ (i = b \/ (i < b /\ m[s2 + i] < m[s1 + i])))
  BY <1>2, <1>6 DEF Decides
<1> QED BY <1>4, <1>5, <1>7, <1>8 DEF Agrees

LEMMA MemcmpIs ==
  ASSUME NEW m, NEW M, IsMemory(m, M), NEW s1 \in Nat, NEW s2 \in Nat, NEW n \in Nat,
         s1 + n <= M, s2 + n <= M
  PROVE  Agrees(Memcmp(m, s1, s2, n), Region(m, s1, n), Region(m, s2, n))
<1> DEFINE stops == Differences(m, s1, s2, n)
           i == Rounds(n, stops)
           ret == Memcmp(m, s1, s2, n)
<1>1. M \in Nat /\ m \in [0..(M - 1) -> Nat]
  BY DEF IsMemory
<1>2. StopsAt(n, stops, 0, i)
  BY RoundsStop
<1>3. ret = IF i = n THEN 0 ELSE m[s1 + i] - m[s2 + i]
  BY DEF Memcmp
<1> HIDE DEF i, ret
<1>4. \A j \in 0..(n - 1) : j \in stops <=> m[s1 + j] # m[s2 + j]
  BY DEF Differences
<1> HIDE DEF stops
<1>5. i \in 0..n /\ (i = n \/ i \in stops) /\ \A j \in 0..n : j < i => j \notin stops
  BY <1>2 DEF StopsAt
<1>6. \A j \in 0..(i - 1) : m[s1 + j] = m[s2 + j]
  <2>1. \A j \in 0..(i - 1) : j \in 0..n /\ j < i /\ j \in 0..(n - 1)
    BY <1>5
  <2> QED BY <1>4, <1>5, <2>1
<1>7. i < n => m[s1 + i] # m[s2 + i] /\ m[s1 + i] \in Nat /\ m[s2 + i] \in Nat
  <2>1. i < n => i \in 0..(n - 1) /\ s1 + i \in 0..(M - 1) /\ s2 + i \in 0..(M - 1)
    BY <1>1, <1>5
  <2> QED BY <1>1, <1>4, <1>5, <2>1
<1>8. ret \in Int /\ Decides(m, s1, s2, n, n, i, ret)
  BY <1>3, <1>5, <1>6, <1>7 DEF Decides
<1> QED BY <1>8, DecidesAgrees DEF ret

(* What memset() leaves after i rounds.                                    *)
LEMMA MemsetIs ==
  ASSUME NEW m, NEW M, IsMemory(m, M), NEW s \in Nat, NEW n \in Nat, NEW c, s + n <= M
  PROVE  \A a \in 0..(M - 1) :
           Memset(m, s, c, n)[a] = IF a >= s /\ a < s + n THEN c % 256 ELSE m[a]
<1> DEFINE D == 0..(M - 1)
           v == c % 256
           Filled(i) == [a \in D |-> IF a >= s /\ a < s + i THEN v ELSE m[a]]
           Rec(f) == [i \in 0..n |-> IF i = 0 THEN m ELSE [f[i - 1] EXCEPT ![s + i - 1] = v]]
           f0 == [i \in 0..n |-> Filled(i)]
           f1 == CHOOSE f : f = Rec(f)
<1>1. M \in Nat /\ m = [a \in D |-> m[a]]
  BY DEF IsMemory
<1>2. Memset(m, s, c, n) = f1[n]
  BY DEF Memset
<1> HIDE DEF v
<1>3. Filled(0) = m
  <2>1. \A a \in D : ~(a >= s /\ a < s + 0)
    BY <1>1
  <2> QED BY <1>1, <2>1
<1>4. ASSUME NEW i \in 1..n PROVE [Filled(i - 1) EXCEPT ![s + i - 1] = v] = Filled(i)
  <2>1. s + i - 1 \in D
    BY <1>1
  <2>2. \A a \in Int : (a >= s /\ a < s + i) <=> (a = s + i - 1 \/ (a >= s /\ a < s + (i - 1)))
    OBVIOUS
  <2>3. \A a \in D : a \in Int
    BY <1>1
  <2> QED BY <2>1, <2>2, <2>3
<1>5. f0 = Rec(f0)
  <2>1. ASSUME NEW i \in 0..n
        PROVE  Filled(i) = IF i = 0 THEN m ELSE [f0[i - 1] EXCEPT ![s + i - 1] = v]
    <3>1. CASE i = 0
      BY <1>3, <3>1
    <3>2. CASE i # 0
      <4>1. i \in 1..n /\ i - 1 \in 0..n
        BY <3>2
      <4> HIDE DEF Filled
      <4> QED BY <1>4, <3>2, <4>1
    <3> QED BY <3>1, <3>2
  <2> HIDE DEF Filled
  <2> QED BY <2>1
<1>6. f1 = Rec(f1)
  <2> HIDE DEF Rec, f0
  <2> QED BY <1>5
<1> HIDE DEF f1, Filled
<1> DEFINE T == {i \in Nat : i <= n => f1[i] = Filled(i)}
<1>7. 0 \in T
  <2>1. 0 \in 0..n
    OBVIOUS
  <2> QED BY <1>3, <1>6, <2>1
<1>8. ASSUME NEW j \in Nat, j \in T PROVE j + 1 \in T
  <2> SUFFICES ASSUME j + 1 <= n PROVE f1[j + 1] = Filled(j + 1)
    OBVIOUS
  <2> DEFINE i == j + 1
  <2>1. i \in 1..n /\ i \in 0..n /\ i # 0 /\ i - 1 = j /\ j <= n
    OBVIOUS
  <2> HIDE DEF i
  <2>2. f1[i - 1] = Filled(i - 1)
    BY <1>8, <2>1
  <2>3. f1[i] = [f1[i - 1] EXCEPT ![s + i - 1] = v]
    BY <1>6, <2>1
  <2> QED BY <1>4, <2>1, <2>2, <2>3 DEF i
<1>9. f1[n] = Filled(n)
  <2> HIDE DEF T
  <2>1. n \in T
    BY <1>7, <1>8, SetInduction
  <2> QED BY <2>1 DEF T
<1> QED BY <1>2, <1>9 DEF Filled, v

LEMMA BlocksAre ==
  ASSUME NEW m, NEW M, IsMemory(m, M), NEW s1 \in Nat, NEW s2 \in Nat, NEW n \in Nat,
         NEW c \in 0..255, s1 + n <= M, s2 + n <= M
  PROVE  BlocksMeet(m, s1, s2, n, c)
<1>1. M \in Nat /\ DOMAIN m = 0..(M - 1)
  BY DEF IsMemory
<1>2. ASSUME NEW wide \in {c, c + 256}
      PROVE  /\ Region(Memset(m, s1, wide, n), s1, n) = [i \in 0..(n - 1) |-> c]
             /\ Elsewhere(m, Memset(m, s1, wide, n), s1, n)
  <2> DEFINE after == Memset(m, s1, wide, n)
  <2>1. wide % 256 = c
    OBVIOUS
  <2>2. \A a \in 0..(M - 1) : after[a] = IF a >= s1 /\ a < s1 + n THEN c ELSE m[a]
    BY <2>1, MemsetIs
  <2> HIDE DEF after
  <2>3. Region(after, s1, n) = [i \in 0..(n - 1) |-> c]
    <3>1. \A i \in 0..(n - 1) : s1 + i \in 0..(M - 1) /\ s1 + i >= s1 /\ s1 + i < s1 + n
      BY <1>1
    <3> QED BY <2>2, <3>1 DEF Region
  <2>4. Elsewhere(m, after, s1, n)
    <3>1. \A a \in (0..(M - 1)) \ (s1..(s1 + n - 1)) : ~(a >= s1 /\ a < s1 + n)
      BY <1>1
    <3> QED BY <1>1, <2>2, <3>1 DEF Elsewhere
  <2> QED BY <2>3, <2>4 DEF after
<1> QED BY <1>2, MemcmpIs DEF BlocksMeet

(* The loops of strcmp() and strncmp() stop where one string ends or where *)
(* they differ.  a and b are the lengths, if they are below the limit.     *)
LengthTo(m, s, n, a) ==
  a \in Nat /\ (\A j \in 0..(a - 1) : m[s + j] # 0) /\ (a < n => m[s + a] = 0)

LEMMA WalkDecides ==
  ASSUME NEW m, NEW M, IsMemory(m, M), NEW s1 \in Nat, NEW s2 \in Nat, NEW n \in Nat,
         s1 + n <= M, s2 + n <= M,
         NEW a, LengthTo(m, s1, n, a), NEW b, LengthTo(m, s2, n, b),
         NEW i, i = Rounds(n, Zeros(m, s1, n) \cup Differences(m, s1, s2, n)),
         a < n \/ b < n \/ (a = n /\ b = n),
         NEW ret, ret = IF i = n THEN 0 ELSE m[s1 + i] - m[s2 + i]
  PROVE  ret \in Int /\ i <= a /\ i <= b /\ (i = n => a = n /\ b = n)
           /\ Decides(m, s1, s2, a, b, i, ret)
<1> DEFINE stops == Zeros(m, s1, n) \cup Differences(m, s1, s2, n)
<1>1. M \in Nat /\ m \in [0..(M - 1) -> Nat]
  BY DEF IsMemory
<1>2. /\ a \in Nat /\ (\A j \in 0..(a - 1) : m[s1 + j] # 0) /\ (a < n => m[s1 + a] = 0)
      /\ b \in Nat /\ (\A j \in 0..(b - 1) : m[s2 + j] # 0) /\ (b < n => m[s2 + b] = 0)
  BY DEF LengthTo
<1>3. StopsAt(n, stops, 0, i)
  BY RoundsStop
<1>4. \A j \in 0..(n - 1) : j \in stops <=> m[s1 + j] = 0 \/ m[s1 + j] # m[s2 + j]
  BY DEF Differences, Zeros
<1> HIDE DEF stops
<1>5. i \in 0..n /\ (i = n \/ i \in stops) /\ \A j \in 0..n : j < i => j \notin stops
  BY <1>3 DEF StopsAt
<1>6. \A j \in 0..(i - 1) : m[s1 + j] # 0 /\ m[s1 + j] = m[s2 + j]
  <2>1. \A j \in 0..(i - 1) : j \in 0..n /\ j < i /\ j \in 0..(n - 1)
    BY <1>5
  <2> QED BY <1>4, <1>5, <2>1
<1>7. i <= a
  <2> SUFFICES ASSUME a < i PROVE FALSE
    BY <1>2, <1>5
  <2>1. a \in 0..(i - 1) /\ a < n
    BY <1>2, <1>5
  <2>2. m[s1 + a] # 0
    BY <1>6, <2>1
  <2>3. m[s1 + a] = 0
    BY <1>2, <2>1
  <2> QED BY <2>2, <2>3
<1>8. i <= b
  <2> SUFFICES ASSUME b < i PROVE FALSE
    BY <1>2, <1>5
  <2>1. b \in 0..(i - 1) /\ b < n
    BY <1>2, <1>5
  <2>2. m[s1 + b] # 0 /\ m[s1 + b] = m[s2 + b]
    BY <1>6, <2>1
  <2>3. m[s2 + b] = 0
    BY <1>2, <2>1
  <2> QED BY <2>2, <2>3
<1>9. i = n => a = n /\ b = n
  BY <1>2, <1>5, <1>7, <1>8
<1>10. i < n => /\ m[s1 + i] \in Nat /\ m[s2 + i] \in Nat
                /\ m[s1 + i] = 0 \/ m[s1 + i] # m[s2 + i]
  <2>1. i < n => i \in 0..(n - 1) /\ s1 + i \in 0..(M - 1) /\ s2 + i \in 0..(M - 1)
    BY <1>1, <1>5
  <2> QED BY <1>1, <1>4, <1>5, <2>1
<1>11. /\ i = a /\ i < n => m[s1 + i] = 0
       /\ i = b /\ i < n => m[s2 + i] = 0
       /\ i < a => m[s1 + i] # 0
       /\ i < b => m[s2 + i] # 0
  <2>1. (i < a => i \in 0..(a - 1)) /\ (i < b => i \in 0..(b - 1))
    BY <1>2, <1>5
  <2> QED BY <1>2, <2>1
<1>12. ret \in Int
  BY <1>5, <1>10
<1>13. \/ i = a /\ i = b /\ ret = 0
       \/ i = a /\ i < b /\ ret < 0
       \/ i < a /\ i = b /\ ret > 0
       \/ i < a /\ i < b /\ m[s1 + i] # m[s2 + i] /\ ret = m[s1 + i] - m[s2 + i]
  <2>1. CASE i = n
    BY <1>9, <2>1
  <2>2. CASE i < n
    <3>1. ret = m[s1 + i] - m[s2 + i]
      BY <2>2
    <3> QED BY <1>2, <1>5, <1>7, <1>8, <1>10, <1>11, <2>2, <3>1
  <2> QED BY <1>5, <2>1, <2>2
<1>14. i \in Nat
  BY <1>5
<1> QED BY <1>6, <1>7, <1>8, <1>9, <1>12, <1>13, <1>14 DEF Decides

LEMMA StringLength ==
  ASSUME NEW m, NEW M, IsMemory(m, M), NEW s \in 0..(M - 1), IsString(m, s)
  PROVE  /\ EndOf(m, s) - s \in Nat /\ s + (EndOf(m, s) - s) < M
         /\ m[s + (EndOf(m, s) - s)] = 0
         /\ \A j \in 0..(EndOf(m, s) - s - 1) : m[s + j] # 0
<1> DEFINE e == EndOf(m, s)
<1>1. M \in Nat /\ s \in Nat
  BY DEF IsMemory
<1>2. EndsAt(m, M, s, e)
  BY <1>1, StringEnds
<1> HIDE DEF e
<1>3. e \in s..(M - 1) /\ m[e] = 0 /\ \A b \in s..(e - 1) : m[b] # 0
  BY <1>2 DEF EndsAt
<1>4. e - s \in Nat /\ s + (e - s) < M /\ s + (e - s) = e
  BY <1>1, <1>3
<1>5. \A j \in 0..(e - s - 1) : s + j \in s..(e - 1)
  BY <1>1, <1>3
<1>6. \A j \in 0..(e - s - 1) : m[s + j] # 0
  BY <1>3, <1>5
<1>7. m[s + (e - s)] = 0
  BY <1>3, <1>4
<1> QED BY <1>4, <1>6, <1>7 DEF e

LEMMA StrcmpIs ==
  ASSUME NEW m, NEW M, IsMemory(m, M), NEW s1 \in 0..(M - 1), NEW s2 \in 0..(M - 1),
         IsString(m, s1), IsString(m, s2)
  PROVE  Agrees(Strcmp(m, s1, s2), StringAt(m, s1), StringAt(m, s2))
<1> DEFINE top == IF s1 > s2 THEN s1 ELSE s2
           n == Room(m, top)
           a == EndOf(m, s1) - s1
           b == EndOf(m, s2) - s2
           i == Rounds(n, Zeros(m, s1, n) \cup Differences(m, s1, s2, n))
           ret == Strcmp(m, s1, s2)
<1>1. M \in Nat /\ s1 \in Nat /\ s2 \in Nat
  BY DEF IsMemory
<1>2. top \in 0..(M - 1) /\ top >= s1 /\ top >= s2 /\ (top = s1 \/ top = s2)
  BY <1>1
<1>3. n = M - top
  <2> HIDE DEF top
  <2> QED BY <1>2, RoomIs
<1>4. ret = m[s1 + i] - m[s2 + i]
  BY DEF Strcmp
<1> HIDE DEF top, n
<1>5. n \in Nat /\ s1 + n <= M /\ s2 + n <= M
  BY <1>1, <1>2, <1>3
<1>6. /\ a \in Nat /\ m[s1 + a] = 0 /\ s1 + a < M /\ \A j \in 0..(a - 1) : m[s1 + j] # 0
      /\ b \in Nat /\ m[s2 + b] = 0 /\ s2 + b < M /\ \A j \in 0..(b - 1) : m[s2 + j] # 0
  BY <1>1, StringLength
<1>7. StringAt(m, s1) = Region(m, s1, a) /\ StringAt(m, s2) = Region(m, s2, b)
  BY DEF StringAt
<1> HIDE DEF a, b, ret
<1>8. LengthTo(m, s1, n, a) /\ LengthTo(m, s2, n, b)
  BY <1>6 DEF LengthTo
<1>9. a < n \/ b < n
  BY <1>1, <1>2, <1>3, <1>6
<1> DEFINE val == IF i = n THEN 0 ELSE m[s1 + i] - m[s2 + i]
<1>10. val \in Int /\ i <= a /\ i <= b /\ (i = n => a = n /\ b = n)
           /\ Decides(m, s1, s2, a, b, i, val)
  <2> HIDE DEF i, val
  <2>1. i = Rounds(n, Zeros(m, s1, n) \cup Differences(m, s1, s2, n))
    BY DEF i
  <2>2. val = IF i = n THEN 0 ELSE m[s1 + i] - m[s2 + i]
    BY DEF val
  <2> QED BY <1>1, <1>5, <1>8, <1>9, <2>1, <2>2, WalkDecides
<1>11. val = ret
  <2> HIDE DEF i
  <2> QED BY <1>4, <1>5, <1>6, <1>9, <1>10
<1>12. Agrees(val, Region(m, s1, a), Region(m, s2, b))
  <2> HIDE DEF val, i
  <2>1. s1 + a <= M /\ s2 + b <= M
    BY <1>1, <1>6
  <2> QED BY <1>1, <1>6, <1>10, <2>1, DecidesAgrees
<1> HIDE DEF val
<1> QED BY <1>7, <1>11, <1>12 DEF ret

LEMMA StrncmpIs ==
  ASSUME NEW m, NEW M, IsMemory(m, M), NEW s1 \in 0..(M - 1), NEW s2 \in 0..(M - 1),
         IsString(m, s1), IsString(m, s2), NEW n \in Nat, s1 + n <= M, s2 + n <= M
  PROVE  Agrees(Strncmp(m, s1, s2, n), Region(m, s1, Lesser(n, EndOf(m, s1) - s1)),
                Region(m, s2, Lesser(n, EndOf(m, s2) - s2)))
<1> DEFINE a == Lesser(n, EndOf(m, s1) - s1)
           b == Lesser(n, EndOf(m, s2) - s2)
           i == Rounds(n, Zeros(m, s1, n) \cup Differences(m, s1, s2, n))
           ret == Strncmp(m, s1, s2, n)
<1>1. M \in Nat /\ s1 \in Nat /\ s2 \in Nat
  BY DEF IsMemory
<1>2. ret = IF i = n THEN 0 ELSE m[s1 + i] - m[s2 + i]
  BY DEF Strncmp
<1>3. LengthTo(m, s1, n, a) /\ a <= n
  BY StringLength DEF Lesser, LengthTo
<1>4. LengthTo(m, s2, n, b) /\ b <= n
  BY StringLength DEF Lesser, LengthTo
<1> HIDE DEF a, b, ret
<1>5. a \in Nat /\ b \in Nat
  BY <1>3, <1>4 DEF LengthTo
<1>6. a < n \/ b < n \/ (a = n /\ b = n)
  BY <1>3, <1>4, <1>5
<1>7. ret \in Int /\ Decides(m, s1, s2, a, b, i, ret)
  <2> HIDE DEF i
  <2>1. i = Rounds(n, Zeros(m, s1, n) \cup Differences(m, s1, s2, n))
    BY DEF i
  <2> QED BY <1>1, <1>2, <1>3, <1>4, <1>6, <2>1, WalkDecides
<1>8. Agrees(ret, Region(m, s1, a), Region(m, s2, b))
  <2> HIDE DEF i
  <2>1. s1 + a <= M /\ s2 + b <= M
    BY <1>1, <1>3, <1>4, <1>5
  <2> QED BY <1>1, <1>5, <1>7, <2>1, DecidesAgrees
<1> QED BY <1>8 DEF a, b, ret

LEMMA StrchrIs ==
  ASSUME NEW m, NEW M, IsMemory(m, M), NEW s \in 0..(M - 1), IsString(m, s), NEW c, c # 0
  PROVE  LET hits == {a \in s..(EndOf(m, s) - 1) : m[a] = c}
             ret == Strchr(m, s, c)
         IN  IF hits = {} THEN ret = NullPointer
             ELSE ret \in hits /\ \A a \in hits : ret <= a
<1> DEFINE e == EndOf(m, s)
           hits == {a \in s..(e - 1) : m[a] = c}
           ret == Strchr(m, s, c)
           n == Room(m, s)
           stops == {j \in 0..(n - 1) : m[s + j] \in {0, c}}
           i == Rounds(n, stops)
<1>1. M \in Nat /\ s \in Nat
  BY DEF IsMemory
<1>2. EndsAt(m, M, s, e)
  BY <1>1, StringEnds
<1>3. ret = IF m[s + i] = 0 THEN NullPointer ELSE s + i
  BY DEF Strchr
<1> HIDE DEF e, ret
<1>4. e \in s..(M - 1) /\ m[e] = 0 /\ \A b \in s..(e - 1) : m[b] # 0
  BY <1>2 DEF EndsAt
<1>5. n = M - s
  BY RoomIs
<1> HIDE DEF n
<1>6. StopsAt(n, stops, 0, i)
  <2>1. n \in Nat
    BY <1>1, <1>5
  <2> HIDE DEF stops
  <2> QED BY <2>1, RoundsStop
<1>7. \A j \in 0..(n - 1) : j \in stops <=> m[s + j] = 0 \/ m[s + j] = c
  OBVIOUS
<1> HIDE DEF i, stops
<1>8. i \in 0..n /\ (i = n \/ i \in stops) /\ \A j \in 0..n : j < i => j \notin stops
  BY <1>6 DEF StopsAt
<1>9. \A b \in s..(e - 1) : b < s + i => m[b] # c
  <2> SUFFICES ASSUME NEW b \in s..(e - 1), b < s + i PROVE m[b] # c
    OBVIOUS
  <2>1. b - s \in 0..n /\ b - s < i /\ b - s \in 0..(n - 1) /\ s + (b - s) = b
    BY <1>1, <1>4, <1>5, <1>8
  <2>2. b - s \notin stops
    BY <1>8, <2>1
  <2> QED BY <1>7, <2>1, <2>2
<1>10. s + i <= e
  <2> SUFFICES ASSUME e < s + i PROVE FALSE
    BY <1>1, <1>4, <1>5, <1>8
  <2>1. e - s \in 0..n /\ e - s < i /\ e - s \in 0..(n - 1) /\ s + (e - s) = e
    BY <1>1, <1>4, <1>5, <1>8
  <2>2. e - s \in stops
    BY <1>4, <1>7, <2>1
  <2> QED BY <1>8, <2>1, <2>2
<1>11. CASE s + i = e
  <2>1. hits = {}
    BY <1>1, <1>4, <1>9, <1>11
  <2>2. ret = NullPointer
    BY <1>3, <1>4, <1>11
  <2> QED BY <2>1, <2>2 DEF e, ret
<1>12. CASE s + i < e
  <2>1. s + i \in s..(e - 1) /\ i \in 0..(n - 1) /\ i # n
    BY <1>1, <1>4, <1>5, <1>8, <1>12
  <2>2. m[s + i] = c
    BY <1>4, <1>7, <1>8, <2>1
  <2>3. ret = s + i
    BY <1>3, <2>2
  <2>4. ASSUME NEW a \in hits PROVE s + i <= a
    <3>1. ~(a < s + i) /\ a \in Int
      BY <1>4, <1>9
    <3> QED BY <1>1, <1>8, <3>1
  <2>5. ret \in hits /\ \A a \in hits : ret <= a
    BY <2>1, <2>2, <2>3, <2>4
  <2> QED BY <2>5 DEF e, ret
<1>13. s + i = e \/ s + i < e
  BY <1>1, <1>4, <1>8, <1>10
<1> QED BY <1>11, <1>12, <1>13

LEMMA IntervalSize == \A n \in Nat : Cardinality(0..(n - 1)) = n
<1> TAKE n \in Nat
<1>1. CASE n = 0
  <2>1. 0..(n - 1) = {}
    BY <1>1
  <2> QED BY <1>1, <2>1, FS_EmptySet
<1>2. CASE n # 0
  <2>1. 0 \in Int /\ n - 1 \in Int /\ ~(0 > n - 1) /\ (n - 1) - 0 + 1 = n
    BY <1>2
  <2>2. Cardinality(0..(n - 1)) = (n - 1) - 0 + 1
    BY <2>1, FS_Interval
  <2> QED BY <2>1, <2>2
<1> QED BY <1>1, <1>2

LEMMA ComparisonsAre ==
  ASSUME NEW m, NEW M, IsMemory(m, M), NEW s1 \in 0..(M - 1), NEW s2 \in 0..(M - 1),
         IsString(m, s1), IsString(m, s2), NEW n \in Nat, s1 + n <= M, s2 + n <= M
  PROVE  ComparisonsMeet(m, s1, s2, n)
<1> DEFINE a == EndOf(m, s1) - s1
           b == EndOf(m, s2) - s2
           u == StringAt(m, s1)
           v == StringAt(m, s2)
<1>1. a \in Nat /\ b \in Nat
  BY StringLength
<1>2. DOMAIN u = 0..(a - 1) /\ DOMAIN v = 0..(b - 1)
  BY DEF StringAt, Region
<1>3. Cardinality(DOMAIN u) = a /\ Cardinality(DOMAIN v) = b
  <2> HIDE DEF a, b, u, v
  <2> QED BY <1>1, <1>2, IntervalSize
<1>4. Strlen(m, s1) = a
  BY StrlenIs
<1>5. Strnlen(m, s1, n) = Lesser(n, a)
  <2>1. s1 \in Nat
    BY DEF IsMemory
  <2> QED BY <2>1, ZeroFound DEF Strnlen
<1>6. Agrees(Strcmp(m, s1, s2), u, v)
  BY StrcmpIs
<1>7. Agrees(Strncmp(m, s1, s2, n), Region(m, s1, Lesser(n, a)), Region(m, s2, Lesser(n, b)))
  BY StrncmpIs
<1>8. ASSUME NEW c, c # 0
      PROVE  LET hits == {z \in s1..(EndOf(m, s1) - 1) : m[z] = c}
                 ret == Strchr(m, s1, c)
             IN  IF hits = {} THEN ret = NullPointer ELSE ret \in hits /\ \A z \in hits : ret <= z
  BY <1>8, StrchrIs
<1>9. \A c \in {m[z] : z \in DOMAIN m} \ {0} : c # 0
  OBVIOUS
<1> HIDE DEF a, b, u, v
<1> QED BY <1>3, <1>4, <1>5, <1>6, <1>7, <1>8, <1>9 DEF ComparisonsMeet, u, v

LEMMA CopiesAre ==
  ASSUME NEW m, NEW M, IsMemory(m, M), NEW dest \in 0..(M - 1), NEW src \in 0..(M - 1),
         IsString(m, src), NEW n \in Nat, dest + n <= M, src + n <= M
  PROVE  CopiesMeet(m, dest, src, n)
<1> DEFINE len == EndOf(m, src) - src
           k == Lesser(len, n - 1)
           cut == Strlcpy(m, dest, src, n)
<1>1. /\ M \in Nat /\ DOMAIN m = 0..(M - 1) /\ src \in Nat /\ dest \in Nat
  BY DEF IsMemory
<1>2. len \in Nat /\ src + len = EndOf(m, src)
  <2>1. EndsAt(m, M, src, EndOf(m, src))
    BY <1>1, StringEnds
  <2>2. EndOf(m, src) \in src..(M - 1)
    BY <2>1 DEF EndsAt
  <2> QED BY <1>1, <2>2
<1>3. ASSUME dest + len < src \/ (dest > src + len /\ dest + len \in DOMAIN m)
      PROVE  /\ StringAt(Strcpy(m, dest, src), dest) = StringAt(m, src)
             /\ Elsewhere(m, Strcpy(m, dest, src), dest, len + 1)
  <2>1. dest + len < src \/ (dest > src + len /\ dest + len < M)
    BY <1>1, <1>3
  <2> QED BY <2>1, StrcpyIs
<1>4. ASSUME dest + n <= src \/ (dest > src + len /\ dest + n - 1 \in DOMAIN m)
      PROVE  /\ Region(Strncpy(m, dest, src, n), dest, n)
                  = [i \in 0..(n - 1) |-> IF i < len THEN m[src + i] ELSE 0]
             /\ Elsewhere(m, Strncpy(m, dest, src, n), dest, n)
             /\ n > 0 => /\ StringAt(cut.mem, dest) = Region(m, src, k)
                         /\ Elsewhere(m, cut.mem, dest, k + 1)
  <2>1. dest + n <= src \/ dest > EndOf(m, src)
    BY <1>2, <1>4
  <2>2. /\ Region(Strncpy(m, dest, src, n), dest, n)
             = [i \in 0..(n - 1) |-> IF i < len THEN m[src + i] ELSE 0]
        /\ Elsewhere(m, Strncpy(m, dest, src, n), dest, n)
    BY <2>1, StrncpyIs
  <2>3. ASSUME n > 0
        PROVE  /\ StringAt(cut.mem, dest) = Region(m, src, k)
               /\ Elsewhere(m, cut.mem, dest, k + 1)
    BY <2>1, <2>3, StrlcpyIs
  <2> QED BY <2>2, <2>3
<1> QED BY <1>3, <1>4 DEF CopiesMeet

(* The addresses and counts that fit in the memory, one at a time.         *)
LEMMA StringsMeetAt ==
  ASSUME NEW m \in [0..(MemSize - 1) -> Byte], NEW a \in 0..(MemSize - 1),
         NEW b \in 0..(MemSize - 1), NEW n \in 0..MemSize, a + n <= MemSize, b + n <= MemSize
  PROVE  /\ MemmoveMeets(m, a, b, n)
         /\ \A c \in Byte : BlocksMeet(m, a, b, n, c)
         /\ IsString(m, a) /\ IsString(m, b) =>
              CopiesMeet(m, a, b, n) /\ ComparisonsMeet(m, a, b, n)
<1>1. MemSize \in Nat /\ n \in Nat
  BY StringsAssumption
<1>2. IsMemory(m, MemSize)
  <2>1. \A c \in Byte : c \in Nat
    BY StringsAssumption
  <2> QED BY <2>1, StringsAssumption DEF IsMemory
<1>3. MemmoveMeets(m, a, b, n)
  BY <1>1, <1>2, MemmoveIs
<1>4. ASSUME NEW c \in Byte PROVE BlocksMeet(m, a, b, n, c)
  <2>1. c \in 0..255 /\ a \in Nat /\ b \in Nat
    BY <1>1, StringsAssumption
  <2> QED BY <1>1, <1>2, <2>1, BlocksAre
<1>5. ASSUME IsString(m, a), IsString(m, b)
      PROVE  CopiesMeet(m, a, b, n) /\ ComparisonsMeet(m, a, b, n)
  BY <1>1, <1>2, <1>5, CopiesAre, ComparisonsAre
<1> QED BY <1>3, <1>4, <1>5

(* For a memory of any size, whatever its bytes, and all addresses and     *)
(* counts inside it: the copies arrive, but where the destination lies     *)
(* over the end of the source, and memset(), the lengths, the comparisons  *)
(* and strchr() are those of their references (string.c:10-46, 56-156).    *)
(* memsetw() and strlcpy()'s value are left out.                           *)
THEOREM StringsMeetHolds == Spec => []StringsMeet
<1>1. StringsMeet
  BY StringsMeetAt DEF StringsMeet
<1> QED BY <1>1, PTL

----------------------------------------------------------------------------
(* The powers of a base.                                                   *)
LEMMA PowerIs ==
  ASSUME NEW base \in Nat, base > 1
  PROVE  /\ Power(base) \in [Nat -> Nat]
         /\ Power(base)[0] = 1
         /\ \A k \in Nat : Power(base)[k + 1] = base * Power(base)[k]
<1> DEFINE Next1(f, k) == IF k = 0 THEN 1 ELSE base * f[k - 1]
           p == CHOOSE f : f = [k \in Nat |-> Next1(f, k)]
<1>1. \E f : f = [k \in Nat |-> Next1(f, k)]
  <2> DEFINE g == [a \in Nat \X Nat |-> base * a[2]]
  <2>1. g \in Stepping(Nat)
    <3>1. \A a \in Nat \X Nat : base * a[2] \in Nat
      OBVIOUS
    <3> QED BY <3>1 DEF Stepping
  <2>2. \A k, v \in Nat : g[<<k, v>>] = base * v
    OBVIOUS
  <2> HIDE DEF g
  <2>3. PICK f \in [Nat -> Nat] : f[0] = 1 /\ \A k \in Nat : f[k + 1] = g[<<k, f[k]>>]
    <3> DEFINE S == Nat
    <3>1. g \in Stepping(S) /\ 1 \in S
      BY <2>1
    <3> HIDE DEF S
    <3>2. \E f \in [Nat -> S] : f[0] = 1 /\ \A k \in Nat : f[k + 1] = g[<<k, f[k]>>]
      BY <3>1, Recursion
    <3> QED BY <3>2 DEF S
  <2>4. \A k \in Nat : f[k] = Next1(f, k)
    <3> SUFFICES ASSUME NEW k \in Nat, k # 0 PROVE f[k] = base * f[k - 1]
      BY <2>3
    <3>1. k - 1 \in Nat /\ (k - 1) + 1 = k /\ f[k - 1] \in Nat
      OBVIOUS
    <3>2. f[(k - 1) + 1] = g[<<k - 1, f[k - 1]>>]
      BY <2>3, <3>1
    <3> QED BY <2>2, <3>1, <3>2
  <2> HIDE DEF Next1
  <2>5. f = [k \in Nat |-> Next1(f, k)]
    BY <2>4
  <2> QED BY <2>5
<1>2. Power(base) = p
  BY DEF Power
<1>3. p = [k \in Nat |-> Next1(p, k)]
  <2> HIDE DEF Next1
  <2> QED BY <1>1
<1> HIDE DEF p
<1>4. p[0] = 1
  BY <1>3
<1>5. \A k \in Nat : p[k + 1] = base * p[k]
  <2> SUFFICES ASSUME NEW k \in Nat PROVE p[k + 1] = base * p[k]
    OBVIOUS
  <2>1. k + 1 \in Nat /\ k + 1 # 0 /\ (k + 1) - 1 = k
    OBVIOUS
  <2> QED BY <1>3, <2>1
<1>6. p \in [Nat -> Nat]
  <2> DEFINE T == {k \in Nat : p[k] \in Nat}
  <2>1. 0 \in T
    BY <1>4
  <2>2. \A k \in Nat : k \in T => k + 1 \in T
    BY <1>5
  <2>3. Nat \subseteq T
    <3> HIDE DEF T
    <3> QED BY <2>1, <2>2, SetInduction
  <2>4. \A k \in Nat : p[k] \in Nat
    BY <2>3
  <2> QED BY <1>3, <2>4
<1> QED BY <1>2, <1>4, <1>5, <1>6

LEMMA PowerIsNat ==
  ASSUME NEW base \in Nat, base > 1, NEW k \in Nat
  PROVE  Power(base)[k] \in Nat
  BY PowerIs

(* A power is at least one, and more than the one before.                  *)
LEMMA PowerRises ==
  ASSUME NEW base \in Nat, base > 1, NEW k \in Nat
  PROVE  Power(base)[k] >= 1 /\ Power(base)[k + 1] > Power(base)[k]
<1> DEFINE p(j) == Power(base)[j]
<1>1. p(0) = 1 /\ \A j \in Nat : p(j) \in Nat /\ p(j + 1) = base * p(j)
  BY PowerIs
<1> HIDE DEF p
<1>2. ASSUME NEW a \in Nat, a >= 1 PROVE base * a > a
  BY <1>2
<1> DEFINE T == {j \in Nat : p(j) >= 1}
<1>3. 0 \in T
  BY <1>1
<1>4. ASSUME NEW j \in Nat, j \in T PROVE j + 1 \in T
  <2>1. p(j) \in Nat /\ p(j) >= 1 /\ p(j + 1) = base * p(j)
    BY <1>1, <1>4
  <2>2. base * p(j) > p(j)
    BY <1>2, <2>1
  <2>3. p(j + 1) \in Nat
    BY <1>1
  <2> QED BY <2>1, <2>2, <2>3
<1>5. Nat \subseteq T
  <2> HIDE DEF T
  <2> QED BY <1>3, <1>4, SetInduction
<1>6. p(k) \in Nat /\ p(k) >= 1 /\ p(k + 1) = base * p(k)
  BY <1>1, <1>5
<1>7. base * p(k) > p(k)
  BY <1>2, <1>6
<1>8. p(k) >= 1 /\ p(k + 1) > p(k)
  BY <1>6, <1>7
<1> QED BY <1>8 DEF p

LEMMA PowerIsMonotonic ==
  ASSUME NEW base \in Nat, base > 1, NEW j \in Nat, NEW k \in Nat, j <= k
  PROVE  Power(base)[j] <= Power(base)[k]
<1> DEFINE p(i) == Power(base)[i]
           T == {i \in Nat : p(j) <= p(j + i)}
<1>1. \A i \in Nat : p(i) \in Nat /\ p(i + 1) > p(i)
  BY PowerIsNat, PowerRises
<1> HIDE DEF p
<1>2. 0 \in T
  BY <1>1
<1>3. ASSUME NEW i \in Nat, i \in T PROVE i + 1 \in T
  <2>1. j + i \in Nat /\ (j + i) + 1 = j + (i + 1) /\ p(j) <= p(j + i)
    BY <1>3
  <2>2. p((j + i) + 1) > p(j + i) /\ p(j + i) \in Nat /\ p((j + i) + 1) \in Nat /\ p(j) \in Nat
    BY <1>1, <2>1
  <2>3. p(j) <= p((j + i) + 1)
    BY <2>1, <2>2
  <2> QED BY <2>1, <2>3
<1>4. Nat \subseteq T
  <2> HIDE DEF T
  <2> QED BY <1>2, <1>3, SetInduction
<1>5. k - j \in Nat /\ j + (k - j) = k
  OBVIOUS
<1>6. p(j) <= p(j + (k - j))
  BY <1>4, <1>5
<1>7. p(j) <= p(k)
  BY <1>5, <1>6
<1> QED BY <1>7 DEF p

LEMMA TwoIsLeast ==
  ASSUME NEW base \in Nat, base > 1, NEW k \in Nat
  PROVE  Power(2)[k] <= Power(base)[k]
<1> DEFINE p(i) == Power(base)[i]
           q(i) == Power(2)[i]
           T == {i \in Nat : q(i) <= p(i)}
<1>1. p(0) = 1 /\ \A i \in Nat : p(i) \in Nat /\ p(i + 1) = base * p(i)
  BY PowerIs
<1>2. q(0) = 1 /\ \A i \in Nat : q(i) \in Nat /\ q(i + 1) = 2 * q(i)
  <2>1. 2 \in Nat /\ 2 > 1
    OBVIOUS
  <2> QED BY <2>1, PowerIs
<1> HIDE DEF p, q
<1>3. 0 \in T
  BY <1>1, <1>2
<1>4. ASSUME NEW a \in Nat, NEW b \in Nat, a <= b PROVE 2 * a <= base * b
  <2>1. base * b >= 2 * b
    OBVIOUS
  <2>2. base * b \in Nat
    OBVIOUS
  <2> QED BY <1>4, <2>1, <2>2
<1>5. ASSUME NEW i \in Nat, i \in T PROVE i + 1 \in T
  <2>1. q(i) \in Nat /\ p(i) \in Nat /\ q(i) <= p(i)
    BY <1>1, <1>2, <1>5
  <2>2. 2 * q(i) <= base * p(i)
    BY <1>4, <2>1
  <2>3. q(i + 1) <= p(i + 1)
    BY <1>1, <1>2, <2>2
  <2> QED BY <2>3
<1>6. Nat \subseteq T
  <2> HIDE DEF T
  <2> QED BY <1>3, <1>5, SetInduction
<1>7. q(k) <= p(k)
  BY <1>6
<1> QED BY <1>7 DEF p, q

(* Division and remainder.                                                 *)
LEMMA DivisionIs ==
  ASSUME NEW n \in Nat, NEW base \in Nat, base > 1
  PROVE  /\ n \div base \in Nat /\ n % base \in 0..(base - 1)
         /\ n = base * (n \div base) + (n % base)
         /\ n >= base => n \div base >= 1
         /\ n > 0 => n \div base < n
<1> DEFINE q == n \div base
           r == n % base
<1>1. q \in Int /\ r \in 0..(base - 1) /\ n = base * q + r
  OBVIOUS
<1> HIDE DEF q, r
<1>2. q >= 0
  <2> SUFFICES ASSUME q <= -1 PROVE FALSE
    BY <1>1
  <2>1. base * q <= -base
    BY <1>1
  <2> QED BY <1>1, <2>1
<1>3. n >= base => q >= 1
  <2> SUFFICES ASSUME n >= base, q = 0 PROVE FALSE
    BY <1>1, <1>2
  <2> QED BY <1>1
<1>4. n > 0 => q < n
  <2>1. CASE q = 0
    BY <2>1
  <2>2. CASE q >= 1
    <3>1. base * q > q
      BY <1>1, <2>2
    <3>2. base * q \in Int
      BY <1>1
    <3> QED BY <1>1, <3>1, <3>2
  <2> QED BY <1>1, <1>2, <2>1, <2>2
<1>5. q \in Nat
  BY <1>1, <1>2
<1> QED BY <1>1, <1>3, <1>4, <1>5 DEF q, r

LEMMA RemainderIs ==
  ASSUME NEW n \in Int, NEW m \in Nat, m > 0, -m <= n, n < m
  PROVE  n % m = IF n < 0 THEN n + m ELSE n
<1> DEFINE q == n \div m
           r == n % m
<1>1. q \in Int /\ r \in 0..(m - 1) /\ n = m * q + r
  OBVIOUS
<1> HIDE DEF q, r
<1>2. q <= 0
  <2> SUFFICES ASSUME q >= 1 PROVE FALSE
    BY <1>1
  <2>1. m * q >= m
    BY <1>1
  <2> QED BY <1>1, <2>1
<1>3. q >= -1
  <2> SUFFICES ASSUME q <= -2 PROVE FALSE
    BY <1>1
  <2>1. m * q <= -2 * m
    BY <1>1
  <2> QED BY <1>1, <2>1
<1>4. CASE q = 0
  BY <1>1, <1>4 DEF r
<1>5. CASE q = -1
  <2>1. m * q = -m
    BY <1>5
  <2> QED BY <1>1, <2>1 DEF r
<1> QED BY <1>1, <1>2, <1>3, <1>4, <1>5

(* An int, its magnitude and what do_div() is given.                       *)
LEMMA RangeIs ==
  /\ Power(2)[W - 1] \in Nat /\ Power(2)[W - 1] >= 2
  /\ Power(2)[W] = 2 * Power(2)[W - 1]
<1>1. W - 1 \in Nat /\ W - 2 \in Nat /\ (W - 1) + 1 = W /\ (W - 2) + 1 = W - 1
  BY PrintkAssumption
<1>2. 2 \in Nat /\ 2 > 1
  OBVIOUS
<1>3. Power(2)[(W - 1) + 1] = 2 * Power(2)[W - 1]
  BY <1>1, <1>2, PowerIs
<1>4. Power(2)[W - 1] \in Nat /\ Power(2)[W - 2] \in Nat
  BY <1>1, <1>2, PowerIs
<1>5. Power(2)[W - 2] >= 1
  BY <1>1, <1>2, PowerRises
<1>6. Power(2)[(W - 2) + 1] > Power(2)[W - 2]
  BY <1>1, <1>2, PowerRises
<1>7. Power(2)[W] = 2 * Power(2)[W - 1]
  BY <1>1, <1>3
<1>8. Power(2)[W - 1] > Power(2)[W - 2]
  BY <1>1, <1>6
<1> DEFINE p == Power(2)[W - 1]
           q == Power(2)[W - 2]
<1>9. p \in Nat /\ q \in Nat /\ q >= 1 /\ p > q
  BY <1>4, <1>5, <1>8
<1> HIDE DEF p, q
<1>10. p >= 2
  BY <1>9
<1> QED BY <1>4, <1>7, <1>10 DEF p

(* The value that number() finds the digits of, and it is below 2^W.       *)
Magnitude(num, type) == IF Negative(num, type) THEN -num ELSE Unsigned(num)

LEMMA MagnitudeIs ==
  ASSUME NEW num \in Ints, NEW type
  PROVE  /\ Magnitude(num, type) \in 0..(Power(2)[W] - 1)
         /\ Unsigned(IF Negative(num, type) THEN Signed(Unsigned(-num)) ELSE num)
              = Magnitude(num, type)
         /\ Negative(num, type) => Magnitude(num, type) > 0
         /\ num >= 0 => Magnitude(num, type) = num
<1> DEFINE p == Power(2)[W - 1]
           m == Power(2)[W]
<1>1. p \in Nat /\ p >= 2 /\ m = 2 * p
  BY RangeIs
<1>2. num \in Int /\ -p <= num /\ num < p
  BY <1>1 DEF Ints
<1> HIDE DEF p, m
<1>3. m \in Nat /\ m > 0
  BY <1>1
<1>4. \A n \in Int : -m <= n /\ n < m => n % m = IF n < 0 THEN n + m ELSE n
  BY <1>3, RemainderIs
<1>5. num % m = IF num < 0 THEN num + m ELSE num
  BY <1>1, <1>2, <1>4
<1>6. num < 0 => (-num) % m = -num
  BY <1>1, <1>2, <1>4
<1>7. num < 0 => (IF -num >= p THEN -num - m ELSE -num) % m = -num
  <2> SUFFICES ASSUME num < 0 PROVE (IF -num >= p THEN -num - m ELSE -num) % m = -num
    OBVIOUS
  <2>1. CASE -num >= p
    <3>1. -num - m \in Int /\ -m <= -num - m /\ -num - m < 0
      BY <1>1, <1>2, <2>1
    <3>2. (-num - m) % m = (-num - m) + m
      BY <1>3, <1>4, <3>1
    <3>3. (-num - m) + m = -num
      BY <1>1, <1>2
    <3> QED BY <2>1, <3>2, <3>3
  <2>2. CASE ~(-num >= p)
    BY <1>6, <2>2
  <2> QED BY <2>1, <2>2
<1>8. CASE Negative(num, type)
  <2>1. num < 0
    BY <1>8 DEF Negative
  <2>2. Signed(Unsigned(-num)) = IF -num >= p THEN -num - m ELSE -num
    BY <1>6, <2>1 DEF Signed, Unsigned, p, m
  <2>3. Unsigned(Signed(Unsigned(-num))) = -num
    BY <1>7, <2>1, <2>2 DEF Unsigned, m
  <2>4. -num \in 0..(m - 1) /\ -num > 0
    BY <1>1, <1>2, <2>1
  <2> QED BY <1>2, <1>8, <2>1, <2>3, <2>4 DEF Magnitude, m
<1>9. CASE ~Negative(num, type)
  <2>1. Unsigned(num) \in 0..(m - 1) /\ (num >= 0 => Unsigned(num) = num)
    BY <1>1, <1>2, <1>5 DEF Unsigned, m
  <2> QED BY <1>9, <2>1 DEF Magnitude, m
<1> QED BY <1>8, <1>9

----------------------------------------------------------------------------
(* The digits of a number, and the values they add up to from the left.    *)
AddsUp(v, d, base) ==
  /\ v \in [0..Len(d) -> Nat] /\ v[0] = 0
  /\ \A i \in 1..Len(d) : v[i] = v[i - 1] * base + d[i]

IsDigits(d, base, n) ==
  /\ d \in Seq(0..(base - 1)) /\ Len(d) >= 1
  /\ \E v : AddsUp(v, d, base) /\ v[Len(d)] = n
  /\ n < Power(base)[Len(d)]
  /\ Len(d) = 1 \/ Power(base)[Len(d) - 1] <= n

DigitStep(f, base, n) == IF n < base THEN <<n>> ELSE Append(f[n \div base], n % base)

Dug(f, base, m, n) == \A j \in 0..m : j <= n => f[j] = DigitStep(f, base, j)

LEMMA DigitsExist ==
  ASSUME NEW base \in Nat, base > 1, NEW m \in Nat
  PROVE  \E f : f = [n \in 0..m |-> DigitStep(f, base, n)]
<1> DEFINE T == {n \in Nat : \E f : f = [j \in 0..m |-> f[j]] /\ Dug(f, base, m, n)}
<1>1. 0 \in T
  <2> DEFINE f == [j \in 0..m |-> <<j>>]
  <2>1. f = [j \in 0..m |-> f[j]]
    OBVIOUS
  <2>2. f[0] = DigitStep(f, base, 0)
    BY DEF DigitStep
  <2> HIDE DEF f
  <2>3. Dug(f, base, m, 0)
    BY <2>2 DEF Dug
  <2> QED BY <2>1, <2>3
<1>2. ASSUME NEW n \in Nat, n \in T PROVE n + 1 \in T
  <2>1. PICK f : f = [j \in 0..m |-> f[j]] /\ Dug(f, base, m, n)
    BY <1>2
  <2> DEFINE g == [j \in 0..m |-> IF j = n + 1 THEN DigitStep(f, base, n + 1) ELSE f[j]]
  <2>2. g = [j \in 0..m |-> g[j]]
    OBVIOUS
  <2>3. ASSUME NEW j \in 0..m, j <= n + 1 PROVE g[j] = DigitStep(g, base, j)
    <3>1. j >= base => g[j \div base] = f[j \div base]
      <4> SUFFICES ASSUME j >= base PROVE g[j \div base] = f[j \div base]
        OBVIOUS
      <4>1. j \in Nat /\ j > 0
        OBVIOUS
      <4>2. j \div base \in Nat /\ j \div base < j
        BY <4>1, DivisionIs
      <4>3. j \div base \in 0..m /\ j \div base # n + 1
        BY <2>3, <4>2
      <4> QED BY <4>3
    <3> HIDE DEF g
    <3>2. DigitStep(g, base, j) = DigitStep(f, base, j)
      BY <3>1 DEF DigitStep
    <3>3. CASE j = n + 1
      BY <3>2, <3>3 DEF g
    <3>4. CASE j # n + 1
      <4>1. j <= n
        BY <2>3, <3>4
      <4>2. g[j] = f[j]
        BY <3>4 DEF g
      <4> QED BY <2>1, <3>2, <4>1, <4>2 DEF Dug
    <3> QED BY <3>3, <3>4
  <2> HIDE DEF g
  <2>4. Dug(g, base, m, n + 1)
    BY <2>3 DEF Dug
  <2> QED BY <2>2, <2>4
<1>3. m \in T
  <2> HIDE DEF T
  <2> QED BY <1>1, <1>2, SetInduction
<1>4. PICK f : f = [j \in 0..m |-> f[j]] /\ Dug(f, base, m, m)
  BY <1>3
<1>5. \A j \in 0..m : f[j] = DigitStep(f, base, j)
  BY <1>4 DEF Dug
<1>6. f = [j \in 0..m |-> DigitStep(f, base, j)]
  BY <1>4, <1>5, Zenon
<1> QED BY <1>6

(* One digit more: the quotient has the others.                            *)
LEMMA OneDigit ==
  ASSUME NEW base \in Nat, base > 1, NEW n \in Nat, n < base
  PROVE  IsDigits(<<n>>, base, n)
<1> DEFINE d == <<n>>
           v == [i \in 0..1 |-> IF i = 0 THEN 0 ELSE n]
<1>1. d \in Seq(0..(base - 1)) /\ Len(d) = 1 /\ d[1] = n
  OBVIOUS
<1>2. v \in [0..1 -> Nat] /\ v[0] = 0 /\ v[1] = n
  OBVIOUS
<1> HIDE DEF d, v
<1>3. \A i \in 1..1 : v[i] = v[i - 1] * base + d[i]
  <2>1. v[1] = v[0] * base + d[1]
    BY <1>1, <1>2
  <2>2. \A i \in 1..1 : i = 1 /\ i - 1 = 0
    OBVIOUS
  <2> QED BY <2>1, <2>2
<1>4. AddsUp(v, d, base) /\ v[Len(d)] = n
  BY <1>1, <1>2, <1>3 DEF AddsUp
<1>5. Power(base)[1] = base
  <2>1. Power(base)[0 + 1] = base * Power(base)[0] /\ Power(base)[0] = 1
    BY PowerIs
  <2> QED BY <2>1
<1>6. IsDigits(d, base, n)
  BY <1>1, <1>4, <1>5 DEF IsDigits
<1> QED BY <1>6 DEF d

LEMMA DigitAppended ==
  ASSUME NEW base \in Nat, base > 1, NEW n \in Nat, n >= base,
         NEW e, IsDigits(e, base, n \div base)
  PROVE  IsDigits(Append(e, n % base), base, n)
<1> DEFINE q == n \div base
           r == n % base
           d == Append(e, r)
           k == Len(e)
           p(i) == Power(base)[i]
<1>1. q \in Nat /\ r \in 0..(base - 1) /\ n = base * q + r /\ q >= 1
  BY DivisionIs
<1>2. e \in Seq(0..(base - 1)) /\ k >= 1 /\ k \in Nat
  BY DEF IsDigits
<1>3. PICK v : AddsUp(v, e, base) /\ v[k] = q
  BY DEF IsDigits
<1>4. d \in Seq(0..(base - 1)) /\ Len(d) = k + 1
  BY <1>1, <1>2
<1>5. d[k + 1] = r /\ \A i \in 1..k : d[i] = e[i]
  BY <1>1, <1>2
<1>6. q < p(k) /\ (k = 1 \/ p(k - 1) <= q)
  BY DEF IsDigits
<1>7. /\ p(k + 1) = base * p(k) /\ p(k) \in Nat /\ p(k - 1) \in Nat
      /\ p(k) = base * p(k - 1) /\ p(0) = 1
  <2>1. k - 1 \in Nat /\ (k - 1) + 1 = k
    BY <1>2
  <2>2. p((k - 1) + 1) = base * p(k - 1)
    BY <2>1, PowerIs
  <2>3. p(k + 1) = base * p(k) /\ p(0) = 1
    BY <1>2, PowerIs
  <2>4. p(k) \in Nat /\ p(k - 1) \in Nat
    BY <1>2, <2>1, PowerIsNat
  <2> QED BY <2>1, <2>2, <2>3, <2>4
<1>8. v \in [0..k -> Nat] /\ v[0] = 0 /\ \A i \in 1..k : v[i] = v[i - 1] * base + e[i]
  BY <1>3 DEF AddsUp
<1> HIDE DEF q, r, d, k, p
<1> DEFINE w == [i \in 0..(k + 1) |-> IF i = k + 1 THEN n ELSE v[i]]
<1>9. /\ w \in [0..(k + 1) -> Nat] /\ w[0] = 0 /\ w[k + 1] = n
      /\ \A i \in 0..k : w[i] = v[i]
  BY <1>2, <1>8
<1> HIDE DEF w
<1>10. \A i \in 1..(k + 1) : w[i] = w[i - 1] * base + d[i]
  <2> SUFFICES ASSUME NEW i \in 1..(k + 1) PROVE w[i] = w[i - 1] * base + d[i]
    OBVIOUS
  <2>1. CASE i = k + 1
    <3>1. i - 1 = k /\ k \in 0..k
      BY <1>2, <2>1
    <3>2. w[k] = v[k] /\ v[k] = q /\ d[k + 1] = r
      BY <1>3, <1>5, <1>9, <3>1
    <3>3. w[i - 1] = q /\ d[i] = r
      BY <2>1, <3>1, <3>2
    <3>4. n = q * base + r
      BY <1>1
    <3>5. w[i] = n
      BY <1>9, <2>1
    <3> QED BY <3>3, <3>4, <3>5
  <2>2. CASE i # k + 1
    <3>1. i \in 1..k /\ i \in 0..k /\ i - 1 \in 0..k
      BY <1>2, <2>2
    <3> QED BY <1>5, <1>8, <1>9, <3>1
  <2> QED BY <2>1, <2>2
<1>11. AddsUp(w, d, base) /\ w[Len(d)] = n
  BY <1>4, <1>9, <1>10 DEF AddsUp
<1>12. n < p(k + 1)
  <2>1. q + 1 <= p(k)
    BY <1>1, <1>6, <1>7
  <2>2. base * (q + 1) <= base * p(k)
    BY <1>1, <1>7, <2>1
  <2>3. n < base * (q + 1)
    BY <1>1
  <2>4. base * (q + 1) \in Int /\ base * p(k) \in Int
    BY <1>1, <1>7
  <2> QED BY <1>7, <2>2, <2>3, <2>4
<1>13. p(k) <= n
  <2>1. p(k - 1) <= q
    <3>1. CASE k = 1
      BY <1>1, <1>7, <3>1
    <3> QED BY <1>6, <3>1
  <2>2. base * p(k - 1) <= base * q
    BY <1>1, <1>7, <2>1
  <2>3. base * q <= n /\ base * q \in Int
    BY <1>1
  <2> QED BY <1>7, <2>2, <2>3
<1>14. (k + 1) - 1 = k /\ k + 1 >= 1
  BY <1>2
<1>15. IsDigits(d, base, n)
  BY <1>4, <1>11, <1>12, <1>13, <1>14 DEF IsDigits, p
<1> QED BY <1>15 DEF d, r

(* do_div() has found the digits of every number below 2^W.                *)
LEMMA DigitsAre ==
  ASSUME NEW base \in Nat, base > 1, NEW num, Unsigned(num) \in 0..(Power(2)[W] - 1)
  PROVE  IsDigits(Digits(num, base), base, Unsigned(num))
<1> DEFINE m == Power(2)[W] - 1
           f == CHOOSE g : g = [n \in 0..m |-> DigitStep(g, base, n)]
<1>1. m \in Nat
  BY RangeIs
<1>2. f = [n \in 0..m |-> DigitStep(f, base, n)]
  <2> HIDE DEF m
  <2>1. \E g : g = [n \in 0..m |-> DigitStep(g, base, n)]
    BY <1>1, DigitsExist
  <2> QED BY <2>1
<1>3. Digits(num, base) = f[Unsigned(num)]
  BY DEF Digits, DigitStep
<1> HIDE DEF f, m
<1>4. \A n \in 0..m : f[n] = DigitStep(f, base, n)
  BY <1>2
<1> DEFINE T == {n \in Nat : \A j \in 0..n : j <= m => IsDigits(f[j], base, j)}
<1>5. ASSUME NEW j \in 0..m, \A i \in 0..m : i < j => IsDigits(f[i], base, i)
      PROVE  IsDigits(f[j], base, j)
  <2>1. CASE j < base
    <3>1. f[j] = <<j>>
      BY <1>4, <2>1 DEF DigitStep
    <3> QED BY <2>1, <3>1, OneDigit
  <2>2. CASE j >= base
    <3>1. j \in Nat /\ j > 0 /\ ~(j < base)
      BY <2>2
    <3>2. j \div base \in Nat /\ j \div base < j
      BY <3>1, DivisionIs
    <3>3. IsDigits(f[j \div base], base, j \div base)
      BY <1>1, <1>5, <3>2
    <3>4. f[j] = Append(f[j \div base], j % base)
      BY <1>4, <3>1 DEF DigitStep
    <3> QED BY <2>2, <3>1, <3>3, <3>4, DigitAppended
  <2> QED BY <2>1, <2>2
<1>6. 0 \in T
  BY <1>1, <1>5
<1>7. ASSUME NEW n \in Nat, n \in T PROVE n + 1 \in T
  <2> SUFFICES ASSUME NEW j \in 0..(n + 1), j <= m PROVE IsDigits(f[j], base, j)
    OBVIOUS
  <2>1. \A i \in 0..m : i < j => IsDigits(f[i], base, i)
    BY <1>7
  <2> QED BY <1>1, <1>5, <2>1
<1>8. Nat \subseteq T
  <2> HIDE DEF T
  <2> QED BY <1>6, <1>7, SetInduction
<1>9. \A n \in 0..m : IsDigits(f[n], base, n)
  BY <1>8
<1> QED BY <1>3, <1>9 DEF m

(* The number of digits is the least that the number needs.                *)
LEMMA LeastIs ==
  ASSUME NEW base \in Nat, base > 1, NEW n \in 0..(Power(2)[W] - 1), NEW d, IsDigits(d, base, n)
  PROVE  Least(n, base) = Len(d)
<1> DEFINE p(i) == Power(base)[i]
           k == Len(d)
<1>1. k \in Nat /\ k >= 1 /\ n < p(k) /\ (k = 1 \/ p(k - 1) <= n)
  BY DEF IsDigits
<1>2. /\ \A i \in Nat : p(i) \in Nat /\ p(i) >= 1
      /\ \A i, j \in Nat : i <= j => p(i) <= p(j)
      /\ p(0) = 1
  <2>1. \A i \in Nat : p(i) \in Nat
    BY PowerIsNat
  <2>2. \A i \in Nat : p(i) >= 1
    BY PowerRises
  <2>3. \A i, j \in Nat : i <= j => p(i) <= p(j)
    BY PowerIsMonotonic
  <2>4. p(0) = 1
    BY PowerIs
  <2> QED BY <2>1, <2>2, <2>3, <2>4
<1> HIDE DEF p, k
<1>3. n \in Nat
  BY RangeIs
<1>4. W \in Nat /\ W > 1
  BY PrintkAssumption
<1>5. k <= W
  <2> SUFFICES ASSUME k > W PROVE FALSE
    BY <1>1, <1>4
  <2>1. k - 1 \in Nat /\ W <= k - 1 /\ k # 1
    BY <1>1, <1>4
  <2>2. 2 \in Nat /\ 2 > 1
    OBVIOUS
  <2>3. Power(2)[W] <= Power(2)[k - 1]
    BY <1>4, <2>1, <2>2, PowerIsMonotonic
  <2>4. Power(2)[k - 1] <= p(k - 1)
    BY <2>1, TwoIsLeast DEF p
  <2>5. p(k - 1) <= n
    BY <1>1, <2>1
  <2> DEFINE q == Power(2)[W]
             s == Power(2)[k - 1]
  <2>6. q \in Nat /\ s \in Nat
    BY <1>4, <2>1, <2>2, PowerIsNat
  <2>7. n < q
    BY RangeIs
  <2>8. p(k - 1) \in Nat
    BY <1>2, <2>1
  <2> HIDE DEF q, s
  <2> QED BY <1>3, <2>3, <2>4, <2>5, <2>6, <2>7, <2>8 DEF q, s
<1>6. CASE n = 0
  <2>1. k = 1
    <3> SUFFICES ASSUME k # 1 PROVE FALSE
      OBVIOUS
    <3>1. k - 1 \in Nat /\ p(k - 1) <= n
      BY <1>1
    <3> QED BY <1>2, <1>6, <3>1
  <2> QED BY <1>6, <2>1 DEF Least, k
<1>7. CASE n # 0
  <2> DEFINE Fits(i) == p(i - 1) <= n /\ p(i) > n
  <2>1. Least(n, base) = CHOOSE i \in 1..W : Fits(i)
    BY <1>7 DEF Least, p
  <2>2. k \in 1..W /\ Fits(k)
    <3>1. p(k - 1) <= n
      <4>1. CASE k = 1
        BY <1>2, <1>3, <1>7, <4>1
      <4> QED BY <1>1, <4>1
    <3>2. p(k) > n
      BY <1>1, <1>2, <1>3
    <3> QED BY <1>1, <1>4, <1>5, <3>1, <3>2
  <2>3. ASSUME NEW i \in 1..W, Fits(i) PROVE i = k
    <3>1. i \in Nat /\ i - 1 \in Nat /\ k - 1 \in Nat
      BY <1>1, <1>4
    <3>2. p(i) \in Nat /\ p(i - 1) \in Nat /\ p(k) \in Nat /\ p(k - 1) \in Nat
      BY <1>1, <1>2, <3>1
    <3>3. ~(i <= k - 1)
      <4> SUFFICES ASSUME i <= k - 1 PROVE FALSE
        OBVIOUS
      <4>1. p(i) <= p(k - 1)
        BY <1>2, <3>1
      <4> QED BY <1>3, <2>2, <2>3, <3>2, <4>1
    <3>4. ~(k <= i - 1)
      <4> SUFFICES ASSUME k <= i - 1 PROVE FALSE
        OBVIOUS
      <4>1. p(k) <= p(i - 1)
        BY <1>1, <1>2, <3>1
      <4> QED BY <1>3, <2>2, <2>3, <3>2, <4>1
    <3> QED BY <1>1, <3>1, <3>3, <3>4
  <2> HIDE DEF Fits
  <2>4. Least(n, base) = k
    BY <2>1, <2>2, <2>3
  <2> QED BY <2>4 DEF k
<1> QED BY <1>6, <1>7

(* What a reader makes of a text, character by character.                  *)
ReadTo(f, text, base) ==
  /\ f \in [0..Len(text) -> Nat] /\ f[0] = 0
  /\ \A i \in 1..Len(text) :
       f[i] = IF text[i] \in 0..35 THEN f[i - 1] * base + text[i] ELSE f[i - 1]

LEMMA ReadsNat == \A n, base \in Nat, c \in 0..35 : n * base + c \in Nat
<1> TAKE n, base \in Nat, c \in 0..35
<1>1. n * base \in Nat
  OBVIOUS
<1> DEFINE p == n * base
<1> HIDE DEF p
<1>2. p + c \in Nat
  BY <1>1 DEF p
<1> QED BY <1>2 DEF p

LEMMA ValueUnfolds ==
  ASSUME NEW text, Len(text) \in Nat, NEW base \in Nat
  PROVE  \E f : ReadTo(f, text, base) /\ ValueOf(text, base) = f[Len(text)]
<1> DEFINE l == Len(text)
           Read(i, n) == IF text[i] \in 0..35 THEN n * base + text[i] ELSE n
           Upto(f, i) == IF i = 0 THEN 0
                         ELSE IF i \in DigitsOf(text) THEN f[i - 1] * base + text[i]
                         ELSE f[i - 1]
           v == CHOOSE f : f = [i \in 0..l |-> Upto(f, i)]
           g == [s \in Nat \X Nat |-> Read(s[1] + 1, s[2])]
<1>1. \A i, n \in Nat : Read(i, n) \in Nat
  <2> SUFFICES ASSUME NEW i \in Nat, NEW n \in Nat PROVE Read(i, n) \in Nat
    OBVIOUS
  <2>1. CASE text[i] \in 0..35
    BY <2>1, ReadsNat
  <2>2. CASE text[i] \notin 0..35
    BY <2>2
  <2> QED BY <2>1, <2>2
<1>2. g \in Stepping(Nat) /\ \A i, n \in Nat : g[<<i, n>>] = Read(i + 1, n)
  <2> HIDE DEF Read
  <2>1. \A s \in Nat \X Nat : s[1] + 1 \in Nat /\ s[2] \in Nat
    OBVIOUS
  <2>2. \A s \in Nat \X Nat : Read(s[1] + 1, s[2]) \in Nat
    BY <1>1, <2>1
  <2> QED BY <2>2 DEF Stepping
<1>3. ValueOf(text, base) = v[l]
  BY DEF ValueOf
<1> HIDE DEF g
<1>4. PICK h \in [Nat -> Nat] : h[0] = 0 /\ \A k \in Nat : h[k + 1] = g[<<k, h[k]>>]
  <2> DEFINE S == Nat
  <2>1. g \in Stepping(S) /\ 0 \in S
    BY <1>2
  <2> HIDE DEF S
  <2>2. \E f \in [Nat -> S] : f[0] = 0 /\ \A k \in Nat : f[k + 1] = g[<<k, f[k]>>]
    BY <2>1, Recursion
  <2> QED BY <2>2 DEF S
<1>5. \A k \in Nat : h[k + 1] = Read(k + 1, h[k])
  <2> HIDE DEF Read
  <2> QED BY <1>2, <1>4
<1> DEFINE f == [i \in 0..l |-> h[i]]
<1>6. \A i \in 0..l : f[i] = Upto(f, i)
  <2> SUFFICES ASSUME NEW i \in 0..l PROVE f[i] = Upto(f, i)
    OBVIOUS
  <2>1. CASE i = 0
    BY <1>4, <2>1
  <2>2. CASE i # 0
    <3>1. i - 1 \in Nat /\ (i - 1) + 1 = i /\ i \in 1..l /\ i - 1 \in 0..l
      BY <2>2
    <3>2. h[i] = Read(i, h[i - 1])
      BY <1>5, <3>1
    <3>3. f[i] = h[i] /\ f[i - 1] = h[i - 1]
      BY <3>1
    <3>4. i \in DigitsOf(text) <=> text[i] \in 0..35
      BY <3>1 DEF DigitsOf
    <3> HIDE DEF f
    <3> QED BY <2>2, <3>2, <3>3, <3>4
  <2> QED BY <2>1, <2>2
<1>7. f = [i \in 0..l |-> f[i]]
  BY <1>4
<1> HIDE DEF f, l
<1>8. v = [i \in 0..l |-> Upto(v, i)]
  <2> HIDE DEF Upto
  <2>1. f = [i \in 0..l |-> Upto(f, i)]
    BY <1>6, <1>7, Zenon
  <2> QED BY <2>1
<1> HIDE DEF v
<1>9. v[0] = 0 /\ \A i \in 1..l : v[i] = IF text[i] \in 0..35 THEN v[i - 1] * base + text[i] ELSE v[i - 1]
  <2>1. l \in Nat
    BY DEF l
  <2>2. v[0] = 0
    BY <1>8, <2>1
  <2>3. ASSUME NEW i \in 1..l
        PROVE  v[i] = IF text[i] \in 0..35 THEN v[i - 1] * base + text[i] ELSE v[i - 1]
    <3>1. i \in 0..l /\ i # 0
      BY <2>1
    <3>2. v[i] = Upto(v, i)
      BY <1>8, <3>1
    <3>3. i \in DigitsOf(text) <=> text[i] \in 0..35
      BY DEF DigitsOf, l
    <3> QED BY <3>1, <3>2, <3>3
  <2> QED BY <2>2, <2>3
<1>10. \A i \in 0..l : v[i] \in Nat
  <2> DEFINE T == {i \in Nat : i <= l => v[i] \in Nat}
  <2>1. 0 \in T
    BY <1>9
  <2>2. ASSUME NEW i \in Nat, i \in T PROVE i + 1 \in T
    <3> SUFFICES ASSUME i + 1 <= l PROVE v[i + 1] \in Nat
      OBVIOUS
    <3>1. i + 1 \in 1..l /\ (i + 1) - 1 = i /\ v[i] \in Nat
      BY <2>2 DEF l
    <3>2. v[i + 1] = IF text[i + 1] \in 0..35 THEN v[i] * base + text[i + 1] ELSE v[i]
      BY <1>9, <3>1
    <3>3. CASE text[i + 1] \in 0..35
      BY <3>1, <3>2, <3>3, ReadsNat
    <3>4. CASE text[i + 1] \notin 0..35
      BY <3>1, <3>2, <3>4
    <3> QED BY <3>3, <3>4
  <2>3. Nat \subseteq T
    <3> HIDE DEF T
    <3> QED BY <2>1, <2>2, SetInduction
  <2> QED BY <2>3
<1>11. v \in [0..l -> Nat]
  <2> HIDE DEF Upto
  <2> QED BY <1>8, <1>10
<1>12. ReadTo(v, text, base)
  BY <1>9, <1>11 DEF ReadTo, l
<1> QED BY <1>3, <1>12 DEF l

----------------------------------------------------------------------------
(* The text of a number: a blanks, a head h of sign and prefix, z zeros,   *)
(* the digits d and b blanks.                                              *)
Printable == 0..35 \cup {Blank, Percent, Minus, Plus, LetterX, SmallX}

LaidOut(t, a, h, z, d, b) ==
  /\ t \in Seq(Printable) /\ Len(t) = a + Len(h) + z + Len(d) + b
  /\ \A i \in 1..a : t[i] = Blank
  /\ \A i \in 1..Len(h) : t[a + i] = h[i]
  /\ \A i \in 1..z : t[a + Len(h) + i] = 0
  /\ \A i \in 1..Len(d) : t[a + Len(h) + z + i] = d[i]
  /\ \A i \in 1..b : t[a + Len(h) + z + Len(d) + i] = Blank

(* A head adds nothing to the number and has no blank but in front.        *)
IsHead(h) ==
  /\ h \in Seq(Printable)
  /\ \A i \in 1..Len(h) : h[i] \in 0..35 => h[i] = 0
  /\ \A i \in 1..Len(h) : h[i] = Blank => i = 1

HasMinus(s) == {i \in 1..Len(s) : s[i] = Minus} # {}

(* Where each character of the text comes from.                            *)
From(t, i, a, l, z, k, h, d) ==
  \/ i <= a /\ t[i] = Blank
  \/ i > a /\ i <= a + l /\ i - a \in 1..l /\ t[i] = h[i - a]
  \/ i > a + l /\ i <= a + l + z /\ t[i] = 0
  \/ i > a + l + z /\ i <= a + l + z + k /\ i - (a + l + z) \in 1..k /\ t[i] = d[i - (a + l + z)]
  \/ i > a + l + z + k /\ t[i] = Blank

LEMMA CharacterFrom ==
  ASSUME NEW t, NEW a \in Nat, NEW h, Len(h) \in Nat, NEW z \in Nat, NEW d, Len(d) \in Nat,
         NEW b \in Nat, LaidOut(t, a, h, z, d, b), NEW i \in 1..Len(t)
  PROVE  From(t, i, a, Len(h), z, Len(d), h, d)
<1> DEFINE l == Len(h)
           k == Len(d)
           n == Len(t)
<1>1. /\ n = a + l + z + k + b
      /\ \A j \in 1..a : t[j] = Blank
      /\ \A j \in 1..l : t[a + j] = h[j]
      /\ \A j \in 1..z : t[a + l + j] = 0
      /\ \A j \in 1..k : t[a + l + z + j] = d[j]
      /\ \A j \in 1..b : t[a + l + z + k + j] = Blank
  BY DEF LaidOut
<1>2. l \in Nat /\ k \in Nat /\ i \in 1..n
  OBVIOUS
<1> HIDE DEF l, k, n
<1>3. i \in Nat /\ i >= 1 /\ i <= a + l + z + k + b
  BY <1>1, <1>2
<1>4. CASE i <= a
  BY <1>1, <1>3, <1>4 DEF From, l, k
<1>5. CASE i > a /\ i <= a + l
  <2>1. i - a \in 1..l /\ a + (i - a) = i
    BY <1>2, <1>3, <1>5
  <2> QED BY <1>1, <1>5, <2>1 DEF From, l, k
<1>6. CASE i > a + l /\ i <= a + l + z
  <2> DEFINE j == i - (a + l)
  <2>1. j \in 1..z /\ a + l + j = i
    BY <1>2, <1>3, <1>6
  <2> HIDE DEF j
  <2> QED BY <1>1, <1>6, <2>1 DEF From, l, k
<1>7. CASE i > a + l + z /\ i <= a + l + z + k
  <2> DEFINE j == i - (a + l + z)
  <2>1. j \in 1..k /\ a + l + z + j = i
    BY <1>2, <1>3, <1>7
  <2>2. t[i] = d[j]
    <3> HIDE DEF j
    <3> QED BY <1>1, <2>1
  <2> QED BY <1>7, <2>1, <2>2 DEF From, l, k
<1>8. CASE i > a + l + z + k
  <2> DEFINE j == i - (a + l + z + k)
  <2>1. j \in 1..b /\ a + l + z + k + j = i
    BY <1>2, <1>3, <1>8
  <2> HIDE DEF j
  <2> QED BY <1>1, <1>8, <2>1 DEF From, l, k
<1> QED BY <1>2, <1>3, <1>4, <1>5, <1>6, <1>7, <1>8

LEMMA CharactersDiffer ==
  /\ Blank \notin 0..35 /\ Minus \notin 0..35 /\ Plus \notin 0..35
  /\ LetterX \notin 0..35 /\ SmallX \notin 0..35
  /\ Blank # Minus /\ Blank # Plus /\ Blank # LetterX /\ Blank # SmallX
  /\ Minus # Plus /\ Minus # LetterX /\ Minus # SmallX
<1>1. 0..35 \subseteq Int
  OBVIOUS
<1> QED BY <1>1, CharactersAssumption

(* The digits are read, and nothing else counts.                           *)
LEMMA LayoutValue ==
  ASSUME NEW t, NEW a \in Nat, NEW h, Len(h) \in Nat, NEW z \in Nat, NEW d, NEW b \in Nat,
         LaidOut(t, a, h, z, d, b), IsHead(h),
         NEW base \in 2..36, NEW n, IsDigits(d, base, n)
  PROVE  ValueOf(t, base) = n
<1> DEFINE l == Len(h)
           k == Len(d)
           u == a + l + z
<1>1. PICK v : AddsUp(v, d, base) /\ v[k] = n
  BY DEF IsDigits
<1>2. v \in [0..k -> Nat] /\ v[0] = 0 /\ \A i \in 1..k : v[i] = v[i - 1] * base + d[i]
  BY <1>1 DEF AddsUp
<1>3. k \in Nat /\ l \in Nat /\ \A i \in 1..k : d[i] \in 0..35
  <2> DEFINE S == 0..(base - 1)
  <2>1. d \in Seq(S) /\ S \subseteq 0..35
    BY DEF IsDigits
  <2> HIDE DEF S
  <2>2. k \in Nat /\ \A i \in 1..k : d[i] \in S
    BY <2>1
  <2> QED BY <2>1, <2>2
<1>4. Len(t) = u + k + b /\ Len(t) \in Nat
  BY <1>3 DEF LaidOut
<1>5. base \in Nat
  OBVIOUS
<1>6. PICK f : ReadTo(f, t, base) /\ ValueOf(t, base) = f[Len(t)]
  BY <1>4, <1>5, ValueUnfolds
<1>7. \A i \in 1..Len(t) : From(t, i, a, l, z, k, h, d)
  BY <1>3, CharacterFrom
<1>8. \A i \in 1..l : h[i] \in 0..35 => h[i] = 0
  BY DEF IsHead
<1>9. Blank \notin 0..35
  BY CharactersDiffer
<1> DEFINE e == Len(t)
<1>10. /\ f[0] = 0
       /\ \A i \in 1..e : f[i] = IF t[i] \in 0..35 THEN f[i - 1] * base + t[i] ELSE f[i - 1]
       /\ \A i \in 0..e : f[i] \in Nat
  BY <1>6 DEF ReadTo
<1>11. ValueOf(t, base) = f[e]
  BY <1>6
<1>12. u \in Nat /\ u = a + l + z /\ e = u + k + b /\ e \in Nat
  BY <1>3, <1>4
<1> HIDE DEF l, k, u, e
<1>13. ASSUME NEW i \in 1..e, i <= u PROVE t[i] \in 0..35 => t[i] = 0
  <2>1. From(t, i, a, l, z, k, h, d)
    BY <1>7 DEF e
  <2>2. ~(i > a + l + z)
    BY <1>3, <1>12, <1>13
  <2>3. \/ t[i] = Blank
        \/ i - a \in 1..l /\ t[i] = h[i - a]
        \/ t[i] = 0
    BY <1>3, <1>12, <2>1, <2>2 DEF From
  <2> QED BY <1>8, <1>9, <2>3
<1>14. f[u] = 0
  <2> DEFINE T == {i \in Nat : i <= u => f[i] = 0}
  <2>1. 0 \in T
    BY <1>10
  <2>2. ASSUME NEW i \in Nat, i \in T PROVE i + 1 \in T
    <3> SUFFICES ASSUME i + 1 <= u PROVE f[i + 1] = 0
      OBVIOUS
    <3>1. i + 1 \in 1..e /\ (i + 1) - 1 = i /\ f[i] = 0
      BY <1>3, <1>12, <2>2
    <3>2. t[i + 1] \in 0..35 => t[i + 1] = 0
      BY <1>13, <3>1
    <3>3. f[i + 1] = IF t[i + 1] \in 0..35 THEN 0 * base + t[i + 1] ELSE 0
      BY <1>10, <3>1
    <3>4. 0 * base + 0 = 0
      BY <1>5
    <3> QED BY <3>2, <3>3, <3>4
  <2>3. Nat \subseteq T
    <3> HIDE DEF T
    <3> QED BY <2>1, <2>2, SetInduction
  <2> QED BY <1>12, <2>3
<1>15. f[u + k] = n
  <2> DEFINE T == {i \in Nat : i <= k => f[u + i] = v[i]}
  <2>1. 0 \in T
    BY <1>2, <1>12, <1>14
  <2>2. ASSUME NEW i \in Nat, i \in T PROVE i + 1 \in T
    <3> SUFFICES ASSUME i + 1 <= k PROVE f[u + (i + 1)] = v[i + 1]
      OBVIOUS
    <3> DEFINE j == u + (i + 1)
    <3>1. j \in 1..e /\ j - 1 = u + i /\ i + 1 \in 1..k /\ (i + 1) - 1 = i
      BY <1>3, <1>12
    <3>2. f[u + i] = v[i]
      <4>1. i <= k
        BY <1>3
      <4> QED BY <2>2, <4>1
    <3>3. t[j] = d[i + 1]
      <4>1. \A m \in 1..k : t[a + l + z + m] = d[m]
        BY DEF LaidOut, l, k
      <4>2. j = a + l + z + (i + 1)
        BY <1>12
      <4> QED BY <3>1, <4>1, <4>2
    <3> HIDE DEF j
    <3>4. d[i + 1] \in 0..35
      BY <1>3, <3>1
    <3>5. f[j] = f[j - 1] * base + t[j]
      BY <1>10, <3>1, <3>3, <3>4
    <3>6. v[i + 1] = v[i] * base + d[i + 1]
      BY <1>2, <3>1
    <3>7. f[j] = v[i + 1]
      BY <3>1, <3>2, <3>3, <3>5, <3>6
    <3> QED BY <3>7 DEF j
  <2>3. Nat \subseteq T
    <3> HIDE DEF T
    <3> QED BY <2>1, <2>2, SetInduction
  <2>4. f[u + k] = v[k]
    BY <1>3, <2>3
  <2> QED BY <1>1, <2>4 DEF k
<1>16. f[e] = n
  <2> DEFINE T == {i \in Nat : i <= b => f[u + k + i] = n}
  <2>1. 0 \in T
    BY <1>3, <1>12, <1>15
  <2>2. ASSUME NEW i \in Nat, i \in T PROVE i + 1 \in T
    <3> SUFFICES ASSUME i + 1 <= b PROVE f[u + k + (i + 1)] = n
      OBVIOUS
    <3> DEFINE j == u + k + (i + 1)
    <3>1. j \in 1..e /\ j - 1 = u + k + i /\ i + 1 \in 1..b
      BY <1>3, <1>12
    <3>2. f[u + k + i] = n
      BY <2>2
    <3>3. t[j] = Blank
      <4>1. \A m \in 1..b : t[a + l + z + k + m] = Blank
        BY DEF LaidOut, l, k
      <4>2. j = a + l + z + k + (i + 1)
        BY <1>12
      <4> QED BY <3>1, <4>1, <4>2
    <3> HIDE DEF j
    <3>4. f[j] = f[j - 1]
      BY <1>9, <1>10, <3>1, <3>3
    <3>5. f[j] = n
      BY <3>1, <3>2, <3>4
    <3> QED BY <3>5 DEF j
  <2>3. Nat \subseteq T
    <3> HIDE DEF T
    <3> QED BY <2>1, <2>2, SetInduction
  <2> QED BY <1>12, <2>3
<1> QED BY <1>11, <1>16

LEMMA LayoutSizes ==
  ASSUME NEW t, NEW a, NEW h, NEW z, NEW d, NEW b, LaidOut(t, a, h, z, d, b),
         NEW base \in 2..36, NEW n, IsDigits(d, base, n)
  PROVE  /\ Len(t) \in Nat /\ Len(t) = a + Len(h) + z + Len(d) + b
         /\ Len(d) \in Nat /\ Len(d) >= 1
         /\ \A i \in 1..Len(d) : d[i] \in 0..35
<1>1. t \in Seq(Printable) /\ Len(t) = a + Len(h) + z + Len(d) + b
  BY DEF LaidOut
<1> DEFINE S == 0..(base - 1)
<1>2. d \in Seq(S) /\ Len(d) >= 1 /\ S \subseteq 0..35
  BY DEF IsDigits
<1> HIDE DEF S
<1>3. Len(d) \in Nat /\ \A i \in 1..Len(d) : d[i] \in S
  BY <1>2
<1>4. Len(t) \in Nat
  BY <1>1
<1> QED BY <1>1, <1>2, <1>3, <1>4

LEMMA LayoutDigits ==
  ASSUME NEW t, NEW a \in Nat, NEW h, Len(h) \in Nat, NEW z \in Nat, NEW d, NEW b \in Nat,
         LaidOut(t, a, h, z, d, b), NEW base \in 2..36, NEW n, IsDigits(d, base, n)
  PROVE  Cardinality(DigitsOf(t)) \in Nat /\ Cardinality(DigitsOf(t)) >= z + Len(d)
<1> DEFINE l == Len(h)
           k == Len(d)
           e == Len(t)
           lo == a + l + 1
           hi == a + l + z + k
<1>1. /\ e \in Nat /\ e = a + l + z + k + b /\ k \in Nat /\ k >= 1 /\ l \in Nat
      /\ \A i \in 1..k : d[i] \in 0..35
  BY LayoutSizes
<1>2. \A i \in 1..e : From(t, i, a, l, z, k, h, d)
  BY <1>1, CharacterFrom
<1>3. /\ lo \in Int /\ hi \in Int /\ lo >= 1 /\ hi <= e /\ lo <= hi /\ hi - lo + 1 = z + k
      /\ lo = a + l + 1 /\ hi = a + l + z + k
  BY <1>1
<1> DEFINE D == DigitsOf(t)
<1>4. IsFiniteSet(1..e) /\ D \subseteq 1..e
  <2>1. 1 \in Int /\ e \in Int
    BY <1>1
  <2> QED BY <2>1, FS_Interval DEF DigitsOf
<1>5. IsFiniteSet(D)
  BY <1>4, FS_Subset
<1> HIDE DEF l, k, e, lo, hi
<1>6. lo..hi \subseteq D
  <2> SUFFICES ASSUME NEW i \in lo..hi PROVE i \in D
    OBVIOUS
  <2>1. i \in 1..e /\ i \in Int /\ ~(i <= a) /\ ~(i <= a + l) /\ ~(i > a + l + z + k)
    BY <1>1, <1>3
  <2>2. From(t, i, a, l, z, k, h, d)
    BY <1>2, <2>1
  <2>3. t[i] = 0 \/ (i - (a + l + z) \in 1..k /\ t[i] = d[i - (a + l + z)])
    BY <2>1, <2>2 DEF From
  <2>4. t[i] \in 0..35
    <3>1. CASE t[i] = 0
      BY <3>1
    <3> QED BY <1>1, <2>3, <3>1
  <2> QED BY <2>1, <2>4 DEF DigitsOf, e
<1>7. Cardinality(lo..hi) = z + k
  BY <1>3, FS_Interval
<1>8. Cardinality(lo..hi) <= Cardinality(D)
  BY <1>5, <1>6, FS_Subset
<1>9. Cardinality(D) \in Nat
  BY <1>5, FS_CardinalityType
<1>10. z + k \in Nat
  BY <1>1
<1> HIDE DEF D
<1>11. Cardinality(D) >= z + k
  BY <1>7, <1>8, <1>9, <1>10
<1> QED BY <1>9, <1>11 DEF D, k

LEMMA LayoutMinus ==
  ASSUME NEW t, NEW a \in Nat, NEW h, Len(h) \in Nat, NEW z \in Nat, NEW d, NEW b \in Nat,
         LaidOut(t, a, h, z, d, b), NEW base \in 2..36, NEW n, IsDigits(d, base, n)
  PROVE  HasMinus(t) <=> HasMinus(h)
<1> DEFINE l == Len(h)
           k == Len(d)
           e == Len(t)
<1>1. /\ e \in Nat /\ e = a + l + z + k + b /\ k \in Nat /\ k >= 1 /\ l \in Nat
      /\ \A i \in 1..k : d[i] \in 0..35
  BY LayoutSizes
<1>2. \A i \in 1..e : From(t, i, a, l, z, k, h, d)
  BY <1>1, CharacterFrom
<1>3. (\E i \in 1..l : h[i] = Minus) <=> HasMinus(h)
  BY DEF HasMinus
<1>4. \A i \in 1..l : t[a + i] = h[i]
  BY DEF LaidOut
<1> HIDE DEF l, k, e
<1>5. ASSUME NEW i \in 1..e, t[i] = Minus PROVE \E j \in 1..l : h[j] = Minus
  <2>1. t[i] \notin 0..35 /\ t[i] # Blank /\ t[i] # 0
    BY <1>5, CharactersDiffer
  <2>2. From(t, i, a, l, z, k, h, d)
    BY <1>2
  <2>3. i - a \in 1..l /\ t[i] = h[i - a]
    BY <1>1, <2>1, <2>2 DEF From
  <2> QED BY <1>5, <2>3
<1>6. ASSUME NEW j \in 1..l, h[j] = Minus PROVE \E i \in 1..e : t[i] = Minus
  <2>1. a + j \in 1..e
    BY <1>1
  <2>2. t[a + j] = Minus
    BY <1>4, <1>6
  <2> QED BY <2>1, <2>2
<1>7. (\E i \in 1..e : t[i] = Minus) <=> HasMinus(h)
  BY <1>3, <1>5, <1>6
<1>8. (\E i \in 1..e : t[i] = Minus) <=> HasMinus(t)
  BY DEF HasMinus, e
<1> QED BY <1>7, <1>8

(* Blanks stand at one end, and of those a left-justified text has only    *)
(* the sign stands in front.                                               *)
BlanksAtAnEnd(t, left) ==
  LET blanks == {i \in 1..Len(t) : t[i] = Blank}
  IN  /\ \A i, k \in 1..Len(t) : \A j \in i..k : j \in blanks => i \in blanks \/ k \in blanks
      /\ left => \A i \in blanks : i > 1 => \A k \in i..Len(t) : k \in blanks

LEMMA LayoutBlanks ==
  ASSUME NEW t, NEW a \in Nat, NEW h, Len(h) \in Nat, NEW z \in Nat, NEW d, NEW b \in Nat,
         LaidOut(t, a, h, z, d, b), IsHead(h),
         NEW base \in 2..36, NEW n, IsDigits(d, base, n),
         a = 0 \/ b = 0, NEW left, left => a = 0
  PROVE  BlanksAtAnEnd(t, left)
<1> DEFINE l == Len(h)
           k == Len(d)
           e == Len(t)
           u == a + l + z + k
<1>1. /\ e \in Nat /\ e = a + l + z + k + b /\ k \in Nat /\ k >= 1 /\ l \in Nat
      /\ \A i \in 1..k : d[i] \in 0..35
  BY LayoutSizes
<1>2. \A i \in 1..e : From(t, i, a, l, z, k, h, d)
  BY <1>1, CharacterFrom
<1>3. \A i \in 1..l : h[i] = Blank => i = 1
  BY DEF IsHead
<1>4. \A i \in 1..l : t[a + i] = h[i]
  BY DEF LaidOut
<1>5. /\ \A i \in 1..a : t[i] = Blank
      /\ \A i \in 1..b : t[u + i] = Blank
  BY DEF LaidOut
<1>6. u \in Nat /\ u = a + l + z + k /\ e = u + b /\ u >= a + 1
  BY <1>1
<1> HIDE DEF l, k, e, u
<1>7. ASSUME NEW i \in 1..e, t[i] = Blank PROVE i <= a + 1 \/ i > u
  <2>1. t[i] \notin 0..35 /\ t[i] # 0
    BY <1>7, CharactersDiffer
  <2>2. From(t, i, a, l, z, k, h, d)
    BY <1>2
  <2>3. i <= a \/ i > u \/ (i - a \in 1..l /\ t[i] = h[i - a])
    BY <1>1, <1>6, <2>1, <2>2 DEF From
  <2>4. i - a \in 1..l /\ t[i] = h[i - a] => i - a = 1
    BY <1>3, <1>7
  <2> QED BY <2>3, <2>4
<1>8. ASSUME NEW i \in 1..e, i <= a \/ i > u PROVE t[i] = Blank
  <2>1. CASE i <= a
    BY <1>5, <2>1
  <2>2. CASE i > u
    <3>1. i \in Int /\ i <= u + b /\ u \in Int
      BY <1>6
    <3>2. i - u \in 1..b /\ u + (i - u) = i
      BY <2>2, <3>1
    <3> QED BY <1>5, <3>2
  <2> QED BY <1>8, <2>1, <2>2
<1> DEFINE blanks == {i \in 1..e : t[i] = Blank}
<1>9. ASSUME NEW i \in 1..e, NEW j \in blanks, i <= j, j <= a + 1
      PROVE  i \in blanks
  <2>1. CASE i = j
    BY <2>1
  <2>2. CASE i <= a
    BY <1>8, <2>2
  <2>3. j \in Int
    OBVIOUS
  <2> QED BY <1>9, <2>1, <2>2, <2>3
<1>10. ASSUME NEW i, NEW m, i \in 1..e, m \in 1..e, NEW j \in i..m, j \in blanks
       PROVE  i \in blanks \/ m \in blanks
  <2>1. j \in 1..e /\ i <= j /\ j <= m
    BY <1>10
  <2>2. CASE j <= a + 1
    BY <1>9, <1>10, <2>1, <2>2
  <2>3. CASE j > u
    <3>1. m > u
      BY <1>6, <1>10, <2>1, <2>3
    <3> QED BY <1>8, <1>10, <3>1
  <2>4. j <= a + 1 \/ j > u
    BY <1>7, <1>10
  <2> QED BY <2>2, <2>3, <2>4
<1>11. ASSUME left, NEW i \in blanks, i > 1, NEW m \in i..e PROVE m \in blanks
  <2>1. i \in 1..e /\ t[i] = Blank /\ a = 0
    BY <1>11
  <2>2. i > u
    BY <1>7, <1>11, <2>1
  <2>3. m \in 1..e /\ m > u
    BY <1>6, <2>1, <2>2
  <2> QED BY <1>8, <2>3
<1> HIDE DEF blanks
<1>12. /\ \A i, m \in 1..e : \A j \in i..m : j \in blanks => i \in blanks \/ m \in blanks
       /\ left => \A i \in blanks : i > 1 => \A m \in i..e : m \in blanks
  BY <1>10, <1>11
<1> QED BY <1>12 DEF BlanksAtAnEnd, blanks, e

(* Padding and joining.                                                    *)
LEMMA RepeatIs ==
  ASSUME NEW n \in Int, NEW c, NEW S, c \in S
  PROVE  /\ Repeat(n, c) \in Seq(S) /\ Len(Repeat(n, c)) = Larger(n, 0)
         /\ Larger(n, 0) \in Nat
         /\ \A i \in 1..Larger(n, 0) : Repeat(n, c)[i] = c
<1> DEFINE m == Larger(n, 0)
<1>1. m \in Nat
  BY DEF Larger
<1> HIDE DEF m
<1> DEFINE r == [i \in 1..m |-> c]
<1>2. r \in Seq(S) /\ Len(r) = m /\ \A i \in 1..m : r[i] = c
  BY <1>1
<1>3. Repeat(n, c) = r
  BY DEF Repeat, m
<1> HIDE DEF r
<1> QED BY <1>1, <1>2, <1>3 DEF m

LEMMA NothingRepeated == \A c : Repeat(0, c) = << >>
<1> TAKE c
<1>1. Larger(0, 0) = 0
  BY DEF Larger
<1>2. Repeat(0, c) = [i \in 1..0 |-> c]
  BY <1>1 DEF Repeat
<1> DEFINE r == [i \in 1..0 |-> c]
<1>3. r \in Seq({c}) /\ Len(r) = 0
  OBVIOUS
<1> HIDE DEF r
<1>4. r = << >>
  BY <1>3, EmptySeq
<1> QED BY <1>2, <1>4 DEF r

(* j joins s, of m characters, and t, of n.                                *)
Joined(j, s, m, t, n) ==
  /\ j \in Seq(Printable) /\ Len(j) = m + n
  /\ \A i \in 1..m : j[i] = s[i]
  /\ \A i \in 1..n : j[m + i] = t[i]

LEMMA JoinIs ==
  ASSUME NEW s \in Seq(Printable), NEW t \in Seq(Printable), NEW m, NEW n,
         Len(s) = m, Len(t) = n
  PROVE  Joined(s \o t, s, m, t, n)
<1>1. m \in Nat /\ n \in Nat
  OBVIOUS
<1>2. /\ s \o t \in Seq(Printable) /\ Len(s \o t) = Len(s) + Len(t)
      /\ \A i \in 1..(Len(s) + Len(t)) :
           (s \o t)[i] = IF i <= Len(s) THEN s[i] ELSE t[i - Len(s)]
  BY ConcatProperties
<1> DEFINE j == s \o t
<1>3. /\ j \in Seq(Printable) /\ Len(j) = m + n
      /\ \A i \in 1..(m + n) : j[i] = IF i <= m THEN s[i] ELSE t[i - m]
  BY <1>2
<1> HIDE DEF j
<1>4. \A i \in 1..m : j[i] = s[i]
  BY <1>1, <1>3
<1>5. ASSUME NEW i \in 1..n PROVE j[m + i] = t[i]
  <2>1. m + i \in 1..(m + n) /\ ~(m + i <= m) /\ (m + i) - m = i
    BY <1>1
  <2> QED BY <1>3, <2>1
<1>6. Joined(j, s, m, t, n)
  BY <1>3, <1>4, <1>5 DEF Joined
<1> QED BY <1>6 DEF j

(* The general text, some of whose parts are empty.                        *)
Stacked(blanks, h, pad, z, d, w) ==
  (((Repeat(blanks, Blank) \o h) \o Repeat(pad, 0)) \o (Repeat(z, 0) \o d)) \o Repeat(w, Blank)

LEMMA StackedIsLaidOut ==
  ASSUME NEW blanks \in Int, NEW h \in Seq(Printable), NEW pad \in Int, NEW z \in Int,
         NEW d \in Seq(Printable), NEW w \in Int
  PROVE  LaidOut(Stacked(blanks, h, pad, z, d, w), Larger(blanks, 0), h, Larger(pad, 0) + Larger(z, 0), d,
                 Larger(w, 0))
<1> DEFINE a == Larger(blanks, 0)
           p == Larger(pad, 0)
           q == Larger(z, 0)
           b == Larger(w, 0)
           l == Len(h)
           k == Len(d)
           A == Repeat(blanks, Blank)
           P == Repeat(pad, 0)
           Q == Repeat(z, 0)
           B == Repeat(w, Blank)
           s1 == A \o h
           s2 == s1 \o P
           s3 == Q \o d
           s4 == s2 \o s3
           t == s4 \o B
<1>1. Blank \in Printable /\ 0 \in Printable
  <2>1. 0 \in 0..35
    OBVIOUS
  <2> QED BY <2>1 DEF Printable
<1>2. /\ A \in Seq(Printable) /\ Len(A) = a /\ a \in Nat /\ \A i \in 1..a : A[i] = Blank
      /\ P \in Seq(Printable) /\ Len(P) = p /\ p \in Nat /\ \A i \in 1..p : P[i] = 0
      /\ Q \in Seq(Printable) /\ Len(Q) = q /\ q \in Nat /\ \A i \in 1..q : Q[i] = 0
      /\ B \in Seq(Printable) /\ Len(B) = b /\ b \in Nat /\ \A i \in 1..b : B[i] = Blank
  BY <1>1, RepeatIs
<1>3. Stacked(blanks, h, pad, z, d, w) = t
  BY DEF Stacked
<1> HIDE DEF A, P, Q, B, a, p, q, b, l, k
<1>4. l \in Nat /\ k \in Nat /\ l = Len(h) /\ k = Len(d)
  BY DEF l, k
<1>5. /\ s1 \in Seq(Printable) /\ Len(s1) = a + l
      /\ \A i \in 1..a : s1[i] = A[i]
      /\ \A i \in 1..l : s1[a + i] = h[i]
  <2>1. Joined(s1, A, a, h, l)
    BY <1>2, <1>4, JoinIs
  <2> HIDE DEF s1
  <2> QED BY <2>1 DEF Joined
<1> HIDE DEF s1
<1>6. /\ s2 \in Seq(Printable) /\ Len(s2) = (a + l) + p
      /\ \A i \in 1..(a + l) : s2[i] = s1[i]
      /\ \A i \in 1..p : s2[(a + l) + i] = P[i]
  <2>1. Joined(s2, s1, (a + l), P, p)
    BY <1>2, <1>5, JoinIs
  <2> HIDE DEF s2
  <2> QED BY <2>1 DEF Joined
<1> HIDE DEF s2
<1>7. /\ s3 \in Seq(Printable) /\ Len(s3) = q + k
      /\ \A i \in 1..q : s3[i] = Q[i]
      /\ \A i \in 1..k : s3[q + i] = d[i]
  <2>1. Joined(s3, Q, q, d, k)
    BY <1>2, <1>4, JoinIs
  <2> HIDE DEF s3
  <2> QED BY <2>1 DEF Joined
<1> HIDE DEF s3
<1>8. /\ s4 \in Seq(Printable) /\ Len(s4) = (a + l + p) + (q + k)
      /\ \A i \in 1..(a + l + p) : s4[i] = s2[i]
      /\ \A i \in 1..(q + k) : s4[(a + l + p) + i] = s3[i]
  <2>1. Joined(s4, s2, (a + l + p), s3, (q + k))
    BY <1>6, <1>7, JoinIs
  <2> HIDE DEF s4
  <2> QED BY <2>1 DEF Joined
<1> HIDE DEF s4
<1>9. /\ t \in Seq(Printable) /\ Len(t) = ((a + l + p) + (q + k)) + b
      /\ \A i \in 1..((a + l + p) + (q + k)) : t[i] = s4[i]
      /\ \A i \in 1..b : t[((a + l + p) + (q + k)) + i] = B[i]
  <2>1. Joined(t, s4, ((a + l + p) + (q + k)), B, b)
    BY <1>2, <1>8, JoinIs
  <2> HIDE DEF t
  <2> QED BY <2>1 DEF Joined
<1> HIDE DEF t
<1>10. a \in Nat /\ b \in Nat /\ p \in Nat /\ q \in Nat
  BY <1>2
<1>11. ASSUME NEW i \in 1..a PROVE t[i] = Blank
  <2>1. i \in 1..(a + l) /\ i \in 1..(a + l + p) /\ i \in 1..((a + l + p) + (q + k))
    BY <1>4, <1>10
  <2>2. t[i] = s1[i]
    BY <1>6, <1>8, <1>9, <2>1
  <2> QED BY <1>2, <1>5, <2>2
<1>12. ASSUME NEW i \in 1..l PROVE t[a + i] = h[i]
  <2>1. a + i \in 1..(a + l) /\ a + i \in 1..(a + l + p) /\ a + i \in 1..((a + l + p) + (q + k))
    BY <1>4, <1>10
  <2>2. t[a + i] = s1[a + i]
    BY <1>6, <1>8, <1>9, <2>1
  <2> QED BY <1>5, <2>2
<1>13. ASSUME NEW i \in 1..(p + q) PROVE t[a + l + i] = 0
  <2>1. CASE i <= p
    <3>1. a + l + i \in 1..(a + l + p) /\ a + l + i \in 1..((a + l + p) + (q + k)) /\ i \in 1..p
      BY <1>4, <1>10, <2>1
    <3>2. t[a + l + i] = s2[a + l + i]
      BY <1>8, <1>9, <3>1
    <3>3. s2[a + l + i] = P[i]
      BY <1>6, <3>1
    <3> QED BY <1>2, <3>1, <3>2, <3>3
  <2>2. CASE i > p
    <3> DEFINE j == i - p
    <3>1. j \in 1..q /\ j \in 1..(q + k) /\ a + l + i = (a + l + p) + j
      BY <1>4, <1>10, <2>2
    <3>2. (a + l + p) + j \in 1..((a + l + p) + (q + k))
      BY <1>4, <1>10, <3>1
    <3> HIDE DEF j
    <3>3. t[(a + l + p) + j] = s3[j]
      BY <1>8, <1>9, <3>1, <3>2
    <3>4. s3[j] = 0
      BY <1>2, <1>7, <3>1
    <3> QED BY <3>1, <3>3, <3>4
  <2>3. i <= p \/ i > p
    BY <1>10
  <2> QED BY <2>1, <2>2, <2>3
<1>14. ASSUME NEW i \in 1..k PROVE t[a + l + (p + q) + i] = d[i]
  <2> DEFINE j == q + i
  <2>1. j \in 1..(q + k) /\ a + l + (p + q) + i = (a + l + p) + j
    BY <1>4, <1>10
  <2>2. (a + l + p) + j \in 1..((a + l + p) + (q + k))
    BY <1>4, <1>10, <2>1
  <2>3. s3[j] = d[i]
    BY <1>7
  <2> HIDE DEF j
  <2>4. t[(a + l + p) + j] = s3[j]
    BY <1>8, <1>9, <2>1, <2>2
  <2> QED BY <2>1, <2>3, <2>4
<1>15. ASSUME NEW i \in 1..b PROVE t[a + l + (p + q) + k + i] = Blank
  <2>1. a + l + (p + q) + k + i = ((a + l + p) + (q + k)) + i
    BY <1>4, <1>10
  <2>2. t[((a + l + p) + (q + k)) + i] = B[i]
    BY <1>9
  <2> QED BY <1>2, <2>1, <2>2
<1>16. Len(t) = a + l + (p + q) + k + b
  BY <1>4, <1>9, <1>10
<1>17. LaidOut(t, a, h, p + q, d, b)
  BY <1>9, <1>11, <1>12, <1>13, <1>14, <1>15, <1>16 DEF LaidOut, l, k
<1> QED BY <1>3, <1>17 DEF a, p, q, b

(* Sign and prefix.                                                        *)
SignLength(num, type) ==
  IF Negative(num, type) \/ type \cap {"PLUS", "SPACE"} # {} THEN 1 ELSE 0
PrefixLength(base, type) ==
  IF "SPECIAL" \notin type THEN 0 ELSE IF base = 16 THEN 2 ELSE IF base = 8 THEN 1 ELSE 0

LEMMA SignIs ==
  ASSUME NEW num, NEW type
  PROVE  /\ Sign(num, type) \in Seq(Printable)
         /\ Len(Sign(num, type)) = SignLength(num, type)
         /\ SignLength(num, type) \in {0, 1}
         /\ SignLength(num, type) = 1 => Sign(num, type)[1] \in {Minus, Plus, Blank}
         /\ SignLength(num, type) = 1 /\ Sign(num, type)[1] = Minus <=> Negative(num, type)
<1>1. \A c \in Printable : <<c>> \in Seq(Printable) /\ Len(<<c>>) = 1 /\ <<c>>[1] = c
  OBVIOUS
<1>2. << >> \in Seq(Printable) /\ Len(<< >>) = 0
  BY EmptySeq
<1>3. Minus \in Printable /\ Plus \in Printable /\ Blank \in Printable
  BY DEF Printable
<1>4. Minus # Plus /\ Minus # Blank
  BY CharactersDiffer
<1>5. type \cap {"PLUS", "SPACE"} # {} <=> "PLUS" \in type \/ "SPACE" \in type
  OBVIOUS
<1>6. CASE Negative(num, type)
  <2>1. Sign(num, type) = <<Minus>> /\ SignLength(num, type) = 1
    BY <1>6 DEF Sign, SignLength
  <2> QED BY <1>1, <1>3, <1>6, <2>1
<1>7. CASE ~Negative(num, type) /\ "PLUS" \in type
  <2>1. Sign(num, type) = <<Plus>> /\ SignLength(num, type) = 1
    BY <1>5, <1>7 DEF Sign, SignLength
  <2> QED BY <1>1, <1>3, <1>4, <1>7, <2>1
<1>8. CASE ~Negative(num, type) /\ "PLUS" \notin type /\ "SPACE" \in type
  <2>1. Sign(num, type) = <<Blank>> /\ SignLength(num, type) = 1
    BY <1>5, <1>8 DEF Sign, SignLength
  <2> QED BY <1>1, <1>3, <1>4, <1>8, <2>1
<1>9. CASE ~Negative(num, type) /\ "PLUS" \notin type /\ "SPACE" \notin type
  <2>1. Sign(num, type) = << >> /\ SignLength(num, type) = 0
    BY <1>5, <1>9 DEF Sign, SignLength
  <2> QED BY <1>2, <1>9, <2>1
<1> QED BY <1>6, <1>7, <1>8, <1>9

LEMMA PrefixIs ==
  ASSUME NEW base \in Int, NEW type
  PROVE  /\ Prefix(base, type) \in Seq(Printable)
         /\ Len(Prefix(base, type)) = PrefixLength(base, type)
         /\ PrefixLength(base, type) \in Nat
         /\ \A i \in 1..PrefixLength(base, type) : Prefix(base, type)[i] \in {0, LetterX, SmallX}
<1>1. << >> \in Seq(Printable) /\ Len(<< >>) = 0
  BY EmptySeq
<1>2. 0 \in Printable /\ LetterX \in Printable /\ SmallX \in Printable
  <2>1. 0 \in 0..35
    OBVIOUS
  <2> QED BY <2>1 DEF Printable
<1>3. CASE "SPECIAL" \notin type \/ (base # 8 /\ base # 16)
  <2>1. Prefix(base, type) = << >> /\ PrefixLength(base, type) = 0
    BY <1>3 DEF Prefix, PrefixLength
  <2> QED BY <1>1, <2>1
<1>4. CASE "SPECIAL" \in type /\ base = 8
  <2>1. Prefix(base, type) = <<0>> /\ PrefixLength(base, type) = 1
    BY <1>4 DEF Prefix, PrefixLength
  <2>2. <<0>> \in Seq(Printable) /\ Len(<<0>>) = 1 /\ \A i \in 1..1 : <<0>>[i] = 0
    BY <1>2
  <2> QED BY <2>1, <2>2
<1>5. CASE "SPECIAL" \in type /\ base = 16
  <2> DEFINE mark == IF "SMALL" \in type THEN SmallX ELSE LetterX
  <2>1. Prefix(base, type) = <<0, mark>> /\ PrefixLength(base, type) = 2
    BY <1>5 DEF Prefix, PrefixLength
  <2>2. mark \in {LetterX, SmallX} /\ mark \in Printable
    BY <1>2
  <2> HIDE DEF mark
  <2>3. <<0, mark>> \in Seq(Printable) /\ Len(<<0, mark>>) = 2 /\ <<0, mark>>[1] = 0 /\ <<0, mark>>[2] = mark
    BY <1>2, <2>2
  <2>4. \A i \in 1..2 : i = 1 \/ i = 2
    OBVIOUS
  <2> QED BY <2>1, <2>2, <2>3, <2>4
<1> QED BY <1>3, <1>4, <1>5

LEMMA HeadIs ==
  ASSUME NEW num, NEW type, NEW base \in Int
  PROVE  LET h == Sign(num, type) \o Prefix(base, type)
         IN  /\ IsHead(h) /\ (HasMinus(h) <=> Negative(num, type))
             /\ Len(h) = SignLength(num, type) + PrefixLength(base, type) /\ Len(h) \in Nat
<1> DEFINE s == Sign(num, type)
           p == Prefix(base, type)
           m == SignLength(num, type)
           n == PrefixLength(base, type)
           h == s \o p
<1>1. /\ s \in Seq(Printable) /\ Len(s) = m /\ m \in {0, 1}
      /\ m = 1 => s[1] \in {Minus, Plus, Blank}
      /\ m = 1 /\ s[1] = Minus <=> Negative(num, type)
  BY SignIs
<1>2. p \in Seq(Printable) /\ Len(p) = n /\ n \in Nat /\ \A i \in 1..n : p[i] \in {0, LetterX, SmallX}
  BY PrefixIs
<1> HIDE DEF s, p, m, n
<1>3. Joined(h, s, m, p, n)
  BY <1>1, <1>2, JoinIs
<1> HIDE DEF h
<1>4. /\ h \in Seq(Printable) /\ Len(h) = m + n
      /\ \A i \in 1..m : h[i] = s[i]
      /\ \A i \in 1..n : h[m + i] = p[i]
  BY <1>3 DEF Joined
<1>5. ASSUME NEW i \in 1..(m + n)
      PROVE  \/ i = 1 /\ m = 1 /\ h[i] = s[1] /\ s[1] \in {Minus, Plus, Blank}
             \/ h[i] \in {0, LetterX, SmallX}
  <2>1. CASE i <= m
    <3>1. i = 1 /\ m = 1 /\ i \in 1..m
      BY <1>1, <2>1
    <3> QED BY <1>1, <1>4, <3>1
  <2>2. CASE i > m
    <3> DEFINE j == i - m
    <3>1. j \in 1..n /\ m + j = i
      BY <1>1, <1>2, <2>2
    <3> HIDE DEF j
    <3> QED BY <1>2, <1>4, <3>1
  <2> QED BY <1>1, <2>1, <2>2
<1>6. \A i \in 1..(m + n) : h[i] \in 0..35 => h[i] = 0
  BY <1>5, CharactersDiffer
<1>7. \A i \in 1..(m + n) : h[i] = Blank => i = 1
  <2>1. Blank # 0 /\ Blank # LetterX /\ Blank # SmallX
    BY CharactersDiffer
  <2> QED BY <1>5, <2>1
<1>8. (\E i \in 1..(m + n) : h[i] = Minus) <=> Negative(num, type)
  <2>1. Minus # 0 /\ Minus # LetterX /\ Minus # SmallX
    BY CharactersDiffer
  <2>2. ASSUME NEW i \in 1..(m + n), h[i] = Minus PROVE Negative(num, type)
    BY <1>1, <1>5, <2>1, <2>2
  <2>3. ASSUME Negative(num, type) PROVE \E i \in 1..(m + n) : h[i] = Minus
    <3>1. m = 1 /\ s[1] = Minus
      BY <1>1, <2>3
    <3>2. 1 \in 1..(m + n) /\ 1 \in 1..m
      BY <1>2, <3>1
    <3> QED BY <1>4, <3>1, <3>2
  <2> QED BY <2>2, <2>3
<1>9. IsHead(h) /\ (HasMinus(h) <=> Negative(num, type))
  BY <1>4, <1>6, <1>7, <1>8 DEF IsHead, HasMinus
<1>10. m + n \in Nat
  BY <1>1, <1>2
<1> QED BY <1>4, <1>9, <1>10 DEF h, s, p, m, n

(* number() lays its text out.                                             *)
NumberLaid(t, num, base, size, precision, type) ==
  LET h == Sign(num, type) \o Prefix(base, type)
  IN  \E a, z, b \in Nat : \E d :
        /\ LaidOut(t, a, h, z, d, b) /\ IsDigits(d, base, Magnitude(num, type))
        /\ a = 0 \/ b = 0
        /\ "LEFT" \in type => a = 0
        /\ z + Len(d) >= precision
        /\ Len(t) = Larger(size, Len(h) + Larger(precision, Len(d)))

LEMMA NumberIs ==
  ASSUME NEW num \in Ints, NEW base \in 2..36, NEW size \in Int, NEW precision \in Int, NEW type
  PROVE  NumberLaid(Number(num, base, size, precision, type), num, base, size, precision, type)
<1> DEFINE h == Sign(num, type) \o Prefix(base, type)
           v == IF Negative(num, type) THEN Signed(Unsigned(-num)) ELSE num
           d == Digits(v, base)
           k == Len(d)
           z == precision - k
           l == Len(h)
           room == size - l - Larger(precision, k)
           t == Number(num, base, size, precision, type)
           body == Repeat(z, 0) \o d
<1>1. IsDigits(d, base, Magnitude(num, type))
  <2>1. Unsigned(v) = Magnitude(num, type) /\ Unsigned(v) \in 0..(Power(2)[W] - 1)
    BY MagnitudeIs
  <2>2. base \in Nat /\ base > 1
    OBVIOUS
  <2> HIDE DEF v
  <2> QED BY <2>1, <2>2, DigitsAre
<1>2. t = IF "LEFT" \in type THEN h \o body \o Repeat(room, Blank)
          ELSE IF "ZEROPAD" \in type THEN h \o Repeat(room, 0) \o body
          ELSE Repeat(room, Blank) \o h \o body
  BY DEF Number
<1>3. h \in Seq(Printable) /\ l \in Nat
  <2>1. base \in Int
    OBVIOUS
  <2>2. IsHead(h) /\ l \in Nat
    BY <2>1, HeadIs
  <2> HIDE DEF h, l
  <2> QED BY <2>2 DEF IsHead
<1> HIDE DEF v
<1>4. d \in Seq(Printable) /\ k \in Nat /\ k >= 1
  <2> DEFINE S == 0..(base - 1)
  <2>1. d \in Seq(S) /\ Len(d) >= 1
    BY <1>1 DEF IsDigits
  <2>2. S \subseteq Printable
    BY DEF Printable
  <2> HIDE DEF S, d
  <2>3. d \in Seq(Printable)
    BY <2>1, <2>2
  <2>4. Len(d) \in Nat
    BY <2>1
  <2> QED BY <2>1, <2>3, <2>4 DEF k
<1> HIDE DEF t, h, d, l, k
<1>5. z \in Int /\ room \in Int /\ room = size - l - Larger(precision, k) /\ z = precision - k
  BY <1>3, <1>4 DEF Larger
<1> HIDE DEF z, room
<1>6. Repeat(0, Blank) = << >> /\ Repeat(0, 0) = << >> /\ Larger(0, 0) = 0 /\ 0 \in Int
  BY NothingRepeated DEF Larger
<1>7. \A s \in Seq(Printable) : s \o << >> = s /\ << >> \o s = s
  BY ConcatEmptySeq
<1>8. \A s, u \in Seq(Printable) : s \o u \in Seq(Printable)
  BY ConcatProperties
<1>9. 0 \in Printable /\ Blank \in Printable
  <2>1. 0 \in 0..35
    OBVIOUS
  <2> QED BY <2>1 DEF Printable
<1>10. body \in Seq(Printable) /\ Repeat(room, 0) \in Seq(Printable) /\ Repeat(room, Blank) \in Seq(Printable)
  BY <1>4, <1>5, <1>8, <1>9, RepeatIs
<1>11. Larger(room, 0) \in Nat /\ Larger(z, 0) \in Nat
  BY <1>5 DEF Larger
<1>12. Larger(z, 0) + k >= precision
  BY <1>4, <1>5 DEF Larger
<1>13. Larger(room, 0) + l + Larger(z, 0) + k = Larger(size, l + Larger(precision, k))
  BY <1>3, <1>4, <1>5 DEF Larger
<1> DEFINE all == Larger(size, l + Larger(precision, k))
<1>14. /\ 0 + l + (0 + Larger(z, 0)) + k + Larger(room, 0) = all
       /\ 0 + l + (Larger(room, 0) + Larger(z, 0)) + k + 0 = all
       /\ Larger(room, 0) + l + (0 + Larger(z, 0)) + k + 0 = all
  BY <1>3, <1>4, <1>11, <1>13
<1>15. CASE "LEFT" \in type
  <2>1. t = Stacked(0, h, 0, z, d, room)
    BY <1>2, <1>3, <1>6, <1>7, <1>15 DEF Stacked
  <2>2. LaidOut(t, 0, h, 0 + Larger(z, 0), d, Larger(room, 0))
    BY <1>3, <1>4, <1>5, <1>6, <2>1, StackedIsLaidOut
  <2>3. Len(t) = 0 + l + (0 + Larger(z, 0)) + k + Larger(room, 0)
    BY <2>2 DEF LaidOut, l, k
  <2>4. Len(t) = Larger(size, l + Larger(precision, k))
    BY <1>14, <2>3
  <2>5. 0 + Larger(z, 0) \in Nat /\ 0 + Larger(z, 0) + k >= precision /\ 0 \in Nat
    BY <1>11, <1>12
  <2> QED BY <1>1, <1>11, <2>2, <2>4, <2>5 DEF NumberLaid, h, l, k, t
<1>16. CASE "LEFT" \notin type /\ "ZEROPAD" \in type
  <2>1. t = Stacked(0, h, room, z, d, 0)
    <3>1. t = (h \o Repeat(room, 0)) \o body
      BY <1>2, <1>16
    <3>2. (h \o Repeat(room, 0)) \o body \in Seq(Printable)
      BY <1>3, <1>8, <1>10
    <3>3. ((h \o Repeat(room, 0)) \o body) \o << >> = (h \o Repeat(room, 0)) \o body
      BY <1>7, <3>2
    <3> QED BY <1>3, <1>6, <1>7, <3>1, <3>3 DEF Stacked
  <2>2. LaidOut(t, 0, h, Larger(room, 0) + Larger(z, 0), d, 0)
    BY <1>3, <1>4, <1>5, <1>6, <2>1, StackedIsLaidOut
  <2> DEFINE q == Larger(room, 0) + Larger(z, 0)
  <2>3. Len(t) = 0 + l + q + k + 0
    BY <2>2 DEF LaidOut, l, k
  <2>4. Len(t) = Larger(size, l + Larger(precision, k))
    BY <1>14, <2>3
  <2>5. q \in Nat /\ q + k >= precision /\ 0 \in Nat
    BY <1>4, <1>11, <1>12
  <2> HIDE DEF q
  <2> QED BY <1>1, <1>11, <2>2, <2>4, <2>5 DEF NumberLaid, h, l, k, t, q
<1>17. CASE "LEFT" \notin type /\ "ZEROPAD" \notin type
  <2>1. t = Stacked(room, h, 0, z, d, 0)
    <3>1. t = (Repeat(room, Blank) \o h) \o body
      BY <1>2, <1>17
    <3>2. Repeat(room, Blank) \o h \in Seq(Printable)
      BY <1>3, <1>8, <1>10
    <3>3. (Repeat(room, Blank) \o h) \o << >> = Repeat(room, Blank) \o h
      BY <1>7, <3>2
    <3>4. (Repeat(room, Blank) \o h) \o body \in Seq(Printable)
      BY <1>8, <1>10, <3>2
    <3>5. ((Repeat(room, Blank) \o h) \o body) \o << >> = (Repeat(room, Blank) \o h) \o body
      BY <1>7, <3>4
    <3> QED BY <1>6, <3>1, <3>3, <3>5 DEF Stacked
  <2>2. LaidOut(t, Larger(room, 0), h, 0 + Larger(z, 0), d, 0)
    BY <1>3, <1>4, <1>5, <1>6, <2>1, StackedIsLaidOut
  <2>3. Len(t) = Larger(room, 0) + l + (0 + Larger(z, 0)) + k + 0
    BY <2>2 DEF LaidOut, l, k
  <2>4. Len(t) = Larger(size, l + Larger(precision, k))
    BY <1>14, <2>3
  <2>5. 0 + Larger(z, 0) \in Nat /\ 0 + Larger(z, 0) + k >= precision /\ 0 \in Nat
    BY <1>11, <1>12
  <2> QED BY <1>1, <1>11, <1>17, <2>2, <2>4, <2>5 DEF NumberLaid, h, l, k, t
<1> QED BY <1>15, <1>16, <1>17 DEF t

----------------------------------------------------------------------------
(* vsprintf(), directive by directive.                                     *)
FormatStep(f, fmt, args, i) ==
  IF i = 0 THEN Empty ELSE Printed(f[i - 1], fmt[i], args)

FormatSteps(f, fmt, args, m, n) == \A j \in 0..m : j <= n => f[j] = FormatStep(f, fmt, args, j)

LEMMA FormatExists ==
  ASSUME NEW fmt, NEW args, NEW m \in Nat
  PROVE  \E f : f = [i \in 0..m |-> FormatStep(f, fmt, args, i)]
<1> DEFINE T == {n \in Nat : \E f : f = [j \in 0..m |-> f[j]] /\ FormatSteps(f, fmt, args, m, n)}
<1>1. 0 \in T
  <2> DEFINE f == [j \in 0..m |-> Empty]
  <2>1. f = [j \in 0..m |-> f[j]]
    OBVIOUS
  <2>2. f[0] = FormatStep(f, fmt, args, 0)
    BY DEF FormatStep
  <2> HIDE DEF f
  <2>3. FormatSteps(f, fmt, args, m, 0)
    BY <2>2 DEF FormatSteps
  <2> QED BY <2>1, <2>3
<1>2. ASSUME NEW n \in Nat, n \in T PROVE n + 1 \in T
  <2>1. PICK f : f = [j \in 0..m |-> f[j]] /\ FormatSteps(f, fmt, args, m, n)
    BY <1>2
  <2> DEFINE g == [j \in 0..m |-> IF j = n + 1 THEN FormatStep(f, fmt, args, n + 1) ELSE f[j]]
  <2>2. g = [j \in 0..m |-> g[j]]
    OBVIOUS
  <2>3. ASSUME NEW j \in 0..m, j <= n + 1 PROVE g[j] = FormatStep(g, fmt, args, j)
    <3>1. j # 0 => j - 1 \in 0..m /\ j - 1 # n + 1
      BY <2>3
    <3>2. j # 0 => g[j - 1] = f[j - 1]
      BY <3>1
    <3> HIDE DEF g
    <3>3. FormatStep(g, fmt, args, j) = FormatStep(f, fmt, args, j)
      BY <3>2 DEF FormatStep
    <3>4. CASE j = n + 1
      BY <3>3, <3>4 DEF g
    <3>5. CASE j # n + 1
      <4>1. j <= n
        BY <2>3, <3>5
      <4>2. g[j] = f[j]
        BY <3>5 DEF g
      <4> QED BY <2>1, <3>3, <4>1, <4>2 DEF FormatSteps
    <3> QED BY <3>4, <3>5
  <2> HIDE DEF g
  <2>4. FormatSteps(g, fmt, args, m, n + 1)
    BY <2>3 DEF FormatSteps
  <2> QED BY <2>2, <2>4
<1>3. m \in T
  <2> HIDE DEF T
  <2> QED BY <1>1, <1>2, SetInduction
<1>4. PICK f : f = [j \in 0..m |-> f[j]] /\ FormatSteps(f, fmt, args, m, m)
  BY <1>3
<1>5. \A j \in 0..m : f[j] = FormatStep(f, fmt, args, j)
  BY <1>4 DEF FormatSteps
<1>6. f = [j \in 0..m |-> FormatStep(f, fmt, args, j)]
  BY <1>4, <1>5, Zenon
<1> QED BY <1>6

PrintedTo(f, fmt, args, m) ==
  f[0] = Empty /\ \A i \in 1..m : f[i] = Printed(f[i - 1], fmt[i], args)

LEMMA FormattedUnfolds ==
  ASSUME NEW fmt, NEW args, NEW m \in Nat, Len(fmt) = m
  PROVE  \E f : Formatted(fmt, args) = f[m] /\ PrintedTo(f, fmt, args, m)
<1> DEFINE f == CHOOSE g : g = [i \in 0..m |-> FormatStep(g, fmt, args, i)]
<1>1. f = [i \in 0..m |-> FormatStep(f, fmt, args, i)]
  BY FormatExists
<1>2. Formatted(fmt, args) = f[m]
  BY DEF Formatted, FormatStep
<1> HIDE DEF f
<1>3. \A i \in 0..m : f[i] = FormatStep(f, fmt, args, i)
  BY <1>1
<1>4. f[0] = Empty
  BY <1>3 DEF FormatStep
<1>5. ASSUME NEW i \in 1..m PROVE f[i] = Printed(f[i - 1], fmt[i], args)
  <2>1. i \in 0..m /\ i # 0
    OBVIOUS
  <2> QED BY <1>3, <2>1 DEF FormatStep
<1>6. PrintedTo(f, fmt, args, m)
  BY <1>4, <1>5 DEF PrintedTo
<1> QED BY <1>2, <1>6

(* What number() is called with.                                           *)
SizeGiven(width, conv) == IF width # None THEN width ELSE IF conv = "p" THEN 8 ELSE -1
DigitsGiven(precision) == IF precision = None THEN -1 ELSE precision
TypeGiven(flags, width, conv) ==
  flags \cup (IF conv = "p" /\ width = None THEN {"ZEROPAD"}
              ELSE IF conv = "x" THEN {"SMALL"}
              ELSE IF conv \in {"d", "i"} THEN {"SIGN"} ELSE {})

(* The widths and the precisions that a format can give.                   *)
Given == Nat \cup {None}

LEMMA GivenIs ==
  ASSUME NEW n \in Given
  PROVE  n # Star /\ n # -1 /\ (n # None => n \in Nat)
<1>1. None \notin Int /\ Star \notin Int /\ None # Star
  BY CharactersAssumption
<1>2. CASE n = None
  BY <1>1, <1>2
<1>3. CASE n \in Nat
  BY <1>1, <1>3
<1> QED BY <1>2, <1>3 DEF Given

LEMMA DirectiveIs ==
  ASSUME NEW flags, NEW width, NEW precision, NEW conv
  PROVE  LET d == Directive(flags, width, precision, conv)
         IN  /\ "conv" \in DOMAIN d
             /\ d.flags = flags /\ d.width = width /\ d.precision = precision /\ d.conv = conv
  BY DEF Directive

LEMMA NumberConverted ==
  ASSUME NEW flags, NEW width \in Given, NEW precision \in Given, NEW conv \in Numeric, NEW arg
  PROVE  Converted(Directive(flags, width, precision, conv), arg)
           = Number(arg, BaseOf(conv), SizeGiven(width, conv), DigitsGiven(precision),
                    TypeGiven(flags, width, conv))
<1> DEFINE d == Directive(flags, width, precision, conv)
           w == FieldWidth(d)
           p == Precision(d)
<1>1. d.flags = flags /\ d.width = width /\ d.precision = precision /\ d.conv = conv
  BY DirectiveIs
<1>2. p = DigitsGiven(precision)
  BY <1>1 DEF Precision, DigitsGiven
<1>3. w = (IF width = None THEN -1 ELSE width) /\ (w = -1 <=> width = None)
  BY <1>1, GivenIs DEF FieldWidth
<1>4. conv \notin {Percent, None} /\ conv \notin {"c", "s", "n"}
  <2>1. conv \in Conversions
    BY DEF Conversions
  <2>2. conv \notin {"c", "s", "n"}
    BY DEF Numeric
  <2> QED BY <2>1, <2>2, CharactersAssumption
<1>5. Converted(d, arg) =
        CASE d.conv = "c" -> Justified(<<arg>>, w, "LEFT" \in d.flags)
          [] d.conv = "s" -> Text(arg, w, p, "LEFT" \in d.flags)
          [] d.conv = "o" -> Number(arg, 8, w, p, d.flags)
          [] d.conv = "p" -> IF w = -1 THEN Number(arg, 16, 8, p, d.flags \cup {"ZEROPAD"})
                             ELSE Number(arg, 16, w, p, d.flags)
          [] d.conv = "x" -> Number(arg, 16, w, p, d.flags \cup {"SMALL"})
          [] d.conv = "X" -> Number(arg, 16, w, p, d.flags)
          [] d.conv \in {"d", "i"} -> Number(arg, 10, w, p, d.flags \cup {"SIGN"})
          [] d.conv = "u" -> Number(arg, 10, w, p, d.flags)
          [] d.conv = "b" -> Number(arg, 2, w, p, d.flags)
          [] d.conv = "n" -> << >>
          [] d.conv \in {Percent, None} -> <<Percent>>
          [] OTHER -> <<Percent, d.conv>>
  BY DEF Converted
<1> DEFINE size == SizeGiven(width, conv)
           type == TypeGiven(flags, width, conv)
<1> HIDE DEF d, w, p
<1>6. flags \cup {} = flags
  OBVIOUS
<1>7. conv # "p" => size = w
  BY <1>3 DEF SizeGiven
<1>8. CASE conv = "o"
  <2>1. Converted(d, arg) = Number(arg, 8, w, p, flags)
    BY <1>1, <1>4, <1>5, <1>8
  <2>2. type = flags /\ BaseOf(conv) = 8
    BY <1>8 DEF TypeGiven, BaseOf
  <2> QED BY <1>2, <1>7, <1>8, <2>1, <2>2 DEF d
<1>9. CASE conv = "p"
  <2>1. Converted(d, arg) = IF w = -1 THEN Number(arg, 16, 8, p, flags \cup {"ZEROPAD"})
                            ELSE Number(arg, 16, w, p, flags)
    BY <1>1, <1>4, <1>5, <1>9
  <2>2. CASE width = None
    <3>1. size = 8 /\ type = flags \cup {"ZEROPAD"} /\ BaseOf(conv) = 16
      BY <1>9, <2>2 DEF SizeGiven, TypeGiven, BaseOf
    <3> QED BY <1>2, <1>3, <2>1, <2>2, <3>1 DEF d
  <2>3. CASE width # None
    <3>1. size = w /\ type = flags /\ BaseOf(conv) = 16
      BY <1>3, <1>9, <2>3 DEF SizeGiven, TypeGiven, BaseOf
    <3> QED BY <1>2, <1>3, <2>1, <2>3, <3>1 DEF d
  <2> QED BY <2>2, <2>3
<1>10. CASE conv = "x"
  <2>1. Converted(d, arg) = Number(arg, 16, w, p, flags \cup {"SMALL"})
    BY <1>1, <1>4, <1>5, <1>10
  <2>2. type = flags \cup {"SMALL"} /\ BaseOf(conv) = 16
    BY <1>10 DEF TypeGiven, BaseOf
  <2> QED BY <1>2, <1>7, <1>10, <2>1, <2>2 DEF d
<1>11. CASE conv = "X"
  <2>1. Converted(d, arg) = Number(arg, 16, w, p, flags)
    BY <1>1, <1>4, <1>5, <1>11
  <2>2. type = flags /\ BaseOf(conv) = 16
    BY <1>11 DEF TypeGiven, BaseOf
  <2> QED BY <1>2, <1>7, <1>11, <2>1, <2>2 DEF d
<1>12. CASE conv \in {"d", "i"}
  <2>1. Converted(d, arg) = Number(arg, 10, w, p, flags \cup {"SIGN"})
    BY <1>1, <1>4, <1>5, <1>12
  <2>2. type = flags \cup {"SIGN"} /\ BaseOf(conv) = 10 /\ conv # "p"
    BY <1>12 DEF TypeGiven, BaseOf
  <2> QED BY <1>2, <1>7, <2>1, <2>2 DEF d
<1>13. CASE conv = "u"
  <2>1. Converted(d, arg) = Number(arg, 10, w, p, flags)
    BY <1>1, <1>4, <1>5, <1>13
  <2>2. type = flags /\ BaseOf(conv) = 10
    BY <1>13 DEF TypeGiven, BaseOf
  <2> QED BY <1>2, <1>7, <1>13, <2>1, <2>2 DEF d
<1>14. CASE conv = "b"
  <2>1. Converted(d, arg) = Number(arg, 2, w, p, flags)
    BY <1>1, <1>4, <1>5, <1>14
  <2>2. type = flags /\ BaseOf(conv) = 2
    BY <1>14 DEF TypeGiven, BaseOf
  <2> QED BY <1>2, <1>7, <1>14, <2>1, <2>2 DEF d
<1> QED BY <1>8, <1>9, <1>10, <1>11, <1>12, <1>13, <1>14 DEF Numeric

(* A directive for a number prints its next argument.                      *)
Adds(r, s, text, used, stored) ==
  r.text = s.text \o text /\ r.used = s.used + used /\ r.stored = stored

LEMMA NumberPrinted ==
  ASSUME NEW s, NEW flags, NEW width \in Given, NEW precision \in Given, NEW conv \in Numeric,
         NEW args
  PROVE  LET d == Directive(flags, width, precision, conv)
         IN  Adds(Printed(s, d, args), s, Converted(d, args[s.used + 1]), 1, s.stored)
<1> DEFINE d == Directive(flags, width, precision, conv)
           c == Converted(d, args[s.used + 1])
           r == Printed(s, d, args)
<1>1. /\ "conv" \in DOMAIN d
      /\ d.flags = flags /\ d.width = width /\ d.precision = precision /\ d.conv = conv
  BY DirectiveIs
<1>2. ~Starred(d)
  BY <1>1, GivenIs DEF Starred
<1>3. TakesArgument(d) /\ d.conv # "n"
  BY <1>1 DEF TakesArgument, Conversions, Numeric
<1>4. r = Printed(s, d, args)
  OBVIOUS
<1>5. c = Converted(d, args[s.used + 1])
  OBVIOUS
<1> HIDE DEF d, c, r
<1>6. r = [text |-> s.text \o c, used |-> s.used + 1, stored |-> s.stored]
  BY <1>1, <1>2, <1>3, <1>4, <1>5 DEF Printed
<1>7. Adds(r, s, c, 1, s.stored)
  BY <1>6 DEF Adds
<1> QED BY <1>7 DEF d, c, r

(* One number alone.                                                       *)
LEMMA NumberAlone ==
  ASSUME NEW num \in Ints, NEW flags, NEW width \in Given, NEW precision \in Given,
         NEW conv \in Numeric
  PROVE  LET t == Formatted(<<Directive(flags, width, precision, conv)>>, <<num>>).text
         IN  /\ t = Converted(Directive(flags, width, precision, conv), num)
             /\ NumberLaid(t, num, BaseOf(conv), SizeGiven(width, conv), DigitsGiven(precision),
                           TypeGiven(flags, width, conv))
             /\ t \in Seq(Printable)
<1> DEFINE d == Directive(flags, width, precision, conv)
           c == Converted(d, num)
<1>1. PICK f : Formatted(<<d>>, <<num>>) = f[1] /\ PrintedTo(f, <<d>>, <<num>>, 1)
  <2>1. Len(<<d>>) = 1 /\ 1 \in Nat
    OBVIOUS
  <2> HIDE DEF d
  <2> QED BY <2>1, FormattedUnfolds
<1>2. f[1] = Printed(Empty, d, <<num>>)
  <2>1. 1 \in 1..1 /\ 1 - 1 = 0 /\ <<d>>[1] = d
    OBVIOUS
  <2> HIDE DEF d
  <2> QED BY <1>1, <2>1 DEF PrintedTo
<1>3. Empty.text = << >> /\ <<num>>[Empty.used + 1] = num
  BY DEF Empty
<1>4. Formatted(<<d>>, <<num>>).text = << >> \o c
  <2>1. Adds(Printed(Empty, d, <<num>>), Empty, Converted(d, <<num>>[Empty.used + 1]), 1, Empty.stored)
    BY NumberPrinted
  <2>2. Adds(f[1], Empty, c, 1, Empty.stored)
    BY <1>2, <1>3, <2>1
  <2> HIDE DEF d, c
  <2> QED BY <1>1, <1>3, <2>2 DEF Adds
<1>5. NumberLaid(c, num, BaseOf(conv), SizeGiven(width, conv), DigitsGiven(precision),
                 TypeGiven(flags, width, conv))
  <2>1. BaseOf(conv) \in 2..36
    BY DEF BaseOf
  <2>2. SizeGiven(width, conv) \in Int /\ DigitsGiven(precision) \in Int
    BY GivenIs DEF SizeGiven, DigitsGiven
  <2>3. c = Number(num, BaseOf(conv), SizeGiven(width, conv), DigitsGiven(precision),
                   TypeGiven(flags, width, conv))
    BY NumberConverted
  <2> HIDE DEF c
  <2> QED BY <2>1, <2>2, <2>3, NumberIs
<1>6. c \in Seq(Printable)
  <2> HIDE DEF c
  <2> QED BY <1>5 DEF NumberLaid, LaidOut
<1>7. << >> \o c = c
  BY <1>6, ConcatEmptySeq
<1> HIDE DEF c
<1> QED BY <1>4, <1>5, <1>6, <1>7 DEF c

(* What the reader finds, whatever the number's base and type.             *)
LEMMA LaidReads ==
  ASSUME NEW num \in Ints, NEW base \in 2..36, NEW size, size = -1 \/ size \in Nat,
         NEW precision, precision = -1 \/ precision \in Nat, NEW type,
         NEW t, NumberLaid(t, num, base, size, precision, type)
  PROVE  /\ HasMinus(t) <=> Negative(num, type)
         /\ ValueOf(t, base) = Magnitude(num, type)
         /\ Len(t) = Larger(Larger(size, 0), SignLength(num, type) + PrefixLength(base, type)
                              + Larger(Larger(precision, 0), Least(Magnitude(num, type), base)))
         /\ Cardinality(DigitsOf(t)) >= Larger(precision, 0)
         /\ BlanksAtAnEnd(t, "LEFT" \in type)
<1> DEFINE h == Sign(num, type) \o Prefix(base, type)
           n == Magnitude(num, type)
           neg == Negative(num, type)
           l == Len(h)
<1>1. base \in Int /\ base \in Nat /\ base > 1
  OBVIOUS
<1>2. /\ IsHead(h) /\ (HasMinus(h) <=> neg) /\ l \in Nat
      /\ l = SignLength(num, type) + PrefixLength(base, type)
  BY <1>1, HeadIs
<1>3. n \in 0..(Power(2)[W] - 1)
  BY MagnitudeIs
<1>4. PICK a, z, b, d :
        /\ a \in Nat /\ z \in Nat /\ b \in Nat
        /\ LaidOut(t, a, h, z, d, b) /\ IsDigits(d, base, n)
        /\ a = 0 \/ b = 0
        /\ "LEFT" \in type => a = 0
        /\ z + Len(d) >= precision
        /\ Len(t) = Larger(size, l + Larger(precision, Len(d)))
  BY DEF NumberLaid
<1> DEFINE k == Len(d)
<1>5. k \in Nat /\ k >= 1
  BY <1>4, LayoutSizes
<1>6. /\ LaidOut(t, a, h, z, d, b) /\ IsDigits(d, base, n) /\ IsHead(h) /\ Len(h) \in Nat
      /\ a \in Nat /\ z \in Nat /\ b \in Nat
  BY <1>2, <1>4
<1>7. Least(n, base) = k
  BY <1>1, <1>3, <1>4, LeastIs
<1> HIDE DEF h, n, neg
<1>8. HasMinus(t) <=> neg
  BY <1>2, <1>6, LayoutMinus
<1>9. ValueOf(t, base) = n
  BY <1>6, LayoutValue
<1>10. BlanksAtAnEnd(t, "LEFT" \in type)
  BY <1>4, <1>6, LayoutBlanks
<1>11. Cardinality(DigitsOf(t)) \in Nat /\ Cardinality(DigitsOf(t)) >= z + k
  BY <1>6, LayoutDigits
<1> DEFINE m == Cardinality(DigitsOf(t))
<1>12. m \in Nat /\ m >= z + k /\ z \in Nat /\ z + k >= precision
  BY <1>4, <1>11
<1>13. Len(t) = Larger(size, l + Larger(precision, k))
  BY <1>4
<1> HIDE DEF k, l, m
<1>14. m >= Larger(precision, 0)
  BY <1>5, <1>12 DEF Larger
<1>15. Larger(size, l + Larger(precision, k)) = Larger(Larger(size, 0), l + Larger(Larger(precision, 0), k))
  <2>1. Larger(precision, k) = Larger(Larger(precision, 0), k) /\ Larger(precision, k) \in Nat
        /\ Larger(precision, k) >= 1
    BY <1>5 DEF Larger
  <2> DEFINE q == l + Larger(precision, k)
  <2>2. q \in Nat /\ q >= 1
    BY <1>2, <2>1
  <2> HIDE DEF q
  <2>3. Larger(size, q) = Larger(Larger(size, 0), q)
    BY <2>2 DEF Larger
  <2> QED BY <2>1, <2>3 DEF q
<1>16. Len(t) = Larger(Larger(size, 0), l + Larger(Larger(precision, 0), Least(n, base)))
  BY <1>7, <1>13, <1>15
<1> QED BY <1>2, <1>8, <1>9, <1>10, <1>14, <1>16 DEF n, neg, m

PrintFlags == {"LEFT", "ZEROPAD", "PLUS", "SPACE", "SPECIAL"}

(* Every number is read back, whatever the bits of an int.                 *)
LEMMA NumbersRead ==
  ASSUME NEW num \in Ints, NEW flags \in SUBSET PrintFlags, NEW width \in Given,
         NEW precision \in Given, NEW conv \in Numeric
  PROVE  NumberReads(num, flags, width, precision, conv)
<1> DEFINE t == Formatted(<<Directive(flags, width, precision, conv)>>, <<num>>).text
           base == BaseOf(conv)
           size == SizeGiven(width, conv)
           p == DigitsGiven(precision)
           type == TypeGiven(flags, width, conv)
           n == Magnitude(num, type)
           value == IF conv \in {"d", "i"} THEN num ELSE Unsigned(num)
           given == IF width # None THEN width ELSE IF conv = "p" THEN 8 ELSE 0
           wanted == IF precision = None THEN 0 ELSE precision
<1>1. NumberLaid(t, num, base, size, p, type)
  BY NumberAlone
<1>2. base \in 2..36
  BY DEF BaseOf
<1>3. (size = -1 \/ size \in Nat) /\ (p = -1 \/ p \in Nat)
  BY GivenIs DEF SizeGiven, DigitsGiven
<1>4. Larger(size, 0) = given /\ Larger(p, 0) = wanted
  <2>1. (width # None => width \in Nat) /\ (precision # None => precision \in Nat)
    BY GivenIs
  <2>2. \A i \in Nat : Larger(i, 0) = i
    BY DEF Larger
  <2>3. Larger(-1, 0) = 0
    BY DEF Larger
  <2>4. Larger(size, 0) = given
    BY <2>1, <2>2, <2>3 DEF SizeGiven
  <2>5. Larger(p, 0) = wanted
    BY <2>1, <2>2, <2>3 DEF DigitsGiven
  <2> QED BY <2>4, <2>5
<1>5. /\ "SIGN" \in type <=> conv \in {"d", "i"}
      /\ "LEFT" \in type <=> "LEFT" \in flags
      /\ "SPECIAL" \in type <=> "SPECIAL" \in flags
      /\ "PLUS" \in type <=> "PLUS" \in flags
      /\ "SPACE" \in type <=> "SPACE" \in flags
  <2>1. "SIGN" \notin flags
    BY DEF PrintFlags
  <2> DEFINE more == IF conv = "p" /\ width = None THEN {"ZEROPAD"}
                     ELSE IF conv = "x" THEN {"SMALL"}
                     ELSE IF conv \in {"d", "i"} THEN {"SIGN"} ELSE {}
  <2>2. type = flags \cup more
    BY DEF TypeGiven
  <2>3. /\ "SIGN" \in more <=> conv \in {"d", "i"}
        /\ "LEFT" \notin more /\ "SPECIAL" \notin more /\ "PLUS" \notin more /\ "SPACE" \notin more
    OBVIOUS
  <2> HIDE DEF more, type
  <2> QED BY <2>1, <2>2, <2>3
<1> HIDE DEF type
<1>6. Negative(num, type) <=> conv \in {"d", "i"} /\ num < 0
  BY <1>5 DEF Negative
<1>7. SignLength(num, type) + PrefixLength(base, type) = Marks(num, flags, conv)
  <2>1. type \cap {"PLUS", "SPACE"} # {} <=> flags \cap {"PLUS", "SPACE"} # {}
    BY <1>5
  <2>2. SignLength(num, type)
          = IF (conv \in {"d", "i"} /\ num < 0) \/ flags \cap {"PLUS", "SPACE"} # {} THEN 1 ELSE 0
    BY <1>6, <2>1 DEF SignLength
  <2>3. PrefixLength(base, type)
          = IF "SPECIAL" \notin flags THEN 0
            ELSE IF BaseOf(conv) = 16 THEN 2 ELSE IF BaseOf(conv) = 8 THEN 1 ELSE 0
    BY <1>5 DEF PrefixLength
  <2> QED BY <2>2, <2>3 DEF Marks
<1>8. num \in Int
  BY RangeIs DEF Ints
<1>9. n \in Nat /\ (num >= 0 => n = num)
  BY MagnitudeIs, RangeIs
<1>10. (IF value < 0 THEN -value ELSE value) = n
  <2>1. CASE Negative(num, type)
    <3>1. value = num /\ num < 0 /\ n = -num
      BY <1>6, <2>1 DEF Magnitude
    <3> QED BY <1>8, <3>1
  <2>2. CASE ~Negative(num, type)
    <3>1. n = Unsigned(num)
      BY <2>2 DEF Magnitude
    <3>2. value = n
      BY <1>6, <1>8, <1>9, <2>2, <3>1
    <3> QED BY <1>9, <3>2
  <2> QED BY <2>1, <2>2
<1>11. (IF Negative(num, type) THEN -1 ELSE 1) * n = value
  <2>1. CASE Negative(num, type)
    <3>1. value = num /\ n = -num
      BY <1>6, <2>1 DEF Magnitude
    <3> QED BY <1>8, <2>1, <3>1
  <2>2. CASE ~Negative(num, type)
    <3>1. n = Unsigned(num)
      BY <2>2 DEF Magnitude
    <3>2. value = n
      BY <1>6, <1>8, <1>9, <2>2, <3>1
    <3> QED BY <1>9, <2>2, <3>2
  <2> QED BY <2>1, <2>2
<1> HIDE DEF t, base, size, p, n, value, given, wanted
<1>12. /\ HasMinus(t) <=> Negative(num, type)
       /\ ValueOf(t, base) = n
       /\ Len(t) = Larger(Larger(size, 0), SignLength(num, type) + PrefixLength(base, type)
                            + Larger(Larger(p, 0), Least(n, base)))
       /\ Cardinality(DigitsOf(t)) >= Larger(p, 0)
       /\ BlanksAtAnEnd(t, "LEFT" \in type)
  BY <1>1, <1>2, <1>3, LaidReads DEF n
<1> DEFINE minus == {i \in 1..Len(t) : t[i] = Minus}
<1>13. (IF minus = {} THEN 1 ELSE -1) * ValueOf(t, base) = value
  <2>1. minus # {} <=> Negative(num, type)
    BY <1>12 DEF HasMinus
  <2>2. ValueOf(t, base) = n
    BY <1>12
  <2> HIDE DEF minus
  <2> QED BY <1>11, <2>1, <2>2
<1>14. Len(t) = Larger(given, Marks(num, flags, conv)
                         + Larger(wanted, Least(IF value < 0 THEN -value ELSE value, base)))
  BY <1>4, <1>7, <1>10, <1>12
<1>15. Cardinality(DigitsOf(t)) >= wanted
  BY <1>4, <1>12
<1>16. LET blanks == {i \in 1..Len(t) : t[i] = Blank}
       IN  /\ \A i, k \in 1..Len(t) : \A j \in i..k :
                j \in blanks => i \in blanks \/ k \in blanks
           /\ "LEFT" \in flags => \A i \in blanks : i > 1 => \A k \in i..Len(t) : k \in blanks
  <2> DEFINE left == "LEFT" \in type
  <2>1. BlanksAtAnEnd(t, left) /\ (left <=> "LEFT" \in flags)
    BY <1>5, <1>12
  <2> HIDE DEF left
  <2> QED BY <2>1, Zenon DEF BlanksAtAnEnd
<1> QED BY <1>13, <1>14, <1>15, <1>16, Zenon DEF NumberReads, t, base, value, given, wanted, minus

----------------------------------------------------------------------------
(* A text of m characters, on one side of a field of n.                    *)
Placed(t, txt, left, m, n) ==
  LET at == IF left THEN 0 ELSE n - m
  IN  /\ t \in Seq(Printable) /\ Len(t) = n /\ at \in Nat /\ at + m <= n
      /\ \A i \in 1..m : t[at + i] = txt[i]
      /\ \A i \in 1..n : t[i] = Blank \/ (i > at /\ i <= at + m)

LEMMA JustifiedIs ==
  ASSUME NEW txt \in Seq(Printable), NEW width \in Int, NEW left
  PROVE  Placed(Justified(txt, width, left), txt, left, Len(txt), Larger(width, Len(txt)))
<1> DEFINE m == Len(txt)
           n == Larger(width, m)
           pad == width - m
           b == Larger(pad, 0)
           P == Repeat(pad, Blank)
           t == Justified(txt, width, left)
<1>1. m \in Nat /\ pad \in Int
  OBVIOUS
<1>2. b \in Nat /\ n = m + b /\ n \in Nat
  BY <1>1 DEF Larger
<1>3. P \in Seq(Printable) /\ Len(P) = b /\ \A i \in 1..b : P[i] = Blank
  <2>1. Blank \in Printable
    BY DEF Printable
  <2> QED BY <1>1, <2>1, RepeatIs
<1>4. t = IF left THEN txt \o P ELSE P \o txt
  BY DEF Justified
<1>5. Len(txt) = m
  OBVIOUS
<1> HIDE DEF m, n, b, pad, P, t
<1>6. CASE left
  <2>1. Joined(t, txt, m, P, b)
    BY <1>3, <1>4, <1>5, <1>6, JoinIs
  <2>2. /\ t \in Seq(Printable) /\ Len(t) = m + b
        /\ \A i \in 1..m : t[i] = txt[i]
        /\ \A i \in 1..b : t[m + i] = P[i]
    BY <2>1 DEF Joined
  <2>3. \A i \in 1..m : 0 + i = i
    BY <1>1
  <2>4. ASSUME NEW i \in 1..n, ~(i <= m) PROVE t[i] = Blank
    <3> DEFINE j == i - m
    <3>1. j \in 1..b /\ m + j = i
      BY <1>1, <1>2, <2>4
    <3> HIDE DEF j
    <3> QED BY <1>3, <2>2, <3>1
  <2>5. \A i \in 1..n : t[i] = Blank \/ (i > 0 /\ i <= 0 + m)
    BY <1>1, <1>2, <2>4
  <2>6. 0 \in Nat /\ 0 + m <= n
    BY <1>1, <1>2
  <2>7. \A i \in 1..m : t[0 + i] = txt[i]
    BY <2>2, <2>3
  <2>8. Placed(t, txt, left, m, n)
    BY <1>2, <1>6, <2>2, <2>5, <2>6, <2>7 DEF Placed
  <2> QED BY <2>8 DEF t, m, n
<1>7. CASE ~left
  <2>1. Joined(t, P, b, txt, m)
    BY <1>3, <1>4, <1>5, <1>7, JoinIs
  <2>2. /\ t \in Seq(Printable) /\ Len(t) = b + m
        /\ \A i \in 1..b : t[i] = P[i]
        /\ \A i \in 1..m : t[b + i] = txt[i]
    BY <2>1 DEF Joined
  <2>3. n - m = b
    BY <1>1, <1>2
  <2>4. ASSUME NEW i \in 1..n PROVE t[i] = Blank \/ (i > b /\ i <= b + m)
    <3>1. CASE i <= b
      BY <1>3, <2>2, <3>1
    <3>2. CASE i > b
      BY <1>1, <1>2, <3>2
    <3> QED BY <1>2, <3>1, <3>2
  <2>5. b + m <= n /\ b + m = n
    BY <1>1, <1>2
  <2>6. Placed(t, txt, left, m, n)
    BY <1>2, <1>7, <2>2, <2>3, <2>4, <2>5 DEF Placed
  <2> QED BY <2>6 DEF t, m, n
<1> QED BY <1>6, <1>7

(* The directives that are no numbers.                                     *)
LEMMA CharacterPrinted ==
  ASSUME NEW c, NEW args
  PROVE  Adds(Printed(Empty, [char |-> c], args), Empty, <<c>>, 0, << >>)
<1> DEFINE d == [char |-> c]
           r == Printed(Empty, d, args)
<1>1. "conv" \notin DOMAIN d /\ d.char = c
  OBVIOUS
<1> HIDE DEF d
<1>2. r = [Empty EXCEPT !.text = Append(@, c)]
  BY <1>1 DEF Printed
<1> HIDE DEF r
<1>3. r = [text |-> Append(<< >>, c), used |-> 0, stored |-> << >>]
  BY <1>2 DEF Empty
<1>4. Append(<< >>, c) = << >> \o <<c>>
  OBVIOUS
<1>5. Adds(r, Empty, <<c>>, 0, << >>)
  BY <1>3, <1>4 DEF Adds, Empty
<1> QED BY <1>5 DEF r, d

LEMMA OthersPrinted ==
  ASSUME NEW s, NEW flags, NEW width \in Given, NEW precision \in Given, NEW conv, NEW args
  PROVE  LET d == Directive(flags, width, precision, conv)
         IN  /\ conv \in {"c", "s"} =>
                  Adds(Printed(s, d, args), s, Converted(d, args[s.used + 1]), 1, s.stored)
             /\ conv = "n" => Adds(Printed(s, d, args), s, << >>, 1, Append(s.stored, Len(s.text)))
             /\ conv = Percent => Adds(Printed(s, d, args), s, <<Percent>>, 0, s.stored)
<1> DEFINE d == Directive(flags, width, precision, conv)
           r == Printed(s, d, args)
           arg == args[s.used + 1]
<1>1. /\ "conv" \in DOMAIN d
      /\ d.flags = flags /\ d.width = width /\ d.precision = precision /\ d.conv = conv
  BY DirectiveIs
<1>2. ~Starred(d)
  BY <1>1, GivenIs DEF Starred
<1>3. \A c \in Conversions : c # Percent /\ c # None
  BY CharactersAssumption
<1> HIDE DEF d
<1>4. r = LET a == IF TakesArgument(d) THEN arg ELSE Blank
          IN  [text |-> s.text \o Converted(d, a), used |-> s.used + IF TakesArgument(d) THEN 1 ELSE 0,
               stored |-> IF d.conv = "n" THEN Append(s.stored, Len(s.text)) ELSE s.stored]
  BY <1>1, <1>2 DEF Printed
<1> HIDE DEF r, arg
<1>5. CASE conv \in {"c", "s"}
  <2> DEFINE c == Converted(d, arg)
  <2>1. TakesArgument(d) /\ d.conv # "n" /\ conv # Percent
    BY <1>1, <1>3, <1>5 DEF TakesArgument, Conversions
  <2> HIDE DEF c
  <2>2. r = [text |-> s.text \o c, used |-> s.used + 1, stored |-> s.stored]
    BY <1>4, <2>1 DEF c
  <2>3. Adds(r, s, c, 1, s.stored)
    BY <2>2 DEF Adds
  <2> QED BY <1>5, <2>1, <2>3 DEF c, arg, d, r
<1>6. CASE conv = "n"
  <2>1. TakesArgument(d) /\ d.conv = "n" /\ conv # Percent
    BY <1>1, <1>3, <1>6 DEF TakesArgument, Conversions
  <2>2. Converted(d, arg) = << >>
    BY <1>1, <1>3, <1>6 DEF Converted, Conversions
  <2>3. r = [text |-> s.text \o << >>, used |-> s.used + 1, stored |-> Append(s.stored, Len(s.text))]
    BY <1>4, <2>1, <2>2
  <2>4. Adds(r, s, << >>, 1, Append(s.stored, Len(s.text)))
    BY <2>3 DEF Adds
  <2> QED BY <1>6, <2>1, <2>4 DEF arg, d, r
<1>7. CASE conv = Percent
  <2>1. conv \notin Conversions
    BY <1>3, <1>7
  <2>2. ~TakesArgument(d) /\ d.conv # "n" /\ conv # "n" /\ conv \notin {"c", "s"}
    BY <1>1, <2>1 DEF TakesArgument, Conversions
  <2>3. /\ d.conv # "c" /\ d.conv # "s" /\ d.conv # "o" /\ d.conv # "p" /\ d.conv # "x"
        /\ d.conv # "X" /\ d.conv \notin {"d", "i"} /\ d.conv # "u" /\ d.conv # "b"
        /\ d.conv # "n" /\ d.conv \in {Percent, None}
    BY <1>1, <1>7, <2>1 DEF Conversions, Numeric
  <2>4. Converted(d, Blank) = <<Percent>>
    BY <2>3 DEF Converted
  <2>5. r = [text |-> s.text \o <<Percent>>, used |-> s.used + 0, stored |-> s.stored]
    BY <1>4, <2>2, <2>4
  <2>6. Adds(r, s, <<Percent>>, 0, s.stored)
    BY <2>5 DEF Adds
  <2> QED BY <1>7, <2>2, <2>6 DEF d, r
<1>8. CASE conv \notin {"c", "s"} /\ conv # "n" /\ conv # Percent
  BY <1>8
<1> QED BY <1>5, <1>6, <1>7, <1>8

(* A text, cut to its precision, and a character are justified.            *)
Cut(s, precision) ==
  IF precision = None \/ precision >= Len(s) THEN s ELSE SubSeq(s, 1, precision)

LEMMA CutIs ==
  ASSUME NEW s \in Seq(Printable), NEW precision \in Given
  PROVE  Cut(s, precision) \in Seq(Printable) /\ Len(Cut(s, precision)) \in Nat
<1>1. \A i \in 1..Len(s) : s[i] \in Printable
  OBVIOUS
<1>2. CASE precision = None \/ precision >= Len(s)
  <2>1. Cut(s, precision) = s
    BY <1>2 DEF Cut
  <2> QED BY <2>1
<1>3. CASE ~(precision = None \/ precision >= Len(s))
  <2>1. precision \in Nat
    BY <1>3, GivenIs
  <2>2. Len(s) \in Nat /\ precision < Len(s)
    BY <1>3, <2>1
  <2>3. \A i \in 1..precision : s[i] \in Printable
    BY <1>1, <2>1, <2>2
  <2>4. SubSeq(s, 1, precision) \in Seq(Printable)
    BY <2>1, <2>3, SubSeqProperties
  <2>5. Cut(s, precision) \in Seq(Printable)
    BY <1>3, <2>4 DEF Cut
  <2> QED BY <2>5
<1> QED BY <1>2, <1>3

LEMMA TextConverted ==
  ASSUME NEW flags, NEW width \in Given, NEW precision \in Given, NEW s \in Seq(Printable), NEW c
  PROVE  /\ Converted(Directive(flags, width, precision, "s"), s)
              = Justified(Cut(s, precision), DigitsGiven(width), "LEFT" \in flags)
         /\ Converted(Directive(flags, width, precision, "c"), c)
              = Justified(<<c>>, DigitsGiven(width), "LEFT" \in flags)
<1> DEFINE t == Directive(flags, width, precision, "s")
           d == Directive(flags, width, precision, "c")
<1>1. /\ t.flags = flags /\ t.width = width /\ t.precision = precision /\ t.conv = "s"
      /\ d.flags = flags /\ d.width = width /\ d.precision = precision /\ d.conv = "c"
  BY DirectiveIs
<1>2. FieldWidth(t) = DigitsGiven(width) /\ FieldWidth(d) = DigitsGiven(width)
  BY <1>1 DEF FieldWidth, DigitsGiven
<1>3. Precision(t) = DigitsGiven(precision)
  BY <1>1 DEF Precision, DigitsGiven
<1>4. "s" \notin {Percent, None} /\ "c" \notin {Percent, None}
  BY CharactersAssumption DEF Conversions
<1> HIDE DEF t, d
<1>5. Converted(d, c) = Justified(<<c>>, FieldWidth(d), "LEFT" \in flags)
  BY <1>1, <1>4 DEF Converted
<1>6. Converted(t, s) = Text(s, FieldWidth(t), Precision(t), "LEFT" \in flags)
  BY <1>1, <1>4 DEF Converted
<1>7. Cut(s, precision)
        = IF Precision(t) >= 0 /\ Len(s) > Precision(t) THEN SubSeq(s, 1, Precision(t)) ELSE s
  <2>1. CASE precision = None
    <3>1. Precision(t) = -1
      BY <1>3, <2>1 DEF DigitsGiven
    <3>2. ~(-1 >= 0)
      OBVIOUS
    <3> QED BY <2>1, <3>1, <3>2 DEF Cut
  <2>2. CASE precision # None
    <3>1. precision \in Nat /\ Precision(t) = precision
      BY <1>3, <2>2, GivenIs DEF DigitsGiven
    <3>2. precision >= 0 /\ (Len(s) > precision <=> ~(precision >= Len(s)))
      BY <3>1
    <3> QED BY <2>2, <3>1, <3>2 DEF Cut
  <2> QED BY <2>1, <2>2
<1>8. Converted(t, s) = Justified(Cut(s, precision), FieldWidth(t), "LEFT" \in flags)
  BY <1>6, <1>7 DEF Text
<1> QED BY <1>2, <1>5, <1>8 DEF t, d

(* The parts of a sequence of characters that stands at some place.        *)
LEMMA PartIs ==
  ASSUME NEW s \in Seq(Printable), NEW at \in Nat, NEW txt \in Seq(Printable),
         \A i \in 1..Len(txt) : s[at + i] = txt[i]
  PROVE  SubSeq(s, at + 1, at + Len(txt)) = txt
<1> DEFINE m == Len(txt)
           p == SubSeq(s, at + 1, at + m)
<1>1. m \in Nat /\ Len(txt) = m /\ \A i \in 1..m : txt[i] \in Printable
  OBVIOUS
<1>2. \A i \in 1..m : s[at + i] = txt[i]
  OBVIOUS
<1> HIDE DEF m
<1>3. \A j \in (at + 1)..(at + m) : s[j] \in Printable
  <2> SUFFICES ASSUME NEW j \in (at + 1)..(at + m) PROVE s[j] \in Printable
    OBVIOUS
  <2> DEFINE i == j - at
  <2>1. i \in 1..m /\ at + i = j
    BY <1>1
  <2> HIDE DEF i
  <2> QED BY <1>1, <1>2, <2>1
<1>4. at + 1 \in Int /\ at + m \in Int
  BY <1>1
<1>5. /\ p \in Seq(Printable)
      /\ Len(p) = IF at + 1 <= at + m THEN (at + m) - (at + 1) + 1 ELSE 0
      /\ \A i \in 1..((at + m) - (at + 1) + 1) : p[i] = s[(at + 1) + i - 1]
  BY <1>3, <1>4, SubSeqProperties
<1> HIDE DEF p
<1>6. (IF at + 1 <= at + m THEN (at + m) - (at + 1) + 1 ELSE 0) = m
  BY <1>1
<1>7. Len(p) = Len(txt)
  BY <1>1, <1>5, <1>6
<1>8. ASSUME NEW i \in 1..m PROVE p[i] = txt[i]
  <2>1. i \in 1..((at + m) - (at + 1) + 1) /\ (at + 1) + i - 1 = at + i
    BY <1>1
  <2> QED BY <1>2, <1>5, <2>1
<1>9. \A i \in 1..Len(p) : p[i] = txt[i]
  BY <1>1, <1>7, <1>8
<1>10. p = txt
  BY <1>5, <1>7, <1>9, SeqEqual
<1> QED BY <1>10 DEF p, m

(* What the directives of TextReads print and store.                       *)
LEMMA TextPrinted ==
  ASSUME NEW s \in Seq(Printable), NEW flags, NEW width \in Given, NEW precision \in Given
  PROVE  LET t == Justified(Cut(s, precision), DigitsGiven(width), "LEFT" \in flags)
             c == Justified(<<Plus>>, DigitsGiven(width), "LEFT" \in flags)
             all == Formatted(<<[char |-> Minus], Directive(flags, width, precision, "s"),
                                Directive(flags, width, None, "c"), Directive({}, None, None, "n"),
                                Directive({}, None, None, Percent)>>, <<s, Plus, 0>>)
         IN  /\ all.text = ((<<Minus>> \o t) \o c) \o <<Percent>>
             /\ all.stored = <<Len((<<Minus>> \o t) \o c)>> /\ all.used = 3
<1> DEFINE t == Justified(Cut(s, precision), DigitsGiven(width), "LEFT" \in flags)
           c == Justified(<<Plus>>, DigitsGiven(width), "LEFT" \in flags)
           d1 == [char |-> Minus]
           d2 == Directive(flags, width, precision, "s")
           d3 == Directive(flags, width, None, "c")
           d4 == Directive({}, None, None, "n")
           d5 == Directive({}, None, None, Percent)
           fmt == <<d1, d2, d3, d4, d5>>
           args == <<s, Plus, 0>>
<1>1. None \in Given
  BY DEF Given
<1>2. Converted(d2, s) = t /\ Converted(d3, Plus) = c
  BY <1>1, TextConverted
<1>3. t \in Seq(Printable) /\ c \in Seq(Printable)
  <2>1. Cut(s, precision) \in Seq(Printable) /\ <<Plus>> \in Seq(Printable)
    <3>1. Plus \in Printable
      BY DEF Printable
    <3> QED BY <3>1, CutIs
  <2>2. DigitsGiven(width) \in Int
    BY GivenIs DEF DigitsGiven
  <2> HIDE DEF t, c
  <2>3. Placed(t, Cut(s, precision), "LEFT" \in flags, Len(Cut(s, precision)),
               Larger(DigitsGiven(width), Len(Cut(s, precision))))
    BY <2>1, <2>2, JustifiedIs DEF t
  <2>4. Placed(c, <<Plus>>, "LEFT" \in flags, Len(<<Plus>>), Larger(DigitsGiven(width), Len(<<Plus>>)))
    BY <2>1, <2>2, JustifiedIs DEF c
  <2> QED BY <2>3, <2>4 DEF Placed
<1>4. args[0 + 1] = s /\ args[1 + 1] = Plus
  OBVIOUS
<1> HIDE DEF t, c, args
<1>5. \A r : /\ Adds(Printed(Empty, d1, args), Empty, <<Minus>>, 0, << >>)
             /\ Adds(Printed(r, d2, args), r, Converted(d2, args[r.used + 1]), 1, r.stored)
             /\ Adds(Printed(r, d3, args), r, Converted(d3, args[r.used + 1]), 1, r.stored)
             /\ Adds(Printed(r, d4, args), r, << >>, 1, Append(r.stored, Len(r.text)))
             /\ Adds(Printed(r, d5, args), r, <<Percent>>, 0, r.stored)
  <2> TAKE r
  <2>1. Adds(Printed(Empty, d1, args), Empty, <<Minus>>, 0, << >>)
    BY CharacterPrinted
  <2>2. Adds(Printed(r, d2, args), r, Converted(d2, args[r.used + 1]), 1, r.stored)
    BY OthersPrinted
  <2>3. Adds(Printed(r, d3, args), r, Converted(d3, args[r.used + 1]), 1, r.stored)
    BY <1>1, OthersPrinted
  <2>4. Adds(Printed(r, d4, args), r, << >>, 1, Append(r.stored, Len(r.text)))
    BY <1>1, OthersPrinted
  <2>5. Adds(Printed(r, d5, args), r, <<Percent>>, 0, r.stored)
    BY <1>1, OthersPrinted
  <2> QED BY <2>1, <2>2, <2>3, <2>4, <2>5
<1>6. Len(fmt) = 5 /\ fmt[1] = d1 /\ fmt[2] = d2 /\ fmt[3] = d3 /\ fmt[4] = d4 /\ fmt[5] = d5
  <2> HIDE DEF d1, d2, d3, d4, d5
  <2> QED OBVIOUS
<1> HIDE DEF d1, d2, d3, d4, d5, fmt
<1>7. PICK f : Formatted(fmt, args) = f[5] /\ PrintedTo(f, fmt, args, 5)
  <2>1. 5 \in Nat
    OBVIOUS
  <2> QED BY <1>6, <2>1, FormattedUnfolds
<1>8. /\ f[1] = Printed(Empty, d1, args) /\ f[2] = Printed(f[1], d2, args)
      /\ f[3] = Printed(f[2], d3, args) /\ f[4] = Printed(f[3], d4, args)
      /\ f[5] = Printed(f[4], d5, args)
  <2>1. /\ 1 \in 1..5 /\ 2 \in 1..5 /\ 3 \in 1..5 /\ 4 \in 1..5 /\ 5 \in 1..5
        /\ 1 - 1 = 0 /\ 2 - 1 = 1 /\ 3 - 1 = 2 /\ 4 - 1 = 3 /\ 5 - 1 = 4
    OBVIOUS
  <2> QED BY <1>6, <1>7, <2>1 DEF PrintedTo
<1>9. f[1].text = <<Minus>> /\ f[1].used = 0 /\ f[1].stored = << >>
  <2>1. Adds(f[1], Empty, <<Minus>>, 0, << >>)
    BY <1>5, <1>8
  <2>2. << >> \o <<Minus>> = <<Minus>>
    OBVIOUS
  <2> QED BY <2>1, <2>2 DEF Adds, Empty
<1>10. f[2].text = <<Minus>> \o t /\ f[2].used = 1 /\ f[2].stored = << >>
  <2>1. Adds(f[2], f[1], Converted(d2, args[f[1].used + 1]), 1, f[1].stored)
    BY <1>5, <1>8
  <2>2. args[f[1].used + 1] = s
    BY <1>4, <1>9
  <2>3. Adds(f[2], f[1], t, 1, << >>)
    BY <1>2, <1>9, <2>1, <2>2
  <2> QED BY <1>9, <2>3 DEF Adds
<1> DEFINE u == <<Minus>> \o t
           v == u \o c
<1>11. f[3].text = v /\ f[3].used = 2 /\ f[3].stored = << >>
  <2>1. Adds(f[3], f[2], Converted(d3, args[f[2].used + 1]), 1, f[2].stored)
    BY <1>5, <1>8
  <2>2. args[f[2].used + 1] = Plus
    BY <1>4, <1>10
  <2>3. Adds(f[3], f[2], c, 1, << >>)
    BY <1>2, <1>10, <2>1, <2>2
  <2> QED BY <1>10, <2>3 DEF Adds
<1>12. v \in Seq(Printable)
  <2>1. <<Minus>> \in Seq(Printable)
    BY DEF Printable
  <2>2. u \in Seq(Printable)
    BY <1>3, <2>1, ConcatProperties
  <2> HIDE DEF u
  <2> QED BY <1>3, <2>2, ConcatProperties
<1> HIDE DEF u, v
<1>13. f[4].text = v /\ f[4].used = 3 /\ f[4].stored = <<Len(v)>>
  <2>1. Adds(f[4], f[3], << >>, 1, Append(f[3].stored, Len(f[3].text)))
    BY <1>5, <1>8
  <2>2. Append(<< >>, Len(v)) = <<Len(v)>> /\ v \o << >> = v
    BY <1>12, ConcatEmptySeq
  <2>3. Adds(f[4], f[3], << >>, 1, <<Len(v)>>)
    BY <1>11, <2>1, <2>2
  <2> QED BY <1>11, <2>2, <2>3 DEF Adds
<1>14. f[5].text = v \o <<Percent>> /\ f[5].used = 3 /\ f[5].stored = <<Len(v)>>
  <2>1. Adds(f[5], f[4], <<Percent>>, 0, <<Len(v)>>)
    BY <1>5, <1>8, <1>13
  <2> QED BY <1>13, <2>1 DEF Adds
<1> QED BY <1>7, <1>14 DEF u, v, t, c, d1, d2, d3, d4, d5, fmt, args

LEMMA TextsRead ==
  ASSUME NEW s \in Seq(Printable), NEW flags, NEW width \in Given, NEW precision \in Given
  PROVE  TextReads(s, flags, width, precision)
<1> DEFINE left == "LEFT" \in flags
           cut == Cut(s, precision)
           w == DigitsGiven(width)
           t == Justified(cut, w, left)
           c == Justified(<<Plus>>, w, left)
           all == Formatted(<<[char |-> Minus], Directive(flags, width, precision, "s"),
                              Directive(flags, width, None, "c"), Directive({}, None, None, "n"),
                              Directive({}, None, None, Percent)>>, <<s, Plus, 0>>)
           m == Len(cut)
           n == Larger(w, m)
           k == Larger(w, 1)
           size == IF width = None \/ width < m THEN m ELSE width
           at == IF left THEN 0 ELSE n - m
           u == <<Minus>> \o t
           v == u \o c
           e == v \o <<Percent>>
<1>1. all.text = e /\ all.stored = <<Len(v)>> /\ all.used = 3
  BY TextPrinted
<1>2. cut \in Seq(Printable) /\ m \in Nat
  BY CutIs
<1>3. /\ w \in Int /\ (width # None => w = width) /\ (width = None => w = -1)
      /\ width # None => width \in Nat
  BY GivenIs DEF DigitsGiven
<1>4. /\ Minus \in Printable /\ Plus \in Printable /\ Percent \in Printable
      /\ \A ch \in Printable : <<ch>> \in Seq(Printable) /\ Len(<<ch>>) = 1 /\ <<ch>>[1] = ch
  <2>1. Minus \in Printable /\ Plus \in Printable /\ Percent \in Printable
    BY DEF Printable
  <2> QED BY <2>1
<1> HIDE DEF left, cut, w, all
<1>5. Placed(t, cut, left, m, n)
  BY <1>2, <1>3, JustifiedIs
<1>6. Placed(c, <<Plus>>, left, 1, k)
  <2>1. Placed(c, <<Plus>>, left, Len(<<Plus>>), Larger(w, Len(<<Plus>>)))
    BY <1>3, <1>4, JustifiedIs
  <2> QED BY <1>4, <2>1
<1>7. n \in Nat /\ k \in Nat /\ k >= 1 /\ n = size /\ m <= n
  BY <1>2, <1>3 DEF Larger
<1>8. k = Larger(1, IF width = None THEN 1 ELSE width)
  <2>1. Larger(-1, 1) = Larger(1, 1)
    BY DEF Larger
  <2>2. \A i \in Nat : Larger(i, 1) = Larger(1, i)
    BY DEF Larger
  <2>3. CASE width = None
    BY <1>3, <2>1, <2>3
  <2>4. CASE width # None
    BY <1>3, <2>2, <2>4
  <2> QED BY <2>3, <2>4
<1> HIDE DEF m, n, k, t, c, size
<1>9. /\ t \in Seq(Printable) /\ Len(t) = n /\ at \in Nat /\ at + m <= n
      /\ \A i \in 1..m : t[at + i] = cut[i]
      /\ \A i \in 1..n : t[i] = Blank \/ (i > at /\ i <= at + m)
  BY <1>5 DEF Placed
<1>10. c \in Seq(Printable) /\ Len(c) = k
  BY <1>6 DEF Placed
<1> HIDE DEF at
<1>11. /\ u \in Seq(Printable) /\ Len(u) = 1 + n /\ u[1] = Minus
       /\ \A i \in 1..n : u[1 + i] = t[i]
  <2>1. Joined(u, <<Minus>>, 1, t, n)
    BY <1>4, <1>9, JoinIs
  <2> HIDE DEF u
  <2>2. /\ u \in Seq(Printable) /\ Len(u) = 1 + n
        /\ \A i \in 1..1 : u[i] = <<Minus>>[i]
        /\ \A i \in 1..n : u[1 + i] = t[i]
    BY <2>1 DEF Joined
  <2>3. 1 \in 1..1
    OBVIOUS
  <2>4. u[1] = Minus
    BY <1>4, <2>2, <2>3
  <2> QED BY <2>2, <2>4
<1> HIDE DEF u
<1>12. /\ v \in Seq(Printable) /\ Len(v) = (1 + n) + k
       /\ \A i \in 1..(1 + n) : v[i] = u[i]
  <2>1. Joined(v, u, 1 + n, c, k)
    BY <1>10, <1>11, JoinIs
  <2> HIDE DEF v
  <2> QED BY <2>1 DEF Joined
<1> HIDE DEF v
<1>13. /\ e \in Seq(Printable) /\ Len(e) = ((1 + n) + k) + 1
       /\ \A i \in 1..((1 + n) + k) : e[i] = v[i]
       /\ e[((1 + n) + k) + 1] = Percent
  <2>1. Joined(e, v, (1 + n) + k, <<Percent>>, 1)
    BY <1>4, <1>12, JoinIs
  <2> HIDE DEF e
  <2>2. /\ e \in Seq(Printable) /\ Len(e) = ((1 + n) + k) + 1
        /\ \A i \in 1..((1 + n) + k) : e[i] = v[i]
        /\ \A i \in 1..1 : e[((1 + n) + k) + i] = <<Percent>>[i]
    BY <2>1 DEF Joined
  <2>3. 1 \in 1..1
    OBVIOUS
  <2>4. e[((1 + n) + k) + 1] = Percent
    BY <1>4, <2>2, <2>3
  <2> QED BY <2>2, <2>4
<1> HIDE DEF e
<1>14. \A i \in 1..n : e[1 + i] = t[i]
  <2> SUFFICES ASSUME NEW i \in 1..n PROVE e[1 + i] = t[i]
    OBVIOUS
  <2>1. 1 + i \in 1..(1 + n) /\ 1 + i \in 1..((1 + n) + k)
    BY <1>7
  <2> QED BY <1>11, <1>12, <1>13, <2>1
<1>15. SubSeq(e, 2, n + 1) = t
  <2>1. SubSeq(e, 1 + 1, 1 + Len(t)) = t
    <3>1. 1 \in Nat /\ \A i \in 1..Len(t) : e[1 + i] = t[i]
      BY <1>9, <1>14
    <3> QED BY <1>9, <1>13, <3>1, PartIs
  <2>2. 1 + 1 = 2 /\ 1 + n = n + 1
    BY <1>7
  <2> QED BY <1>9, <2>1, <2>2
<1>16. SubSeq(t, at + 1, at + m) = cut
  <2>1. Len(cut) = m
    BY DEF m
  <2>2. \A i \in 1..Len(cut) : t[at + i] = cut[i]
    BY <1>9, <2>1
  <2>3. SubSeq(t, at + 1, at + Len(cut)) = cut
    BY <1>2, <1>9, <2>2, PartIs
  <2> QED BY <2>1, <2>3
<1>17. Head(e) = Minus
  <2>1. e[1] = Minus
    <3>1. 1 \in 1..(1 + n) /\ 1 \in 1..((1 + n) + k)
      BY <1>7
    <3> QED BY <1>11, <1>12, <1>13, <3>1
  <2>2. Head(e) = e[1]
    OBVIOUS
  <2> QED BY <2>1, <2>2
<1>18. e[Len(e)] = Percent
  BY <1>13
<1>19. Len(v) = Len(e) - 1 /\ Len(e) = size + 2 + k
  <2> DEFINE a == Len(v)
             b == Len(e)
  <2>1. a = (1 + n) + k /\ b = ((1 + n) + k) + 1
    BY <1>12, <1>13
  <2> HIDE DEF a, b
  <2>2. a = b - 1 /\ b = n + 2 + k
    BY <1>7, <2>1
  <2> QED BY <1>7, <2>2 DEF a, b
<1> DEFINE text == SubSeq(all.text, 2, size + 1)
           place == IF left THEN 0 ELSE size - Len(cut)
<1>20. text = t /\ place = at
  BY <1>1, <1>7, <1>15 DEF at, m
<1> HIDE DEF text, place
<1>21. SubSeq(text, place + 1, place + Len(cut)) = cut
  BY <1>16, <1>20 DEF m
<1>22. \A i \in 1..size : text[i] = Blank \/ (i > place /\ i <= place + Len(cut))
  BY <1>7, <1>9, <1>20 DEF m
<1>23. Head(all.text) = Minus /\ all.text[Len(all.text)] = Percent
  BY <1>1, <1>17, <1>18
<1>24. all.stored = <<Len(all.text) - 1>> /\ all.used = 3
  BY <1>1, <1>19
<1>25. Len(all.text) = size + 2 + Larger(1, IF width = None THEN 1 ELSE width)
  BY <1>1, <1>8, <1>19
<1> QED BY <1>21, <1>22, <1>23, <1>24, <1>25, Zenon
        DEF TextReads, text, place, size, m, cut, Cut, left, all

(* What printk() has formatted is read back (debug.c:75-156, 171-320), for *)
(* an int of any number of bits and every width and precision given by a   *)
(* number or left out.                                                     *)
THEOREM FormatsReadBackHolds == Spec => []FormatsReadBack
<1>1. FormatsReadBack
  <2>1. 0..MaxWidth \cup {None} \subseteq Given
    BY WidthAssumption DEF Given
  <2>2. \A num \in Ints, flags \in SUBSET PrintFlags, width, precision \in Given, conv \in Numeric :
          NumberReads(num, flags, width, precision, conv)
    BY NumbersRead
  <2>3. \A len \in 0..2 : Repeat(len, LetterX) \in Seq(Printable)
    <3>1. LetterX \in Printable
      BY DEF Printable
    <3>2. \A len \in 0..2 : len \in Int
      OBVIOUS
    <3> QED BY <3>1, <3>2, RepeatIs
  <2>4. \A len \in 0..2, flags \in SUBSET PrintFlags, width, precision \in Given :
          TextReads(Repeat(len, LetterX), flags, width, precision)
    BY <2>3, TextsRead
  <2>5. SUFFICES ASSUME NEW flags \in SUBSET PrintFlags,
                        NEW width \in 0..MaxWidth \cup {None},
                        NEW precision \in 0..MaxWidth \cup {None}
        PROVE  /\ \A num \in Ints, conv \in Numeric : NumberReads(num, flags, width, precision, conv)
               /\ \A len \in 0..2 : TextReads(Repeat(len, LetterX), flags, width, precision)
    BY DEF FormatsReadBack, PrintFlags
  <2>6. \A num \in Ints, conv \in Numeric : NumberReads(num, flags, width, precision, conv)
    BY <2>1, <2>2, Zenon
  <2>7. \A len \in 0..2 : TextReads(Repeat(len, LetterX), flags, width, precision)
    BY <2>1, <2>4, Zenon
  <2> QED BY <2>6, <2>7, Zenon
<1> QED BY <1>1, PTL DEF Spec
=============================================================================
