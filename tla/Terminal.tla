------------------------------ MODULE Terminal ------------------------------
(***************************************************************************)
(* The running kernel of src/yequ: init() sets the machine up, reads a     *)
(* character with tty_getc() and prints it, while the keyboard interrupts  *)
(* it between any two of its instructions.  The interrupt handler runs     *)
(* with interrupts off, so it is one step; init() takes a step for every   *)
(* access to a variable that the handler also uses.                        *)
(*                                                                         *)
(* The timer's handler does nothing, and no other vector has one, so only  *)
(* keys interrupt; a cell of the screen is inked or blank.                 *)
(***************************************************************************)
EXTENDS Integers, Sequences, FiniteSets

CONSTANTS
  N,                           \* TTY_BUF_LEN
  Rows, Cols, TabStop,         \* 25, 80 and 8 in vga.c
  NUL, BS, TAB, NL, SP,        \* characters with an effect of their own
  Glyph,                       \* the characters that print
  ShiftL, ShiftR, Released, ReleasesShift, Keys,  \* scan codes
  Lower, Upper,                \* kbd_scodes and kbd_scodes_upper
  Title, Answer,               \* the texts that init() prints
  MaxKeys                      \* bound on the interrupts of a behaviour

Char == {NUL, BS, TAB, NL, SP} \cup Glyph
Codes == {ShiftL, ShiftR} \cup Released \cup Keys

ASSUME TerminalAssumption ==
  /\ N \in Nat \ {0, 1}
  /\ Rows \in Nat \ {0} /\ Cols \in Nat \ {0} /\ TabStop \in 1..Cols
  /\ Lower \in [Keys -> Char] /\ Upper \in [Keys -> Char]
  /\ ReleasesShift \subseteq Released
  /\ Title \in Seq(Char \ {BS}) /\ Answer \in Seq(Char \ {BS})
  /\ BS \notin {NUL, TAB, NL, SP} \cup Glyph
  /\ TAB \notin {NL, SP} \cup Glyph /\ NL \notin {SP} \cup Glyph /\ SP \notin Glyph

VARIABLES
  pc,                          \* where init() is
  handlers,                    \* the vectors in interrupt_handlers
  buf, tail, count,            \* tty_dev
  shift,                       \* shift_flag
  full,                        \* the keyboard controller holds a code
  x, y, ink,                   \* pos_x, pos_y, the inked cells of video
  reg,                         \* the register of init()
  clr,                         \* how far memset() has come in tty_init()
  out,                         \* what is left to print of init()'s message
  keys                         \* history: the number of interrupts

tty == <<buf, tail, count>>
screen == <<x, y, ink>>
vars == <<pc, handlers, full, tty, shift, screen, reg, clr, out, keys>>

----------------------------------------------------------------------------
(* The ring of tty.c.                                                      *)
Prev(i) == IF i = 0 THEN N - 1 ELSE i - 1
After(i) == IF i = N - 1 THEN 0 ELSE i + 1

Push(c) ==
  IF count = N THEN UNCHANGED tty
  ELSE /\ buf' = [buf EXCEPT ![tail] = c]
       /\ tail' = After(tail)
       /\ count' = count + 1

Pop ==
  IF count = 0 THEN UNCHANGED tty
  ELSE /\ tail' = Prev(tail)
       /\ count' = count - 1
       /\ UNCHANGED buf

----------------------------------------------------------------------------
(* vga_putc_color(): the character moves the cursor, a full line wraps,    *)
(* and the screen rolls up when the cursor has left it.                    *)
TabbedTo(col) == ((col + TabStop) \div TabStop) * TabStop

CellAt(s) == s.y * Cols + s.x

Moved(c, s) ==
  CASE c = BS /\ s.x > 0 -> [s EXCEPT !.x = @ - 1]
    [] c = TAB -> [s EXCEPT !.x = TabbedTo(@)]
    [] c = NL -> [x |-> 0, y |-> s.y + 1, ink |-> s.ink]
    [] c = SP -> [x |-> s.x + 1, y |-> s.y, ink |-> s.ink \ {CellAt(s)}]
    [] c \in Glyph -> [x |-> s.x + 1, y |-> s.y, ink |-> s.ink \cup {CellAt(s)}]
    [] OTHER -> s

Wrapped(s) == IF s.x >= Cols THEN [s EXCEPT !.x = 0, !.y = @ + 1] ELSE s

(* The rows move up by one, the last of them becomes blank, and what was   *)
(* written below the screen stays there.                                   *)
RolledUp(cells) ==
  {p - Cols : p \in {q \in cells : q >= Cols /\ q < Rows * Cols}}
    \cup {p \in cells : p >= Rows * Cols}

Scrolled(s) ==
  IF s.y >= Rows THEN [s EXCEPT !.ink = RolledUp(@), !.y = Rows - 1] ELSE s

VgaPutc(c, s) == Scrolled(Wrapped(Moved(c, s)))

(* Mutant: a backspace only steps back.                                    *)
DrawnUnblanked(c, s) == VgaPutc(c, s)

(* tty_putc(): a backspace is drawn as a step back, a blank and a step     *)
(* back, and takes the last character out of the ring.                     *)
Drawn(c, s) ==
  IF c = BS THEN VgaPutc(BS, VgaPutc(SP, VgaPutc(BS, s))) ELSE VgaPutc(c, s)

TtyPutc(c) ==
  /\ LET s == Drawn(c, [x |-> x, y |-> y, ink |-> ink])
     IN  x' = s.x /\ y' = s.y /\ ink' = s.ink
  /\ IF c = BS THEN Pop ELSE Push(c)

----------------------------------------------------------------------------
(* idt_init(): the controllers raise interrupt irq at vector 32 + irq, and *)
(* there is a gate for each of these, for the exceptions, and for 255.     *)
Remapped(irq) == IF irq < 8 THEN 32 + irq ELSE 40 + (irq - 8)
Gates == 0..31 \cup {Remapped(irq) : irq \in 0..15} \cup {255}
TimerVector == Remapped(0)
KeyVector == Remapped(1)

(* kbd_handler(): only the left shift key sets the flag, the release of    *)
(* either clears it.  The keyboard controller raises no interrupt while it *)
(* holds a code that nobody has fetched: a key before its handler is       *)
(* registered is the last one.                                             *)
Running == pc \notin {"boot", "title", "gates"}

KeyInterrupt ==
  /\ Running /\ KeyVector \in Gates /\ ~full /\ keys < MaxKeys
  /\ keys' = keys + 1
  /\ \E code \in Codes :
       IF KeyVector \notin handlers THEN full' = TRUE /\ UNCHANGED <<shift, tty, screen>>
       ELSE /\ UNCHANGED full
            /\ shift' = IF code = ShiftL THEN TRUE
                        ELSE IF code \in ReleasesShift THEN FALSE ELSE shift
            /\ IF code \in Released \cup {ShiftL, ShiftR} THEN UNCHANGED <<tty, screen>>
               ELSE TtyPutc(IF shift' THEN Upper[code] ELSE Lower[code])
  /\ UNCHANGED <<pc, handlers, reg, clr, out>>

----------------------------------------------------------------------------
(* init(), until interrupts are on.                                        *)
Goes(from, to) == pc = from /\ pc' = to

Init ==
  /\ pc = "boot" /\ handlers = {}
  /\ buf = [i \in 0..(N - 1) |-> NUL] /\ tail = 0 /\ count = 0
  /\ shift = FALSE /\ full = FALSE /\ keys = 0
  /\ x = 0 /\ y = 0 /\ reg = 0 /\ clr = 0 /\ out = << >>
  /\ ink = 0..(Rows * Cols - 1)

VgaInit ==
  /\ Goes("boot", "title")
  /\ x' = 0 /\ y' = 0 /\ ink' = {} /\ out' = Title
  /\ UNCHANGED <<keys, full, handlers, tty, shift, reg, clr>>

(* The title is printed while nothing can interrupt.                       *)
PrintTitle ==
  /\ pc = "title"
  /\ IF out = << >> THEN pc' = "gates" /\ UNCHANGED <<screen, out>>
     ELSE LET s == VgaPutc(Head(out), [x |-> x, y |-> y, ink |-> ink])
          IN  x' = s.x /\ y' = s.y /\ ink' = s.ink /\ out' = Tail(out) /\ UNCHANGED pc
  /\ UNCHANGED <<keys, full, handlers, tty, shift, reg, clr>>

(* idt_init() and sti: from here on the keyboard interrupts.               *)
GatesAndSti ==
  /\ Goes("gates", "timer")
  /\ UNCHANGED <<keys, full, handlers, tty, shift, screen, reg, clr, out>>

TimerInit ==
  /\ Goes("timer", "register")
  /\ handlers' = handlers \cup {TimerVector}
  /\ UNCHANGED <<keys, full, tty, shift, screen, reg, clr, out>>

(* kbd_init() registers the handler before tty_init() clears the ring.     *)
RegisterHandler ==
  /\ Goes("register", "clear")
  /\ handlers' = handlers \cup {KeyVector}
  /\ UNCHANGED <<keys, full, tty, shift, screen, reg, clr, out>>

ClearByte ==
  /\ pc = "clear" /\ clr < N
  /\ buf' = [buf EXCEPT ![clr] = NUL]
  /\ clr' = clr + 1
  /\ UNCHANGED <<keys, full, pc, handlers, tail, count, shift, screen, reg, out>>

ClearTail ==
  /\ clr = N /\ Goes("clear", "count")
  /\ tail' = 0
  /\ UNCHANGED <<keys, full, handlers, buf, count, shift, screen, reg, clr, out>>

(* Mutant: tty_init() leaves the count.                                    *)
ClearCountForgotten ==
  /\ Goes("count", "poll")
  /\ UNCHANGED <<keys, full, handlers, tty, shift, screen, reg, clr, out>>

ClearCount ==
  /\ Goes("count", "poll")
  /\ count' = 0
  /\ UNCHANGED <<keys, full, handlers, buf, tail, shift, screen, reg, clr, out>>

----------------------------------------------------------------------------
(* tty_getc(): tail is read, then the character before it.  In front of    *)
(* the buffer lies the highest byte of count, which is no line feed.       *)
GetcLoads ==
  /\ Goes("poll", "test")
  /\ reg' = tail
  /\ UNCHANGED <<keys, full, handlers, tty, shift, screen, clr, out>>

(* Mutant: the character at tail is tested.                                *)
GetcTestsTail ==
  /\ pc = "test"
  /\ pc' = IF reg > 0 /\ buf[reg] = NL THEN "first" ELSE "poll"
  /\ UNCHANGED <<keys, full, handlers, tty, shift, screen, reg, clr, out>>

GetcTests ==
  /\ pc = "test"
  /\ pc' = IF reg > 0 /\ buf[reg - 1] = NL THEN "first" ELSE "poll"
  /\ UNCHANGED <<keys, full, handlers, tty, shift, screen, reg, clr, out>>

(* It returns the first character of the buffer, and init() prints it; a   *)
(* NUL ends the message.                                                   *)
GetcReturns ==
  /\ Goes("first", "put")
  /\ out' = Answer \o IF buf[0] = NUL THEN << >> ELSE <<buf[0], NL>>
  /\ UNCHANGED <<keys, full, handlers, tty, shift, screen, reg, clr>>

----------------------------------------------------------------------------
(* vga_putc_color() once more, one access at a time.  The message holds no *)
(* backspace: neither does Answer, nor is one ever kept in the ring.       *)
Regs == UNCHANGED <<keys, full, handlers, tty, shift, clr>>
Keep == Regs /\ UNCHANGED <<screen, out>>

PutBranch ==
  /\ pc = "put" /\ out # << >>
  /\ CASE Head(out) \in Glyph \cup {SP} -> pc' = "cellRow" /\ UNCHANGED x
       [] Head(out) = NL -> pc' = "nextRow" /\ x' = 0
       [] Head(out) = TAB -> pc' = "tab" /\ UNCHANGED x
       [] OTHER -> pc' = "wrap" /\ UNCHANGED x
  /\ reg' = IF Head(out) = TAB THEN x ELSE reg
  /\ Regs /\ UNCHANGED <<y, ink, out>>

CellRow == Goes("cellRow", "cellColumn") /\ reg' = y /\ Keep
CellColumn == Goes("cellColumn", "cell") /\ reg' = reg * Cols + x /\ Keep

PutCell ==
  /\ Goes("cell", "step")
  /\ ink' = IF Head(out) = SP THEN ink \ {reg} ELSE ink \cup {reg}
  /\ Regs /\ UNCHANGED <<x, y, reg, out>>

StepLoads == Goes("step", "stepped") /\ reg' = x /\ Keep
StepStores == Goes("stepped", "wrap") /\ x' = reg + 1 /\ Regs /\ UNCHANGED <<y, ink, reg, out>>
TabStores == Goes("tab", "wrap") /\ x' = TabbedTo(reg) /\ Regs /\ UNCHANGED <<y, ink, reg, out>>

NextRowLoads == Goes("nextRow", "row") /\ reg' = y /\ Keep
NextRowStores == Goes("row", "wrap") /\ y' = reg + 1 /\ Regs /\ UNCHANGED <<x, ink, reg, out>>

WrapTests ==
  /\ pc = "wrap"
  /\ pc' = IF x >= Cols THEN "wrapping" ELSE "scroll"
  /\ Keep /\ UNCHANGED reg

WrapColumn == Goes("wrapping", "wrapRow") /\ x' = 0 /\ Regs /\ UNCHANGED <<y, ink, reg, out>>
WrapRowLoads == Goes("wrapRow", "wrapped") /\ reg' = y /\ Keep
WrapRowStores == Goes("wrapped", "scroll") /\ y' = reg + 1 /\ Regs /\ UNCHANGED <<x, ink, reg, out>>

(* scroll() copies each cell from the row below, blanks the last row and   *)
(* sets the cursor back; reg is its loop's counter.                        *)
(* Mutant: the screen rolls up one row too late.                           *)
ScrollTestsLate ==
  /\ pc = "scroll"
  /\ IF y > Rows THEN pc' = "copy" /\ reg' = 0 /\ UNCHANGED out
     ELSE pc' = "put" /\ out' = Tail(out) /\ UNCHANGED reg
  /\ Regs /\ UNCHANGED screen

ScrollTests ==
  /\ pc = "scroll"
  /\ IF y >= Rows THEN pc' = "copy" /\ reg' = 0 /\ UNCHANGED out
     ELSE pc' = "put" /\ out' = Tail(out) /\ UNCHANGED reg
  /\ Regs /\ UNCHANGED screen

CopyLoads ==
  /\ pc = "copy" /\ reg < (Rows - 1) * Cols
  /\ pc' = IF reg + Cols \in ink THEN "inked" ELSE "blank"
  /\ Keep /\ UNCHANGED reg

CopyStores ==
  /\ pc \in {"inked", "blank"} /\ pc' = "copy"
  /\ ink' = IF pc = "inked" THEN ink \cup {reg} ELSE ink \ {reg}
  /\ reg' = reg + 1
  /\ Regs /\ UNCHANGED <<x, y, out>>

BlankStores ==
  /\ reg \in ((Rows - 1) * Cols)..(Rows * Cols - 1) /\ Goes("copy", "copy")
  /\ ink' = ink \ {reg}
  /\ reg' = reg + 1
  /\ Regs /\ UNCHANGED <<x, y, out>>

ScrollClips ==
  /\ reg = Rows * Cols /\ Goes("copy", "put")
  /\ y' = Rows - 1 /\ out' = Tail(out)
  /\ Regs /\ UNCHANGED <<x, ink, reg>>

Startup ==
  \/ VgaInit \/ PrintTitle \/ GatesAndSti \/ TimerInit \/ RegisterHandler
  \/ ClearByte \/ ClearTail \/ ClearCount

Getc == GetcLoads \/ GetcTests \/ GetcReturns

PutStep ==
  \/ PutBranch \/ CellRow \/ CellColumn \/ PutCell \/ StepLoads \/ StepStores
  \/ TabStores \/ NextRowLoads \/ NextRowStores \/ WrapTests \/ WrapColumn
  \/ WrapRowLoads \/ WrapRowStores
  \/ ScrollTests \/ CopyLoads \/ CopyStores \/ BlankStores \/ ScrollClips

InitStep == Startup \/ Getc \/ PutStep

(* The endless loop at the end of init().                                  *)
Spin == pc = "put" /\ out = << >> /\ UNCHANGED vars

Next == InitStep \/ Spin \/ KeyInterrupt

Spec == Init /\ [][Next]_vars
FairSpec == Spec /\ WF_vars(InitStep)

----------------------------------------------------------------------------
StartPlaces == {"boot", "title", "gates", "timer", "register", "clear", "count"}
PutPlaces ==
  {"cellRow", "cellColumn", "cell", "step", "stepped", "tab", "nextRow", "row",
   "wrap", "wrapping", "wrapRow", "wrapped", "scroll", "copy", "inked", "blank"}

(* Outside of vga_putc() the cursor is on the screen, however a key's      *)
(* echo and the kernel's own output interrupt each other (vga.c:70-99).    *)
CursorOnScreen ==
  pc \notin PutPlaces \cup {"boot"} => x < Cols /\ y < Rows

(* Until init() begins to print its message, every character is drawn as   *)
(* a whole: the title before interrupts are on, and then the keys by their *)
(* handler.  So long the cells from the cursor to the end of the screen    *)
(* are blank: an echo overwrites nothing, and a removed character leaves   *)
(* no ink.  Of the message, and of what is typed after it, only this is    *)
(* said: a write lands at most one row below the screen, for an echo       *)
(* between the load and the store of the column leaves glyphs behind the   *)
(* cursor (tty.c:36-41, vga.c:28-51, 88).                                  *)
InkBeforeCursor ==
  /\ pc \notin PutPlaces \cup {"boot", "put"} => \A p \in ink : p < y * Cols + x
  /\ \A p \in ink : p < (Rows + 1) * Cols

(* From the end of tty_init() on, the count characters in front of tail    *)
(* are the line that was typed, although the keys of the start leave tail  *)
(* out of step with count (tty.c:9-29, 63-90, kbd.c:85-86).                *)
Base == IF tail >= count THEN tail - count ELSE (tail + N) - count
Slot(i) == IF Base + i > N THEN Base + i - 1 - N ELSE Base + i - 1
Line ==
  IF pc \in StartPlaces THEN << >>
  ELSE [i \in 1..count |-> buf[Slot(i)]]

Editor == INSTANCE LineEditor WITH Char <- Char \ {BS}, MaxLen <- N, text <- Line
RingIsLine == Editor!Spec

(* tty_getc() does not sleep over a line feed that stays the last          *)
(* character, unless the ring has just wrapped (tty.c:54-61).              *)
NewlineWaits ==
  pc \in {"poll", "test"} /\ tail > 0 /\ buf[tail - 1] = NL
NewlineNoticed == []<>~NewlineWaits
=============================================================================
