-------------------------------- MODULE Rio --------------------------------
(***************************************************************************)
(* The buffered reader of src/tinyhttp/rio.c on one connection: rio_read() *)
(* refills its buffer with one read(2) and hands out single characters,    *)
(* rio_readlineb() collects them into a line.  A step reaches from one     *)
(* system call, or one character, to the next.  A read that a signal       *)
(* interrupts is repeated at once and changes nothing.                     *)
(***************************************************************************)
EXTENDS Naturals, Sequences

CONSTANTS
  BufSize,                     \* RIO_BUFSIZE
  MaxLine,                     \* MAXLINE, the size of the caller's buffer
  Char,
  CR, LF

ASSUME RioAssumption ==
  /\ BufSize \in Nat \ {0} /\ MaxLine \in Nat /\ MaxLine > 1
  /\ CR \in Char /\ LF \in Char

VARIABLES
  wire,                        \* characters in the socket, not yet read
  peer,                        \* "open", "half", "closed" or "reset"
  rio,                         \* rio_buf from rio_bufptr on, rio_cnt long
  line,                        \* what rio_readlineb() has stored so far
  taken,                       \* history: the characters of the lines returned
  sent                         \* history: the characters the peer has sent

rioVars == <<wire, peer, rio, line, taken, sent>>

(* rio_readinitb() on a new connection.                                    *)
Fresh ==
  /\ wire' = << >> /\ peer' = "open" /\ rio' = << >> /\ line' = << >>
  /\ taken' = << >> /\ sent' = << >>

----------------------------------------------------------------------------
(* The peer sends, closes its write side, closes, or resets.               *)
PeerSends(more) ==
  /\ peer = "open"
  /\ wire' = wire \o more
  /\ sent' = sent \o more
  /\ UNCHANGED <<peer, rio, line, taken>>

PeerLeaves ==
  /\ \/ peer = "open" /\ peer' \in {"half", "closed", "reset"}
     \/ peer = "half" /\ peer' \in {"closed", "reset"}
  /\ UNCHANGED <<wire, rio, line, taken, sent>>

----------------------------------------------------------------------------
(* rio_readlineb() returns after a line feed or when the buffer is full.   *)
LineDone ==
  /\ line # << >>
  /\ line[Len(line)] = LF \/ Len(line) = MaxLine - 1

(* The two ends of the stream as read(2) tells them: 0, or an error which  *)
(* is reported once.                                                       *)
EndOfFile == ~LineDone /\ rio = << >> /\ wire = << >> /\ peer \in {"half", "closed"}
ReadFails == ~LineDone /\ rio = << >> /\ wire = << >> /\ peer = "reset"

(* Mutant: the buffer is filled again before it is empty.                  *)
RefillEarly ==
  /\ ~LineDone
  /\ \E k \in 1..Len(wire) :
       /\ k <= BufSize
       /\ rio' = SubSeq(wire, 1, k)
       /\ wire' = SubSeq(wire, k + 1, Len(wire))
  /\ UNCHANGED <<peer, line, taken, sent>>

Refill ==
  /\ ~LineDone /\ rio = << >>
  /\ \E k \in 1..Len(wire) :
       /\ k <= BufSize
       /\ rio' = SubSeq(wire, 1, k)
       /\ wire' = SubSeq(wire, k + 1, Len(wire))
  /\ UNCHANGED <<peer, line, taken, sent>>

GetChar ==
  /\ ~LineDone /\ rio # << >>
  /\ line' = Append(line, Head(rio))
  /\ rio' = Tail(rio)
  /\ UNCHANGED <<wire, peer, taken, sent>>

(* The content of a buffer nobody has written to: what no client sends.    *)
Garbage == <<"uninitialised">>
ASSUME GarbageAssumption == Garbage \notin Seq(Char)

(* What the caller's buffer holds when rio_readlineb() returns: at the end *)
(* of the file with nothing read it is not touched, and after an error the *)
(* characters read lie over the old ones without a terminating zero.       *)
LineBuffer(old) ==
  IF LineDone \/ (EndOfFile /\ line # << >>) THEN line
  ELSE IF EndOfFile \/ old = Garbage THEN old
  ELSE line \o SubSeq(old, Len(line) + 1, Len(old))

ReadlineReturns ==
  /\ LineDone \/ EndOfFile \/ ReadFails
  /\ taken' = taken \o line
  /\ line' = << >>
  /\ peer' = IF ReadFails THEN "closed" ELSE peer
  /\ UNCHANGED <<wire, rio, sent>>

----------------------------------------------------------------------------
RioTypeOK ==
  /\ wire \in Seq(Char) /\ rio \in Seq(Char) /\ line \in Seq(Char)
  /\ taken \in Seq(Char) /\ sent \in Seq(Char)
  /\ peer \in {"open", "half", "closed", "reset"}

(* Whatever pieces read(2) delivers, the lines are the stream: no          *)
(* character is lost, doubled or moved between the socket, the buffer and  *)
(* the lines; the buffer is never overfilled and a line leaves room for    *)
(* its terminating zero (rio.c:61-110).                                    *)
LinesAreStream ==
  /\ taken \o line \o rio \o wire = sent
  /\ Len(rio) <= BufSize
  /\ Len(line) < MaxLine
=============================================================================
