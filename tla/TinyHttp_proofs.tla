-------------------------- MODULE TinyHttp_proofs --------------------------
(***************************************************************************)
(* Proofs about TinyHttp: whatever pieces read(2) delivers the lines are   *)
(* the stream; whatever becomes of child and CGI program the parent        *)
(* accepts the next connection with nothing left of the last one; and the  *)
(* client is told one answer.                                              *)
(***************************************************************************)
EXTENDS TinyHttp, SequenceTheorems, TLAPS

(* Taking k characters off the wire moves them and nothing else.           *)
LEMMA SplitSeq ==
  ASSUME NEW s \in Seq(Char), NEW k \in 1..Len(s)
  PROVE  /\ SubSeq(s, 1, k) \in Seq(Char) /\ Len(SubSeq(s, 1, k)) = k
         /\ SubSeq(s, k + 1, Len(s)) \in Seq(Char)
         /\ SubSeq(s, 1, k) \o SubSeq(s, k + 1, Len(s)) = s
<1> DEFINE a == SubSeq(s, 1, k)  b == SubSeq(s, k + 1, Len(s))
<1>1. a \in Seq(Char) /\ Len(a) = k /\ \A i \in 1..k : a[i] = s[i]
  BY SubSeqProperties, LenProperties
<1>2. /\ b \in Seq(Char) /\ Len(b) = Len(s) - k
      /\ \A i \in 1..(Len(s) - k) : b[i] = s[k + i]
  BY SubSeqProperties, LenProperties
<1>3. a \o b \in Seq(Char) /\ Len(a \o b) = Len(s)
  BY <1>1, <1>2, ConcatProperties
<1>4. ASSUME NEW i \in 1..Len(s) PROVE (a \o b)[i] = s[i]
  BY <1>1, <1>2, ConcatProperties
<1>5. a \o b = s
  BY <1>3, <1>4, SeqEqual
<1> QED BY <1>1, <1>2, <1>5

LEMMA Closed ==
  ASSUME NEW a \in Seq(Char), NEW b \in Seq(Char)
  PROVE  a \o b \in Seq(Char)
BY ConcatProperties

LEMMA Associative ==
  ASSUME NEW a \in Seq(Char), NEW b \in Seq(Char), NEW c \in Seq(Char)
  PROVE  (a \o b) \o c = a \o (b \o c)
BY ConcatAssociative

RioInv == RioTypeOK /\ LinesAreStream

LEMMA RefillKeeps == ASSUME RioInv, Refill PROVE RioInv'
<1>1. PICK k \in 1..Len(wire) :
        k <= BufSize /\ rio' = SubSeq(wire, 1, k) /\ wire' = SubSeq(wire, k + 1, Len(wire))
  BY DEF Refill
<1>2. rio = << >> /\ UNCHANGED <<peer, line, taken, sent>>
  BY DEF Refill
<1>3. wire \in Seq(Char) /\ line \in Seq(Char) /\ taken \in Seq(Char)
  BY DEF RioInv, RioTypeOK
<1>4. /\ rio' \in Seq(Char) /\ Len(rio') = k /\ wire' \in Seq(Char)
      /\ rio' \o wire' = wire
  BY <1>1, <1>3, SplitSeq
<1>5. taken \o line \in Seq(Char)
  BY <1>3, Closed
<1>6. taken \o line \o rio = taken \o line
  BY <1>2, <1>5, ConcatEmptySeq
<1>7. (taken \o line) \o rio' \o wire' = (taken \o line) \o (rio' \o wire')
  BY <1>4, <1>5, Associative
<1>8. taken' \o line' \o rio' \o wire' = sent'
  BY <1>2, <1>4, <1>6, <1>7 DEF RioInv, LinesAreStream
<1> QED BY <1>1, <1>2, <1>4, <1>8 DEF RioInv, RioTypeOK, LinesAreStream

LEMMA GetCharKeeps == ASSUME RioInv, GetChar PROVE RioInv'
<1> DEFINE c == Head(rio)
           one == <<c>>
<1>1. rio # << >> /\ ~LineDone /\ line' = Append(line, c) /\ rio' = Tail(rio)
      /\ UNCHANGED <<wire, peer, taken, sent>>
  BY DEF GetChar
<1>2. /\ rio \in Seq(Char) /\ line \in Seq(Char) /\ taken \in Seq(Char)
      /\ Len(rio) <= BufSize /\ Len(line) < MaxLine
  BY DEF RioInv, RioTypeOK, LinesAreStream
<1>3. /\ c \in Char /\ rio' \in Seq(Char) /\ Len(rio') = Len(rio) - 1
      /\ rio = one \o rio' /\ one \in Seq(Char)
  BY <1>1, <1>2, HeadTailProperties
<1>4. line' \in Seq(Char) /\ Len(line') = Len(line) + 1 /\ line' = line \o one
  BY <1>1, <1>2, <1>3, AppendProperties, AppendIsConcat
<1>5. Len(line') < MaxLine
  <2>1. CASE line = << >>
    BY <1>4, <2>1, RioAssumption, EmptySeq
  <2>2. CASE line # << >>
    BY <1>1, <1>2, <1>4, <2>2, RioAssumption, LenProperties DEF LineDone
  <2> QED BY <2>1, <2>2
<1> HIDE DEF one
<1>6. taken \o (line \o one) = (taken \o line) \o one
  BY <1>2, <1>3, Associative
<1>7. taken \o line \in Seq(Char)
  BY <1>2, Closed
<1>8. ((taken \o line) \o one) \o rio' = (taken \o line) \o (one \o rio')
  BY <1>3, <1>7, Associative
<1>9. taken' \o line' \o rio' = taken \o line \o rio
  BY <1>1, <1>3, <1>4, <1>6, <1>8
<1>10. taken' \o line' \o rio' \o wire' = sent'
  BY <1>1, <1>9 DEF RioInv, LinesAreStream
<1>11. Len(rio') <= BufSize
  BY <1>2, <1>3, RioAssumption, LenProperties
<1> QED BY <1>1, <1>3, <1>4, <1>5, <1>10, <1>11 DEF RioInv, RioTypeOK, LinesAreStream

LEMMA ReturnKeeps == ASSUME RioInv, ReadlineReturns PROVE RioInv'
<1> USE DEF RioInv, RioTypeOK, LinesAreStream
<1>1. taken' = taken \o line /\ line' = << >> /\ UNCHANGED <<wire, rio, sent>>
      /\ peer' \in {"closed", peer}
  BY DEF ReadlineReturns
<1>2. taken' \in Seq(Char) /\ line' \in Seq(Char) /\ Len(line') = 0
  BY <1>1, ConcatProperties, EmptySeq
<1>3. taken' \o line' = taken \o line
  BY <1>1, <1>2, ConcatEmptySeq
<1> QED BY <1>1, <1>2, <1>3, RioAssumption

LEMMA PeerKeeps ==
  ASSUME RioInv, NEW more \in Seq(Char), PeerSends(more) \/ PeerLeaves
  PROVE  RioInv'
<1>1. CASE PeerSends(more)
  <2>0. /\ rio \in Seq(Char) /\ line \in Seq(Char) /\ taken \in Seq(Char)
        /\ wire \in Seq(Char) /\ sent \in Seq(Char)
    BY DEF RioInv, RioTypeOK
  <2>1. taken \o line \o rio \in Seq(Char)
    <3>1. taken \o line \in Seq(Char)
      BY <2>0, Closed
    <3> QED BY <2>0, <3>1, Closed
  <2>2. (taken \o line \o rio) \o (wire \o more) = ((taken \o line \o rio) \o wire) \o more
    BY <2>0, <2>1, Associative
  <2>3. wire \o more \in Seq(Char) /\ sent \o more \in Seq(Char)
    BY <2>0, Closed
  <2>4. /\ wire' = wire \o more /\ sent' = sent \o more
        /\ UNCHANGED <<peer, rio, line, taken>>
    BY <1>1 DEF PeerSends
  <2>5. taken' \o line' \o rio' \o wire' = sent'
    BY <2>2, <2>4 DEF RioInv, LinesAreStream
  <2> QED BY <2>3, <2>4, <2>5 DEF RioInv, RioTypeOK, LinesAreStream
<1>2. CASE PeerLeaves
  BY <1>2 DEF PeerLeaves, RioInv, RioTypeOK, LinesAreStream
<1> QED BY <1>1, <1>2

LEMMA FreshHolds == Fresh => RioInv'
<1> SUFFICES ASSUME Fresh PROVE RioInv'
  OBVIOUS
<1>1. << >> \in Seq(Char) /\ Len(<< >>) = 0 /\ << >> \o << >> = << >>
  BY EmptySeq, ConcatEmptySeq
<1> QED BY <1>1, RioAssumption DEF Fresh, RioInv, RioTypeOK, LinesAreStream

LEMMA RioInvariant == Spec => []RioInv
<1> DEFINE Inv == RioInv /\ script \in Seq(Char)
<1> USE TinyAssumption
<1>1. Init => Inv
  <2>1. << >> \in Seq(Char) /\ Len(<< >>) = 0 /\ << >> \o << >> = << >>
    BY EmptySeq, ConcatEmptySeq
  <2> QED BY <2>1, RioAssumption DEF Init, RioInv, RioTypeOK, LinesAreStream
<1>2. Inv /\ [Next]_vars => Inv'
  <2> SUFFICES ASSUME Inv, [Next]_vars PROVE Inv'
    OBVIOUS
  <2>1. ASSUME UNCHANGED rioVars PROVE RioInv'
    BY <2>1 DEF rioVars, RioInv, RioTypeOK, LinesAreStream
  <2>2. CASE Accept
    BY <2>2, FreshHolds DEF Accept
  <2>3. CASE AcceptFails \/ Fork \/ Close("parent") \/ Wait("parent")
    BY <2>1, <2>3 DEF AcceptFails, Fork, Close, Wait, Exit, Ends
  <2>4. CASE ReadSome
    BY <2>4, RefillKeeps, GetCharKeeps DEF ReadSome, tinyVars
  <2>5. CASE RequestRead \/ HeaderRead
    BY <2>5, ReturnKeeps DEF RequestRead, HeaderRead
  <2>6. CASE Stat \/ ChildWrites \/ OpenFile \/ ForkCgi \/ CgiWait \/ DoitReturns
    BY <2>1, <2>6 DEF Stat, ChildWrites, OpenFile, ForkCgi, CgiWait, DoitReturns, Exit, Ends
  <2>7. CASE Close("child") \/ Wait("child") \/ CgiStep
    BY <2>1, <2>7 DEF Close, Wait, CgiStep, CgiExec, CgiRuns, Write, Exit, Ends
  <2>8. CASE ClientSends
    <3>1. PICK k \in (Len(sent) + 1)..Len(script) : PeerSends(SubSeq(script, Len(sent) + 1, k))
      BY <2>8 DEF ClientSends
    <3>2. Len(sent) \in Nat
      BY LenProperties DEF RioInv, RioTypeOK
    <3>3. SubSeq(script, Len(sent) + 1, k) \in Seq(Char)
      BY <3>2, SubSeqProperties
    <3>4. script' = script
      BY <2>8 DEF ClientSends, tinyVars
    <3> QED BY <3>1, <3>3, <3>4, PeerKeeps
  <2>9. CASE ClientLeaves
    BY <2>9, PeerKeeps, EmptySeq DEF ClientLeaves, tinyVars
  <2>10. CASE ClientReads
    BY <2>1, <2>10 DEF ClientReads
  <2>11. CASE UNCHANGED vars
    BY <2>1, <2>11 DEF vars, tinyVars
  <2> QED BY <2>2, <2>3, <2>4, <2>5, <2>6, <2>7, <2>8, <2>9, <2>10, <2>11
          DEF Next, ParentStep, ChildStep
<1>3. Inv => RioInv
  OBVIOUS
<1>4. QED
  BY <1>1, <1>2, <1>3, PTL DEF Spec

(* The lines the child reads are the characters the client sent, in their  *)
(* order, and they fit the buffers, for every size of the two buffers      *)
(* (rio.c:61-110).                                                         *)
THEOREM LinesAreStreamHolds == Spec => []LinesAreStream
<1>1. RioInv => LinesAreStream
  BY DEF RioInv
<1> QED BY <1>1, RioInvariant, PTL

----------------------------------------------------------------------------
(* Which processes there are, and which of them hold the connection, is    *)
(* settled by where the parent and the child are.                          *)
Working == {"request", "header", "stat", "answer", "cgiwait", "close"}

ProcInv ==
  /\ pc \in [Procs -> UNION {ParentPlaces, ChildPlaces, CgiPlaces}]
  /\ pc["parent"] \in ParentPlaces
  /\ pc["child"] \in Working \cup {"none", "wait", "zombie"}
  /\ pc["cgi"] \in CgiPlaces
  /\ pc["child"] = "none" <=> pc["parent"] \in {"accept", "fork", "zombie"}
  /\ pc["cgi"] # "none" <=> pc["child"] = "cgiwait"
  /\ holds \subseteq Procs
  /\ "parent" \in holds <=> pc["parent"] \in {"fork", "close"}
  /\ "child" \in holds <=> pc["child"] \in Working
  /\ "cgi" \in holds <=> pc["cgi"] \in {"exec", "running"}

LEMMA ProcInvStep == ProcInv /\ [Next]_vars => ProcInv'
<1> SUFFICES ASSUME ProcInv, [Next]_vars PROVE ProcInv'
  OBVIOUS
<1> USE DEF ProcInv, Procs, Working, ParentPlaces, ChildPlaces, CgiPlaces
<1>1. CASE Accept
  BY <1>1 DEF Accept
<1>2. CASE AcceptFails \/ Fork
  BY <1>2 DEF AcceptFails, Fork, Exit, Ends
<1>3. CASE Close("parent")
  BY <1>3 DEF Close
<1>4. CASE Wait("parent")
  BY <1>4 DEF Wait, Kid, Exit, Ends
<1>5. CASE ReadSome
  BY <1>5 DEF ReadSome, tinyVars
<1>6. CASE RequestRead
  BY <1>6 DEF RequestRead
<1>7. CASE HeaderRead
  BY <1>7 DEF HeaderRead
<1>8. CASE Stat
  BY <1>8 DEF Stat
<1>9. CASE ChildWrites
  BY <1>9 DEF ChildWrites, Write, Exit, Ends
<1>10. CASE OpenFile
  BY <1>10 DEF OpenFile, Exit, Ends
<1>11. CASE ForkCgi
  BY <1>11 DEF ForkCgi, Exit, Ends
<1>12. CASE CgiWait
  BY <1>12 DEF CgiWait
<1>13. CASE DoitReturns
  BY <1>13 DEF DoitReturns
<1>14. CASE Close("child")
  BY <1>14 DEF Close
<1>15. CASE Wait("child")
  BY <1>15 DEF Wait, Kid, Exit, Ends
<1>16. CASE CgiExec
  BY <1>16 DEF CgiExec, Exit, Ends, Write
<1>17. CASE CgiRuns
  BY <1>17 DEF CgiRuns, Ends
<1>18. CASE ClientSends \/ ClientReads \/ ClientLeaves
  BY <1>18 DEF ClientSends, ClientReads, ClientLeaves, tinyVars
<1>19. CASE UNCHANGED vars
  BY <1>19 DEF vars, tinyVars
<1> QED BY <1>1, <1>2, <1>3, <1>4, <1>5, <1>6, <1>7, <1>8, <1>9, <1>10, <1>11, <1>12, <1>13,
           <1>14, <1>15, <1>16, <1>17, <1>18, <1>19
        DEF Next, ParentStep, ChildStep, CgiStep

(* However the child and the CGI program end, by themselves, by a failed   *)
(* call or by SIGPIPE, the parent accepts again only when both are gone    *)
(* and the connection is closed (httpserver.c:41-49).                      *)
THEOREM AcceptHoldsNothingHolds == Spec => []AcceptHoldsNothing
<1>1. Init => ProcInv
  BY DEF Init, ProcInv, Procs, Working, ParentPlaces, ChildPlaces, CgiPlaces
<1>2. ProcInv => AcceptHoldsNothing
  <2> SUFFICES ASSUME ProcInv, pc["parent"] = "accept"
               PROVE  holds = {} /\ pc["child"] = "none" /\ pc["cgi"] = "none"
    BY DEF AcceptHoldsNothing
  <2>1. pc["child"] = "none" /\ pc["cgi"] = "none"
    BY DEF ProcInv
  <2>2. "parent" \notin holds /\ "child" \notin holds /\ "cgi" \notin holds
    BY <2>1 DEF ProcInv, Working
  <2> QED BY <2>1, <2>2 DEF ProcInv, Procs
<1>3. QED
  BY <1>1, <1>2, ProcInvStep, PTL DEF Spec

(* The child never becomes a second server, although nothing sends it away *)
(* after doit() (httpserver.c:45-48).                                      *)
THEOREM OnlyParentAcceptsHolds == Spec => []OnlyParentAccepts
<1>1. Init => ProcInv
  BY DEF Init, ProcInv, Procs, Working, ParentPlaces, ChildPlaces, CgiPlaces
<1>2. ProcInv => OnlyParentAccepts
  BY DEF ProcInv, OnlyParentAccepts, Working
<1>3. QED
  BY <1>1, <1>2, ProcInvStep, PTL DEF Spec

----------------------------------------------------------------------------
(* What is told to a client.  k pieces of the work w are done, and n       *)
(* pieces of the answer a are told.                                        *)
Words == Pieces \cup {"open", "fork"}
StaticAnswer == <<"200", "file">>
DynamicAnswer == <<"200", "server", "output">>
LoggedAnswer == <<"200", "server", "log">>

Told(a, n) == Len(answer) = n /\ \A i \in 1..n : answer[i] = a[i]
Doing(w, k, a, n) ==
  /\ k \in 0..Len(w) /\ Len(out) = Len(w) - k /\ \A i \in 1..Len(out) : out[i] = w[k + i]
  /\ Told(a, n)

Refused(s) == \E k \in 0..4 : Doing(Refusal(s), k, Refusal(s), k)
Served ==
  \/ \E k \in 0..1 : Doing(StaticWork, k, StaticAnswer, k)
  \/ \E k \in 2..3 : Doing(StaticWork, k, StaticAnswer, k - 1)
  \/ \E k \in 0..2 : Doing(DynamicWork, k, DynamicAnswer, k)

PartTold ==
  \/ \E s \in {"403", "404", "501"} : \E n \in 0..4 : Told(Refusal(s), n)
  \/ \E n \in 0..2 : Told(StaticAnswer, n)
  \/ \E n \in 0..3 : Told(DynamicAnswer, n)
  \/ Told(LoggedAnswer, 3)

LEMMA OneMore ==
  ASSUME NEW a, NEW n \in Nat, Told(a, n), answer \in Seq(Words),
         NEW x \in Words, x = a[n + 1], answer' = Append(answer, x)
  PROVE  answer' \in Seq(Words) /\ Told(a, n + 1)'
<1>1. /\ Len(answer') = n + 1 /\ answer'[n + 1] = a[n + 1] /\ answer' \in Seq(Words)
      /\ \A i \in 1..n : answer'[i] = answer[i]
  BY AppendProperties DEF Told
<1> QED BY <1>1 DEF Told

(* The next piece of the work is told, or is nothing to tell.              *)
LEMMA NextPiece ==
  ASSUME NEW w \in Seq(Words), NEW k \in Nat, NEW a, NEW n \in Nat, Doing(w, k, a, n),
         out \in Seq(Words), answer \in Seq(Words), out # << >>, out' = Tail(out)
  PROVE  /\ k + 1 \in 0..Len(w) /\ Head(out) = w[k + 1]
         /\ answer' = answer => Doing(w, k + 1, a, n)'
         /\ answer' = Append(answer, Head(out)) /\ Head(out) = a[n + 1] =>
              Doing(w, k + 1, a, n + 1)'
<1>1. Len(out) \in Nat \ {0} /\ Len(w) \in Nat /\ Len(out) = Len(w) - k
      /\ \A i \in 1..Len(out) : out[i] = w[k + i]
  BY EmptySeq, LenProperties DEF Doing
<1>2. k + 1 \in 0..Len(w) /\ 1 \in 1..Len(out)
  BY <1>1
<1>3. Head(out) = out[1] /\ Head(out) \in Words
  BY <1>2, LenProperties
<1>4. /\ Len(out') = Len(out) - 1
      /\ \A i \in 1..Len(out') : out'[i] = out[i + 1] /\ i + 1 \in 1..Len(out)
  BY <1>1
<1>5. \A i \in 1..Len(out') : out'[i] = w[(k + 1) + i]
  <2>1. ASSUME NEW i \in 1..Len(out') PROVE out'[i] = w[(k + 1) + i]
    <3>1. out'[i] = w[k + (i + 1)]
      BY <1>1, <1>4
    <3>2. k + (i + 1) = (k + 1) + i
      OBVIOUS
    <3> QED BY <3>1, <3>2
  <2> QED BY <2>1
<1>6. Len(out') = Len(w) - (k + 1)
  BY <1>1, <1>4
<1>7. Head(out) = w[k + 1]
  BY <1>1, <1>2, <1>3
<1>8. ASSUME answer' = answer PROVE Doing(w, k + 1, a, n)'
  BY <1>2, <1>5, <1>6, <1>8 DEF Doing, Told
<1>9. ASSUME answer' = Append(answer, Head(out)), Head(out) = a[n + 1]
      PROVE  Doing(w, k + 1, a, n + 1)'
  <2>2. Told(a, n + 1)'
    BY <1>3, <1>9, OneMore DEF Doing
  <2> QED BY <1>2, <1>5, <1>6, <2>2 DEF Doing
<1> QED BY <1>2, <1>7, <1>8, <1>9

(* A client that is still there, and whose lines fit the buffer, was told  *)
(* nothing but 501 before the empty line was read.                         *)
AnswerInv ==
  /\ out \in Seq(Words) /\ answer \in Seq(Words) /\ PartTold
  /\ pc["parent"] = "fork" \/ pc["child"] \in {"request", "header", "stat"} => answer = << >>
  /\ pc["child"] = "answer" => Served \/ \E s \in {"403", "404", "501"} : Refused(s)
  /\ pc["child"] = "cgiwait" /\ pc["cgi"] \in {"exec", "running"} => Told(DynamicAnswer, 2)
  /\ peer = "open" /\ LinesFit =>
       /\ pc["child"] = "stat" \/ (answer # << >> /\ answer[1] # "501") => EmptyLineRead
       /\ pc["child"] = "answer" => EmptyLineRead \/ Refused("501")

LEMMA TypesOfWork ==
  /\ StaticWork \in Seq(Words) /\ DynamicWork \in Seq(Words) /\ << >> \in Seq(Words)
  /\ StaticAnswer \in Seq(Words) /\ DynamicAnswer \in Seq(Words)
  /\ LoggedAnswer \in Seq(Words) /\ Len(LoggedAnswer) = 3
  /\ \A s \in {"403", "404", "501"} : Refusal(s) \in Seq(Words)
  /\ Len(StaticWork) = 3 /\ Len(DynamicWork) = 3 /\ Len(StaticAnswer) = 2
  /\ Len(DynamicAnswer) = 3 /\ \A s \in {"403", "404", "501"} : Len(Refusal(s)) = 4
BY DEF StaticWork, DynamicWork, StaticAnswer, DynamicAnswer, LoggedAnswer, Refusal,
       Words, Pieces

(* A step that tells nothing and brings the child to no place where more   *)
(* is claimed.                                                             *)
LEMMA NothingTold ==
  ASSUME AnswerInv, UNCHANGED <<out, answer, taken>>, peer' = "open" => peer = "open",
         pc'["parent"] = "fork" \/ pc'["child"] \in {"request", "header", "stat"} =>
           pc["parent"] = "fork" \/ pc["child"] \in {"request", "header", "stat"},
         pc'["child"] \in {"stat", "answer"} => pc'["child"] = pc["child"],
         pc'["child"] = "cgiwait" /\ pc'["cgi"] \in {"exec", "running"} =>
           pc["child"] = "cgiwait" /\ pc["cgi"] \in {"exec", "running"}
  PROVE  AnswerInv'
<1>1. /\ PartTold' /\ (Served => Served') /\ (EmptyLineRead => EmptyLineRead')
      /\ LinesFit' = LinesFit
      /\ \A s : Refused(s) => Refused(s)'
  BY DEF AnswerInv, PartTold, Served, EmptyLineRead, LinesFit, Refused, Doing, Told
<1>2. Told(DynamicAnswer, 2) => Told(DynamicAnswer, 2)'
  BY DEF Told
<1> QED BY <1>1, <1>2 DEF AnswerInv

(* A line holds no line feed but at its end, and while the client is there *)
(* what was taken ends with one, if the lines fit the buffer.              *)
LinesInv ==
  /\ \A i \in 1..(Len(line) - 1) : line[i] # LF
  /\ peer = "open" =>
       /\ pc["child"] = "header" => taken # << >>
       /\ LinesFit /\ taken # << >> => taken[Len(taken)] = LF

(* A line that rio_readlineb() returned to a client that is still there.   *)
LEMMA ReturnedLine ==
  ASSUME RioInv, LinesInv, ReadlineReturns, peer' = "open"
  PROVE  /\ LineDone /\ line # << >> /\ peer = "open"
         /\ Len(taken) \in Nat /\ Len(line) \in Nat /\ Len(line) > 0
         /\ taken' \in Seq(Char) /\ Len(taken') = Len(taken) + Len(line)
         /\ \A i \in 1..Len(taken) : taken'[i] = taken[i]
         /\ \A i \in 1..Len(line) : taken'[Len(taken) + i] = line[i]
         /\ LinesFit' => LinesFit /\ line[Len(line)] = LF
<1>1. /\ LineDone \/ EndOfFile \/ ReadFails
      /\ peer' = IF ReadFails THEN "closed" ELSE peer
      /\ taken' = taken \o line
  BY DEF ReadlineReturns
<1>2. LineDone /\ peer = "open"
  BY <1>1 DEF EndOfFile
<1>3. taken \in Seq(Char) /\ line \in Seq(Char) /\ line # << >>
  BY <1>2 DEF RioInv, RioTypeOK, LineDone
<1> DEFINE t == taken'  n == Len(taken)  m == Len(line)
<1>4. /\ n \in Nat /\ m \in Nat /\ m > 0 /\ t \in Seq(Char) /\ Len(t) = n + m
      /\ \A i \in 1..n : t[i] = taken[i]
      /\ \A i \in 1..m : t[n + i] = line[i]
  <2>1. t = taken \o line
    BY <1>1
  <2>2. n \in Nat /\ m \in Nat /\ m > 0
    BY <1>3, LenProperties, EmptySeq
  <2>3. /\ t \in Seq(Char) /\ Len(t) = Len(taken) + Len(line)
        /\ \A i \in 1..(Len(taken) + Len(line)) :
             t[i] = IF i <= Len(taken) THEN taken[i] ELSE line[i - Len(taken)]
    BY <1>3, <2>1, ConcatProperties
  <2> HIDE DEF t
  <2> QED BY <2>2, <2>3
<1>5. MaxLine \in Nat /\ MaxLine > 1
  BY RioAssumption
<1>6. ASSUME LinesFit' PROVE LinesFit
  <2>1. \A i \in 1..(Len(t) - (MaxLine - 2)) : \E j \in i..(i + MaxLine - 2) : t[j] = LF
    BY <1>6 DEF LinesFit
  <2> SUFFICES ASSUME NEW i \in 1..(n - (MaxLine - 2))
               PROVE  \E j \in i..(i + MaxLine - 2) : taken[j] = LF
    BY DEF LinesFit
  <2> HIDE DEF t, n, m
  <2>2. i \in 1..(Len(t) - (MaxLine - 2))
    BY <1>4, <1>5
  <2>3. PICK j \in i..(i + MaxLine - 2) : t[j] = LF
    BY <2>1, <2>2
  <2>4. j \in 1..n
    BY <1>4, <1>5
  <2> QED BY <1>4, <2>3, <2>4
<1>7. ASSUME LinesFit' PROVE line[m] = LF
  <2> SUFFICES ASSUME line[m] # LF PROVE FALSE
    OBVIOUS
  <2>1. m = MaxLine - 1
    BY <1>2 DEF LineDone
  <2>2. \A i \in 1..(m - 1) : line[i] # LF
    BY DEF LinesInv
  <2>3. \A i \in 1..(Len(t) - (MaxLine - 2)) : \E j \in i..(i + MaxLine - 2) : t[j] = LF
    BY <1>7 DEF LinesFit
  <2> HIDE DEF t, n, m
  <2>4. n + 1 \in 1..(Len(t) - (MaxLine - 2))
    BY <1>4, <1>5, <2>1
  <2>5. PICK j \in (n + 1)..(n + 1 + MaxLine - 2) : t[j] = LF
    BY <2>3, <2>4
  <2>6. j - n \in 1..m /\ n + (j - n) = j
    BY <1>4, <1>5, <2>1
  <2>7. t[j] = line[j - n]
    BY <1>4, <2>6
  <2>8. j - n = m \/ j - n \in 1..(m - 1)
    BY <1>4, <2>6
  <2> QED BY <2>2, <2>5, <2>7, <2>8
<1> QED BY <1>2, <1>3, <1>4, <1>6, <1>7

LEMMA LineGrows ==
  ASSUME RioInv, LinesInv, GetChar
  PROVE  \A i \in 1..(Len(line') - 1) : line'[i] # LF
<1> DEFINE c == Head(rio)  m == Len(line)  l == line'
<1>1. line \in Seq(Char) /\ c \in Char /\ l = Append(line, c) /\ ~LineDone
  BY HeadTailProperties DEF RioInv, RioTypeOK, GetChar
<1> HIDE DEF c
<1>2. m \in Nat /\ Len(l) = m + 1 /\ \A i \in 1..m : l[i] = line[i]
  BY <1>1, AppendProperties, LenProperties
<1>3. m > 0 => line[m] # LF
  <2>1. m > 0 => line # << >>
    BY EmptySeq
  <2> QED BY <1>1, <2>1 DEF LineDone
<1>4. \A i \in 1..(m - 1) : line[i] # LF
  BY DEF LinesInv
<1> HIDE DEF l, m
<1>5. ASSUME NEW i \in 1..(Len(l) - 1) PROVE l[i] # LF
  <2>1. i \in 1..m /\ (i = m \/ i \in 1..(m - 1)) /\ m > 0
    BY <1>2
  <2> QED BY <1>2, <1>3, <1>4, <2>1
<1> QED BY <1>5 DEF l

LEMMA LinesInvStep ==
  ASSUME RioInv, ProcInv, LinesInv, [Next]_vars
  PROVE  LinesInv'
<1> USE DEF ProcInv, Procs
<1>1. ASSUME UNCHANGED <<line, taken>>, peer' = "open" => peer = "open",
             pc'["child"] = "header" => pc["child"] = "header"
      PROVE  LinesInv'
  BY <1>1 DEF LinesInv, LinesFit
<1>2. CASE Accept
  <2>1. line' = << >> /\ taken' = << >> /\ pc'["child"] = "none"
    BY <1>2 DEF Accept, Fresh
  <2> QED BY <2>1 DEF LinesInv
<1>3. CASE AcceptFails \/ Fork
  BY <1>1, <1>3 DEF AcceptFails, Fork, Exit, Ends, rioVars
<1>4. CASE Close("parent") \/ Close("child")
  BY <1>1, <1>4 DEF Close, rioVars
<1>5. CASE Wait("parent") \/ Wait("child")
  BY <1>1, <1>5 DEF Wait, Kid, Exit, Ends, rioVars
<1>6. CASE ReadSome
  <2>1. CASE Refill
    BY <1>1, <1>6, <2>1 DEF ReadSome, Refill, tinyVars
  <2>2. CASE GetChar
    <3>1. UNCHANGED <<taken, peer, pc>>
      BY <1>6, <2>2 DEF ReadSome, GetChar, tinyVars
    <3>2. \A i \in 1..(Len(line') - 1) : line'[i] # LF
      BY <2>2, LineGrows
    <3> QED BY <3>1, <3>2 DEF LinesInv, LinesFit
  <2> QED BY <1>6, <2>1, <2>2 DEF ReadSome
<1>7. CASE RequestRead \/ HeaderRead
  <2>1. ReadlineReturns /\ line' = << >>
    BY <1>7 DEF RequestRead, HeaderRead, ReadlineReturns
  <2>2. \A i \in 1..(Len(line') - 1) : line'[i] # LF
    BY <2>1
  <2>3. CASE peer' = "open"
    <3>1. /\ Len(taken) \in Nat /\ Len(line) \in Nat /\ Len(line) > 0
          /\ taken' \in Seq(Char) /\ Len(taken') = Len(taken) + Len(line)
          /\ taken'[Len(taken) + Len(line)] = line[Len(line)]
          /\ LinesFit' => line[Len(line)] = LF
      BY <2>1, <2>3, ReturnedLine
    <3>2. taken' # << >>
      BY <3>1, EmptySeq
    <3> QED BY <2>2, <3>1, <3>2 DEF LinesInv
  <2>4. CASE peer' # "open"
    BY <2>2, <2>4 DEF LinesInv
  <2> QED BY <2>3, <2>4
<1>8. CASE Stat \/ ChildWrites \/ OpenFile
  BY <1>1, <1>8 DEF Stat, ChildWrites, OpenFile, Exit, Ends, rioVars
<1>9. CASE ForkCgi \/ CgiWait \/ DoitReturns
  BY <1>1, <1>9 DEF ForkCgi, CgiWait, DoitReturns, Exit, Ends, rioVars
<1>10. CASE CgiExec \/ CgiRuns
  BY <1>1, <1>10 DEF CgiExec, CgiRuns, Exit, Ends, rioVars
<1>11. CASE ClientSends \/ ClientReads
  BY <1>1, <1>11 DEF ClientSends, PeerSends, ClientReads, tinyVars, rioVars
<1>12. CASE ClientLeaves
  BY <1>1, <1>12 DEF ClientLeaves, PeerLeaves, tinyVars
<1>13. CASE UNCHANGED vars
  BY <1>1, <1>13 DEF vars, tinyVars, rioVars
<1> QED BY <1>2, <1>3, <1>4, <1>5, <1>6, <1>7, <1>8, <1>9, <1>10, <1>11, <1>12, <1>13
        DEF Next, ParentStep, ChildStep, CgiStep

(* Reading the header: without an error the line is what the buffer holds. *)
LEMMA HeaderEnds ==
  ASSUME RioInv, LinesInv, HeaderRead, pc'["child"] = "stat", pc["child"] = "header",
         pc \in [Procs -> UNION {ParentPlaces, ChildPlaces, CgiPlaces}], peer' = "open",
         LinesFit'
  PROVE  EmptyLineRead'
<1>1. ReadlineReturns
  BY DEF HeaderRead
<1>2. LineDone
  BY <1>1, ReturnedLine
<1>3. buf' = line /\ (buf' # Garbage => (buf' = CRLF))
  <2>1. buf' = line
    BY <1>2 DEF HeaderRead, LineBuffer
  <2>2. PICK blank \in BOOLEAN :
           /\ buf' # Garbage => (blank <=> buf' = CRLF)
           /\ pc' = [pc EXCEPT !["child"] = IF blank THEN "stat" ELSE "header"]
    BY DEF HeaderRead
  <2>3. blank = TRUE
    BY <2>2 DEF Procs
  <2> QED BY <2>1, <2>2, <2>3
<1>4. line = CRLF
  BY <1>3, GarbageAssumption DEF RioInv, RioTypeOK
<1>5. Len(CRLF) = 2 /\ CRLF[1] = CR /\ CRLF[2] = LF
  BY DEF CRLF
<1> DEFINE n == Len(taken)
<1>6. n \in Nat /\ n > 0 /\ taken[n] = LF
  <2>1. peer = "open" /\ LinesFit /\ n \in Nat
    BY <1>1, ReturnedLine
  <2>2. taken # << >> /\ taken[n] = LF
    BY <2>1 DEF LinesInv
  <2>3. taken \in Seq(Char)
    BY DEF RioInv, RioTypeOK
  <2> QED BY <2>1, <2>2, <2>3, EmptySeq
<1>7. /\ Len(taken') = n + 2 /\ taken'[n] = taken[n]
      /\ taken'[n + 1] = CR /\ taken'[n + 2] = LF
  <2>1. /\ Len(taken') = n + Len(line)
        /\ \A i \in 1..n : taken'[i] = taken[i]
        /\ \A i \in 1..Len(line) : taken'[n + i] = line[i]
    BY <1>1, ReturnedLine
  <2>2. n \in 1..n
    BY <1>6
  <2> HIDE DEF n
  <2>3. Len(line) = 2 /\ line[1] = CR /\ line[2] = LF
    BY <1>4, <1>5
  <2>4. 1 \in 1..Len(line) /\ 2 \in 1..Len(line)
    BY <2>3
  <2>5. taken'[n + 1] = CR /\ taken'[n + 2] = LF
    BY <2>1, <2>3, <2>4
  <2>6. taken'[n] = taken[n]
    BY <2>1, <2>2
  <2> QED BY <2>1, <2>3, <2>5, <2>6
<1> HIDE DEF n
<1> QED BY <1>6, <1>7 DEF EmptyLineRead

LEMMA WorkIsKnown ==
  \A r : Work(r) \in {StaticWork, DynamicWork, Refusal("403"), Refusal("404")}
BY DEF Work

(* The work begins.                                                        *)
LEMMA WorkStarts ==
  ASSUME NEW w \in Seq(Words), NEW a, out' = w, answer' = << >>
  PROVE  Doing(w, 0, a, 0)'
BY LenProperties DEF Doing, Told

----------------------------------------------------------------------------
LEMMA WriteTells ==
  ASSUME AnswerInv, pc["child"] = "answer", out # << >>, Head(out) \notin {"open", "fork"},
         answer' = Append(answer, Head(out)), out' = Tail(out)
  PROVE  /\ PartTold' /\ (Served' \/ \E s \in {"403", "404", "501"} : Refused(s)')
         /\ Refused("501") => Refused("501")' /\ answer'[1] = "501"
<1> USE TypesOfWork
<1>1. ASSUME NEW s \in {"403", "404", "501"}, Refused(s)
      PROVE  Refused(s)' /\ PartTold' /\ answer'[1] = s
  <2>1. PICK k \in 0..4 : Doing(Refusal(s), k, Refusal(s), k)
    BY <1>1 DEF Refused
  <2>2. k + 1 \in 0..4 /\ Doing(Refusal(s), k + 1, Refusal(s), k + 1)'
    <3> DEFINE w == Refusal(s)
    <3>1. w \in Seq(Words) /\ Len(w) = 4 /\ k \in Nat /\ Doing(w, k, w, k)
          /\ out \in Seq(Words) /\ answer \in Seq(Words)
      BY <2>1 DEF AnswerInv
    <3> HIDE DEF w
    <3>2. k + 1 \in 0..Len(w) /\ Doing(w, k + 1, w, k + 1)'
      BY <3>1, NextPiece
    <3> QED BY <3>1, <3>2 DEF w
  <2>3. Told(Refusal(s), k + 1)'
    BY <2>2 DEF Doing
  <2>4. answer'[1] = s
    BY <2>2, <2>3 DEF Told, Refusal
  <2> QED BY <2>2, <2>3, <2>4 DEF Refused, PartTold
<1>2. ASSUME NEW k \in 0..1, Doing(StaticWork, k, StaticAnswer, k)
      PROVE  Served' /\ PartTold'
  <2>1. k + 1 \in 0..3 /\ Head(out) = StaticWork[k + 1]
    BY <1>2, NextPiece DEF AnswerInv
  <2>2. k = 0
    BY <2>1 DEF StaticWork
  <2>3. Head(out) = StaticAnswer[0 + 1]
    BY <2>1, <2>2 DEF StaticWork, StaticAnswer
  <2>4. Doing(StaticWork, 0 + 1, StaticAnswer, 0 + 1)'
    BY <1>2, <2>2, <2>3, NextPiece DEF AnswerInv
  <2>5. Told(StaticAnswer, 1)'
    BY <2>4 DEF Doing
  <2> QED BY <2>4, <2>5 DEF Served, PartTold
<1>3. ASSUME NEW k \in 2..3, Doing(StaticWork, k, StaticAnswer, k - 1)
      PROVE  Served' /\ PartTold'
  <2>1. k + 1 \in 0..3 /\ Head(out) = StaticWork[k + 1]
    BY <1>3, NextPiece DEF AnswerInv
  <2>2. k = 2 /\ k - 1 = 1
    BY <2>1
  <2>3. Head(out) = StaticAnswer[1 + 1]
    BY <2>1, <2>2 DEF StaticWork, StaticAnswer
  <2>4. Doing(StaticWork, 2 + 1, StaticAnswer, 1 + 1)'
    BY <1>3, <2>2, <2>3, NextPiece DEF AnswerInv
  <2>5. Told(StaticAnswer, 2)'
    BY <2>4 DEF Doing
  <2> QED BY <2>4, <2>5 DEF Served, PartTold
<1>4. ASSUME NEW k \in 0..2, Doing(DynamicWork, k, DynamicAnswer, k)
      PROVE  Served' /\ PartTold'
  <2>1. k + 1 \in 0..3 /\ Head(out) = DynamicWork[k + 1]
    BY <1>4, NextPiece DEF AnswerInv
  <2>2. k \in 0..1
    BY <2>1 DEF DynamicWork
  <2>3. Head(out) = DynamicAnswer[k + 1]
    BY <2>1, <2>2 DEF DynamicWork, DynamicAnswer
  <2>4. Doing(DynamicWork, k + 1, DynamicAnswer, k + 1)'
    BY <1>4, <2>2, <2>3, NextPiece DEF AnswerInv
  <2>5. Told(DynamicAnswer, k + 1)'
    BY <2>4 DEF Doing
  <2> QED BY <2>2, <2>4, <2>5 DEF Served, PartTold
<1>5. Served => Served' /\ PartTold'
  BY <1>2, <1>3, <1>4 DEF Served
<1> QED BY <1>1, <1>5 DEF AnswerInv

(* The work is at its second step when a file is opened, at its last when  *)
(* a program is started.                                                   *)
LEMMA OpenOrFork ==
  ASSUME AnswerInv, pc["child"] = "answer", out # << >>, out' = Tail(out),
         Head(out) \in {"open", "fork"}
  PROVE  /\ ~ \E s \in {"403", "404", "501"} : Refused(s)
         /\ Head(out) = "open" /\ answer' = answer => Served'
         /\ Head(out) = "fork" => Told(DynamicAnswer, 2)
<1> USE TypesOfWork
<1>1. ASSUME NEW s \in {"403", "404", "501"}, Refused(s) PROVE FALSE
  <2>1. PICK k \in 0..4 : Doing(Refusal(s), k, Refusal(s), k)
    BY <1>1 DEF Refused
  <2>2. k + 1 \in 0..4 /\ Head(out) = Refusal(s)[k + 1]
    <3> DEFINE w == Refusal(s)
    <3>1. w \in Seq(Words) /\ Len(w) = 4 /\ k \in Nat /\ Doing(w, k, w, k)
          /\ out \in Seq(Words) /\ answer \in Seq(Words)
      BY <2>1 DEF AnswerInv
    <3> HIDE DEF w
    <3>2. k + 1 \in 0..Len(w) /\ Head(out) = w[k + 1]
      BY <3>1, NextPiece
    <3> QED BY <3>1, <3>2 DEF w
  <2> QED BY <2>2 DEF Refusal
<1>2. ASSUME NEW k \in 0..1, Doing(StaticWork, k, StaticAnswer, k)
      PROVE  Head(out) = "open" /\ (answer' = answer => Served')
  <2>1. k + 1 \in 0..3 /\ Head(out) = StaticWork[k + 1]
    BY <1>2, NextPiece DEF AnswerInv
  <2>2. k = 1
    BY <2>1 DEF StaticWork
  <2>3. answer' = answer => Doing(StaticWork, 1 + 1, StaticAnswer, 1)'
    BY <1>2, <2>2, NextPiece DEF AnswerInv
  <2> QED BY <2>1, <2>2, <2>3 DEF Served, StaticWork
<1>3. ASSUME NEW k \in 2..3, Doing(StaticWork, k, StaticAnswer, k - 1) PROVE FALSE
  <2>1. k \in Nat /\ k - 1 \in Nat /\ StaticWork \in Seq(Words) /\ Len(StaticWork) = 3
        /\ out \in Seq(Words) /\ answer \in Seq(Words)
    BY DEF AnswerInv
  <2>2. k + 1 \in 0..3 /\ Head(out) = StaticWork[k + 1]
    BY <1>3, <2>1, NextPiece
  <2> QED BY <2>2 DEF StaticWork
<1>4. ASSUME NEW k \in 0..2, Doing(DynamicWork, k, DynamicAnswer, k)
      PROVE  Head(out) = "fork" /\ Told(DynamicAnswer, 2)
  <2>1. k + 1 \in 0..3 /\ Head(out) = DynamicWork[k + 1]
    BY <1>4, NextPiece DEF AnswerInv
  <2>2. k = 2
    BY <2>1 DEF DynamicWork
  <2> QED BY <1>4, <2>1, <2>2 DEF Doing, DynamicWork
<1> QED BY <1>1, <1>2, <1>3, <1>4 DEF AnswerInv, Served

(* What the program, or the log in its place, adds to the answer.          *)
LEMMA ProgramTells ==
  ASSUME AnswerInv, pc["child"] = "cgiwait", pc["cgi"] \in {"exec", "running"},
         pc'["child"] = "cgiwait", pc'["cgi"] = "zombie", pc'["parent"] = pc["parent"],
         pc["parent"] # "fork", UNCHANGED <<out, taken, peer>>,
         NEW x \in {"output", "log"}, answer' = Append(answer, x)
  PROVE  AnswerInv'
<1>1. Told(DynamicAnswer, 2) /\ Told(LoggedAnswer, 2) /\ answer \in Seq(Words)
  <2>1. Told(DynamicAnswer, 2) /\ answer \in Seq(Words)
    BY DEF AnswerInv
  <2>2. \A i \in 1..2 : DynamicAnswer[i] = LoggedAnswer[i]
    BY DEF DynamicAnswer, LoggedAnswer
  <2> QED BY <2>1, <2>2 DEF Told
<1>2. /\ x \in Words /\ DynamicAnswer[1] = "200"
      /\ x = DynamicAnswer[2 + 1] \/ x = LoggedAnswer[2 + 1]
  BY DEF Words, Pieces, DynamicAnswer, LoggedAnswer
<1>3. answer' \in Seq(Words) /\ PartTold'
  <2>1. CASE x = DynamicAnswer[2 + 1]
    <3>1. answer' \in Seq(Words) /\ Told(DynamicAnswer, 2 + 1)'
      BY <1>1, <1>2, <2>1, OneMore
    <3> QED BY <3>1 DEF PartTold
  <2>2. CASE x = LoggedAnswer[2 + 1]
    <3>1. answer' \in Seq(Words) /\ Told(LoggedAnswer, 2 + 1)'
      BY <1>1, <1>2, <2>2, OneMore
    <3> QED BY <3>1 DEF PartTold
  <2> QED BY <1>2, <2>1, <2>2
<1>4. answer # << >> /\ answer[1] = "200"
  BY <1>1, <1>2, EmptySeq DEF Told
<1>5. peer' = "open" /\ LinesFit' => EmptyLineRead'
  BY <1>4 DEF AnswerInv, EmptyLineRead, LinesFit
<1> QED BY <1>3, <1>5 DEF AnswerInv

LEMMA AnswerStep ==
  ASSUME RioInv, LinesInv, ProcInv, AnswerInv, [Next]_vars
  PROVE  AnswerInv'
<1> USE DEF ProcInv, Procs
<1>1. CASE Accept
  <2>1. out' = << >> /\ answer' = << >> /\ pc'["child"] = "none" /\ peer' = "open"
    BY <1>1 DEF Accept, Fresh
  <2>2. Told(StaticAnswer, 0)'
    BY <2>1 DEF Told
  <2> QED BY <2>1, <2>2, TypesOfWork DEF AnswerInv, PartTold
<1>2. CASE AcceptFails \/ Fork
  BY <1>2, NothingTold DEF AcceptFails, Fork, Exit, Ends, rioVars
<1>3. CASE Close("parent") \/ Close("child")
  BY <1>3, NothingTold DEF Close, rioVars
<1>4. CASE Wait("parent") \/ Wait("child")
  BY <1>4, NothingTold DEF Wait, Kid, Exit, Ends, rioVars
<1>5. CASE ReadSome
  BY <1>5, NothingTold DEF ReadSome, Refill, GetChar, tinyVars
<1>6. CASE RequestRead
  <2>1. answer = << >> /\ answer' = << >>
    BY <1>6 DEF RequestRead, AnswerInv
  <2>2. PartTold'
    BY <2>1 DEF PartTold, Told, AnswerInv
  <2>3. CASE request'.get
    <3>1. pc'["child"] = "header" /\ out' = out
      BY <1>6, <2>3 DEF RequestRead
    <3> QED BY <2>1, <2>2, <3>1 DEF AnswerInv
  <2>4. CASE ~request'.get
    <3>1. pc'["child"] = "answer" /\ pc'["parent"] = pc["parent"] /\ out' = Refusal("501")
      BY <1>6, <2>4 DEF RequestRead
    <3>2. Refused("501")'
      BY <2>1, <3>1, WorkStarts, TypesOfWork DEF Refused
    <3>3. pc["parent"] # "fork"
      BY <1>6 DEF RequestRead
    <3> QED BY <2>1, <2>2, <3>1, <3>2, <3>3, TypesOfWork DEF AnswerInv
  <2> QED BY <2>3, <2>4
<1>7. CASE HeaderRead
  <2>1. answer = << >> /\ answer' = << >> /\ out' = out /\ pc["child"] = "header"
    BY <1>7 DEF HeaderRead, AnswerInv
  <2>2. PartTold'
    BY <2>1 DEF PartTold, Told, AnswerInv
  <2>3. pc'["child"] \in {"stat", "header"}
    BY <1>7 DEF HeaderRead
  <2>4. peer' = "open" /\ LinesFit' /\ pc'["child"] = "stat" => EmptyLineRead'
    BY <1>7, <2>1, HeaderEnds
  <2> QED BY <2>1, <2>2, <2>3, <2>4 DEF AnswerInv
<1>8. CASE Stat
  <2>1. /\ answer = << >> /\ answer' = << >> /\ pc'["child"] = "answer" /\ out' = Work(request)
        /\ pc'["parent"] = pc["parent"] /\ pc["parent"] # "fork"
        /\ taken' = taken /\ peer' = peer
    BY <1>8 DEF Stat, AnswerInv, rioVars
  <2>2. PartTold'
    BY <2>1 DEF PartTold, Told, AnswerInv
  <2>3. peer' = "open" /\ LinesFit' => EmptyLineRead'
    BY <1>8, <2>1 DEF Stat, AnswerInv, EmptyLineRead, LinesFit
  <2>4. Served' \/ Refused("403")' \/ Refused("404")'
    BY <2>1, WorkIsKnown, WorkStarts, TypesOfWork DEF Served, Refused
  <2>5. out' \in Seq(Words)
    BY <2>1, WorkIsKnown, TypesOfWork
  <2> QED BY <2>1, <2>2, <2>3, <2>4, <2>5, TypesOfWork DEF AnswerInv
<1>9. CASE DoitReturns \/ CgiWait
  BY <1>9, NothingTold DEF DoitReturns, CgiWait, rioVars
<1>10. CASE CgiExec
  <2>1. /\ pc["cgi"] = "exec" /\ pc["child"] = "cgiwait" /\ pc["parent"] # "fork"
        /\ pc'["child"] = "cgiwait" /\ pc'["parent"] = pc["parent"]
        /\ UNCHANGED <<out, taken, peer>>
    BY <1>10 DEF CgiExec, Exit, Ends, rioVars
  <2>2. CASE answer' = answer
    BY <2>1, <2>2, NothingTold
  <2>3. CASE answer' # answer
    <3>1. answer' = Append(answer, "log") /\ pc'["cgi"] = "zombie"
      BY <1>10, <2>3 DEF CgiExec, Exit, Ends, Write
    <3> QED BY <2>1, <3>1, ProgramTells
  <2> QED BY <2>2, <2>3
<1>11. CASE ClientSends
  BY <1>11, NothingTold DEF ClientSends, PeerSends, tinyVars
<1>18. CASE ClientReads
  BY <1>18, NothingTold DEF ClientReads, rioVars
<1>12. CASE ClientLeaves
  BY <1>12, NothingTold DEF ClientLeaves, PeerLeaves, tinyVars
<1>13. CASE UNCHANGED vars
  BY <1>13, NothingTold DEF vars, tinyVars, rioVars
<1>14. CASE ChildWrites
  <2>1. CASE Exit("child")
    BY <1>14, <2>1, NothingTold DEF ChildWrites, Write, Exit, Ends, rioVars
  <2>2. CASE ~Exit("child")
    <3>1. /\ pc["child"] = "answer" /\ out # << >> /\ Head(out) \notin {"open", "fork"}
          /\ answer' = Append(answer, Head(out)) /\ out' = Tail(out)
          /\ UNCHANGED <<pc, taken, peer>>
      BY <1>14, <2>2 DEF ChildWrites, Write, rioVars
    <3>2. /\ PartTold' /\ (Served' \/ \E s \in {"403", "404", "501"} : Refused(s)')
          /\ Refused("501") => Refused("501")' /\ answer'[1] = "501"
      BY <3>1, WriteTells
    <3>3. out' \in Seq(Words) /\ answer' \in Seq(Words)
      BY <3>1 DEF AnswerInv
    <3>4. (EmptyLineRead => EmptyLineRead') /\ (LinesFit' => LinesFit)
      BY <3>1 DEF EmptyLineRead, LinesFit
    <3>5. pc["parent"] # "fork"
      BY <3>1 DEF AnswerInv, ProcInv
    <3> QED BY <3>1, <3>2, <3>3, <3>4, <3>5 DEF AnswerInv
  <2> QED BY <2>1, <2>2
<1>15. CASE OpenFile
  <2>1. CASE Exit("child")
    BY <1>15, <2>1, NothingTold DEF OpenFile, Exit, Ends, rioVars
  <2>2. CASE ~Exit("child")
    <3>1. /\ pc["child"] = "answer" /\ out # << >> /\ Head(out) = "open"
          /\ out' = Tail(out) /\ UNCHANGED <<pc, answer, taken, peer>>
      BY <1>15, <2>2 DEF OpenFile, rioVars
    <3>2. Served' /\ ~Refused("501")
      BY <3>1, OpenOrFork
    <3>3. PartTold' /\ (EmptyLineRead => EmptyLineRead') /\ (LinesFit' => LinesFit) /\ out' \in Seq(Words)
      BY <3>1 DEF AnswerInv, PartTold, Told, EmptyLineRead, LinesFit
    <3> QED BY <3>1, <3>2, <3>3 DEF AnswerInv
  <2> QED BY <2>1, <2>2
<1>16. CASE ForkCgi
  <2>1. CASE Exit("child")
    BY <1>16, <2>1, NothingTold DEF ForkCgi, Exit, Ends, rioVars
  <2>2. CASE ~Exit("child")
    <3>1. /\ pc["child"] = "answer" /\ out # << >> /\ Head(out) = "fork"
          /\ pc' = [pc EXCEPT !["child"] = "cgiwait", !["cgi"] = "exec"]
          /\ out' = Tail(out) /\ UNCHANGED <<answer, taken, peer>>
      BY <1>16, <2>2 DEF ForkCgi, rioVars
    <3>2. pc'["child"] = "cgiwait" /\ pc'["parent"] = pc["parent"] /\ pc["parent"] # "fork"
      BY <3>1 DEF AnswerInv
    <3>3. Told(DynamicAnswer, 2)'
      BY <3>1, OpenOrFork DEF Told
    <3>4. PartTold' /\ (EmptyLineRead => EmptyLineRead') /\ (LinesFit' => LinesFit) /\ out' \in Seq(Words)
      BY <3>1 DEF AnswerInv, PartTold, Told, EmptyLineRead, LinesFit
    <3> QED BY <3>1, <3>2, <3>3, <3>4 DEF AnswerInv
  <2> QED BY <2>1, <2>2
<1>17. CASE CgiRuns
  <2>1. /\ pc["cgi"] = "running" /\ pc["child"] = "cgiwait" /\ pc["parent"] # "fork"
        /\ pc'["child"] = "cgiwait" /\ pc'["cgi"] = "zombie" /\ pc'["parent"] = pc["parent"]
        /\ UNCHANGED <<out, taken, peer>>
    BY <1>17 DEF CgiRuns, Ends, rioVars
  <2>2. CASE answer' = answer
    BY <2>1, <2>2, NothingTold
  <2>3. CASE answer' # answer
    <3>1. answer' = Append(answer, "output")
      BY <1>17, <2>3 DEF CgiRuns, Write
    <3> QED BY <2>1, <3>1, ProgramTells
  <2> QED BY <2>2, <2>3
<1> QED BY <1>1, <1>2, <1>3, <1>4, <1>5, <1>6, <1>7, <1>8, <1>9, <1>10, <1>11, <1>12, <1>13,
           <1>14, <1>15, <1>16, <1>17, <1>18
        DEF Next, ParentStep, ChildStep, CgiStep

LEMMA PrefixEqual ==
  ASSUME NEW a \in Seq(Words), NEW n \in 0..Len(a), Told(a, n), answer \in Seq(Words)
  PROVE  Len(answer) <= Len(a) /\ answer = SubSeq(a, 1, Len(answer))
<1> DEFINE b == SubSeq(a, 1, n)
<1>1. Len(a) \in Nat /\ n \in Nat /\ \A i \in 1..n : a[i] \in Words
  BY LenProperties
<1>2. b \in Seq(Words) /\ Len(b) = n /\ \A i \in 1..n : b[i] = a[i]
  <2>1. b \in Seq(Words) /\ Len(b) = (IF 1 <= n THEN n - 1 + 1 ELSE 0)
        /\ \A i \in 1..(n - 1 + 1) : b[i] = a[1 + i - 1]
    BY <1>1, SubSeqProperties
  <2> QED BY <1>1, <2>1
<1>3. Len(answer) = n /\ \A i \in 1..n : answer[i] = a[i]
  BY DEF Told
<1> HIDE DEF b
<1>4. answer = b
  BY <1>2, <1>3, SeqEqual
<1> QED BY <1>1, <1>3, <1>4 DEF b

(* A client gets one answer, or a part of one, whatever ends the processes *)
(* in between, and nothing but 501 before the empty line behind its header *)
(* was read, if its lines so far fit the buffer (httpserver.c:52-101).     *)
THEOREM OneAnswerHolds == Spec => []OneAnswer
<1>1. Init => AnswerInv
  <2> SUFFICES ASSUME Init PROVE AnswerInv
    OBVIOUS
  <2>1. Told(StaticAnswer, 0)
    BY DEF Init, Told
  <2> QED BY <2>1, TypesOfWork DEF Init, AnswerInv, PartTold
<1>2. Init => ProcInv
  BY DEF Init, ProcInv, Procs, Working, ParentPlaces, ChildPlaces, CgiPlaces
<1>3. AnswerInv => OneAnswer
  <2> SUFFICES ASSUME AnswerInv PROVE OneAnswer
    OBVIOUS
  <2>1. \E a \in Answers : Len(answer) <= Len(a) /\ answer = SubSeq(a, 1, Len(answer))
    <3>1. ASSUME NEW s \in {"403", "404", "501"}, NEW n \in 0..4, Told(Refusal(s), n)
          PROVE  Len(answer) <= Len(Refusal(s)) /\ answer = SubSeq(Refusal(s), 1, Len(answer))
      BY <3>1, PrefixEqual, TypesOfWork DEF AnswerInv
    <3>2. ASSUME NEW n \in 0..2, Told(StaticAnswer, n)
          PROVE  Len(answer) <= Len(StaticAnswer) /\ answer = SubSeq(StaticAnswer, 1, Len(answer))
      BY <3>2, PrefixEqual, TypesOfWork DEF AnswerInv
    <3>3. ASSUME NEW n \in 0..3, Told(DynamicAnswer, n)
          PROVE  Len(answer) <= Len(DynamicAnswer) /\ answer = SubSeq(DynamicAnswer, 1, Len(answer))
      BY <3>3, PrefixEqual, TypesOfWork DEF AnswerInv
    <3>5. ASSUME Told(LoggedAnswer, 3)
          PROVE  Len(answer) <= Len(LoggedAnswer) /\ answer = SubSeq(LoggedAnswer, 1, Len(answer))
      <4>1. 3 \in 0..Len(LoggedAnswer)
        BY TypesOfWork
      <4> QED BY <3>5, <4>1, PrefixEqual, TypesOfWork DEF AnswerInv
    <3>4. /\ LoggedAnswer \in Answers
          /\ StaticAnswer \in Answers /\ DynamicAnswer \in Answers
          /\ \A s \in {"403", "404", "501"} : Refusal(s) \in Answers
      BY DEF Answers, StaticAnswer, DynamicAnswer, LoggedAnswer
    <3> QED BY <3>1, <3>2, <3>3, <3>4, <3>5 DEF AnswerInv, PartTold
  <2> QED BY <2>1 DEF OneAnswer, AnswerInv
<1>5. Init => LinesInv
  BY EmptySeq DEF Init, LinesInv
<1>4. QED
  BY <1>1, <1>2, <1>3, <1>5, ProcInvStep, LinesInvStep, AnswerStep, RioInvariant, PTL DEF Spec
=============================================================================
