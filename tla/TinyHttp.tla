------------------------------ MODULE TinyHttp ------------------------------
(***************************************************************************)
(* The server of src/tinyhttp: the parent accepts a connection, forks a    *)
(* child for it, closes its own copy of the descriptor and waits for the   *)
(* child, which reads the request with rio and answers.  For dynamic       *)
(* content the child forks once more and waits.  The child is not sent     *)
(* away after doit(): it goes on in the loop of main(), closes and waits,  *)
(* and ends because it has nobody to wait for.                             *)
(*                                                                         *)
(* A request is named by the first character of its first line; Target     *)
(* says what stands in the line.  Connections are served one at a time, so *)
(* only the current one is kept.                                           *)
(***************************************************************************)
EXTENDS Rio

CONSTANTS
  Target,                      \* request character -> [get, cgi, path, args]
  Files,                       \* path -> [regular, readable, executable]
  Scripts,                     \* what clients may send: sequences of Char
  SendBuf,                     \* pieces of an answer that the socket holds
  MaxConnections               \* bound on the connections of a behaviour

ASSUME TinyAssumption ==
  /\ Scripts \subseteq Seq(Char)
  /\ SendBuf \in Nat \ {0} /\ MaxConnections \in Nat

VARIABLES
  pc,                          \* where each process is
  holds,                       \* the processes that hold the connection open
  script, buf, request, out, answer,
  unread,                      \* pieces sent that the client has not read
  served

tinyVars == <<pc, holds, script, buf, request, out, answer, unread, served>>
vars == <<rioVars, tinyVars>>

Procs == {"parent", "child", "cgi"}
Kid(p) == IF p = "parent" THEN "child" ELSE "cgi"
CRLF == <<CR, LF>>
Requests == {Target[c] : c \in DOMAIN Target}

(* err_sys(), a signal, or the end of the program: all its descriptors are *)
(* closed and it waits to be collected.                                    *)
Ends(p) ==
  /\ pc' = [pc EXCEPT ![p] = "zombie"]
  /\ holds' = holds \ {p}

Exit(p) == Ends(p) /\ UNCHANGED <<script, buf, request, out, answer, unread, served>>

(* write(2) of one piece to the connection blocks while the client leaves  *)
(* it no room; to a client that has gone it does not.                      *)
Gone == peer \in {"closed", "reset"}

Write(piece) ==
  /\ answer' = Append(answer, piece)
  /\ IF Gone THEN UNCHANGED unread ELSE unread < SendBuf /\ unread' = unread + 1

----------------------------------------------------------------------------
(* main()                                                                  *)
Accept ==
  /\ pc["parent"] = "accept" /\ served < MaxConnections
  /\ script' \in Scripts
  /\ Fresh
  /\ pc' = [pc EXCEPT !["parent"] = "fork"]
  /\ holds' = {"parent"}
  /\ served' = served + 1
  /\ answer' = << >> /\ unread' = 0 /\ buf' = Garbage /\ out' = << >> /\ UNCHANGED request

(* Without a listening socket, or without a free descriptor.               *)
AcceptFails == pc["parent"] = "accept" /\ Exit("parent") /\ UNCHANGED rioVars

Fork ==
  /\ pc["parent"] = "fork"
  /\ \/ /\ pc' = [pc EXCEPT !["parent"] = "close", !["child"] = "request"]
        /\ holds' = holds \cup {"child"}
        /\ UNCHANGED <<script, buf, request, out, answer, unread, served>>
     \/ Exit("parent")
  /\ UNCHANGED rioVars

(* Mutant: the parent keeps its descriptor.                                *)
CloseChildOnly(p) ==
  /\ pc[p] = "close"
  /\ pc' = [pc EXCEPT ![p] = "wait"]
  /\ holds' = holds \ {"child"}
  /\ UNCHANGED <<rioVars, script, buf, request, out, answer, unread, served>>

Close(p) ==
  /\ pc[p] = "close"
  /\ pc' = [pc EXCEPT ![p] = "wait"]
  /\ holds' = holds \ {p}
  /\ UNCHANGED <<rioVars, script, buf, request, out, answer, unread, served>>

(* Wait(): a process without a child leaves through err_sys().             *)
Wait(p) ==
  /\ pc[p] = "wait"
  /\ \/ /\ pc[Kid(p)] = "zombie"
        /\ pc' = [pc EXCEPT ![p] = "accept", ![Kid(p)] = "none"]
        /\ UNCHANGED <<holds, script, buf, request, out, answer, unread, served>>
     \/ pc[Kid(p)] = "none" /\ Exit(p)
  /\ UNCHANGED rioVars

----------------------------------------------------------------------------
(* doit()                                                                  *)
Reading == pc["child"] \in {"request", "header"}

ReadSome ==
  /\ Reading
  /\ Refill \/ GetChar
  /\ UNCHANGED tinyVars

(* sscanf() of a line that is not a request, or of a buffer nobody wrote,  *)
(* leaves method and uri uninitialised.                                    *)
Parsed(line0) ==
  IF ~ReadFails /\ line0[1] \in DOMAIN Target THEN {Target[line0[1]]} ELSE Requests

(* client_error() with its status, server_static() and server_dynamic() as *)
(* what the child has to do: pieces to write, "open" and "fork".           *)
Refusal(status) == <<status, "type", "length", "body">>
StaticWork == <<"200", "open", "file">>
DynamicWork == <<"200", "server", "fork">>

RequestRead ==
  /\ pc["child"] = "request"
  /\ ReadlineReturns
  /\ request' \in Parsed(LineBuffer(buf))
  /\ IF request'.get
     THEN pc' = [pc EXCEPT !["child"] = "header"] /\ UNCHANGED out
     ELSE pc' = [pc EXCEPT !["child"] = "answer"] /\ out' = Refusal("501")
  /\ buf' = Garbage
  /\ UNCHANGED <<holds, script, answer, unread, served>>

(* read_request_header(): lines are read until one is empty.  Without a    *)
(* line, at the end of the file, the buffer still holds the last one.      *)
HeaderRead ==
  /\ pc["child"] = "header"
  /\ ReadlineReturns
  /\ buf' = LineBuffer(buf)
  /\ \E blank \in BOOLEAN :
       /\ buf' # Garbage => (blank <=> buf' = CRLF)
       /\ pc' = [pc EXCEPT !["child"] = IF blank THEN "stat" ELSE "header"]
  /\ UNCHANGED <<holds, script, request, out, answer, unread, served>>

(* parse_uri(): a path with cgi-bin in it is dynamic and loses its query;  *)
(* a static path that ends in a slash stands for home.html.                *)
FileName(r) == IF ~r.cgi /\ r.path = "/" THEN "home.html" ELSE r.path

(* Mutant: doit() goes on after the answer 404.                            *)
WorkFallsThrough(r) ==
  IF FileName(r) \notin DOMAIN Files THEN Refusal("404") \o StaticWork
  ELSE IF r.cgi THEN DynamicWork ELSE StaticWork

(* The test of a CGI program has its parentheses misplaced: a regular file *)
(* passes whether it is executable or not.                                 *)
Work(r) ==
  IF FileName(r) \notin DOMAIN Files THEN Refusal("404")
  ELSE LET f == Files[FileName(r)] IN
       IF ~r.cgi
       THEN IF ~f.regular \/ ~f.readable THEN Refusal("403") ELSE StaticWork
       ELSE IF ~(f.regular \/ ~f.executable) THEN Refusal("403") ELSE DynamicWork

Stat ==
  /\ pc["child"] = "stat"
  /\ out' = Work(request)
  /\ pc' = [pc EXCEPT !["child"] = "answer"]
  /\ UNCHANGED <<rioVars, holds, script, buf, request, answer, unread, served>>

(* rio_writen() on the connection; the first writes to a peer that has     *)
(* gone may still succeed, a later one ends the process with SIGPIPE.      *)
ChildWrites ==
  /\ pc["child"] = "answer" /\ out # << >> /\ Head(out) \notin {"open", "fork"}
  /\ \/ /\ Write(Head(out))
        /\ out' = Tail(out)
        /\ UNCHANGED <<pc, holds, script, buf, request, served>>
     \/ Gone /\ Exit("child")
  /\ UNCHANGED rioVars

(* Open() and Mmap(), which end the child when the file has gone, or is    *)
(* empty.                                                                  *)
OpenFile ==
  /\ pc["child"] = "answer" /\ out # << >> /\ Head(out) = "open"
  /\ \/ /\ out' = Tail(out)
        /\ UNCHANGED <<pc, holds, script, buf, request, answer, unread, served>>
     \/ Exit("child")
  /\ UNCHANGED rioVars

(* Mutant: the child does not wait for the CGI program.                    *)
ForkCgiNoWait ==
  /\ pc["child"] = "answer" /\ out # << >> /\ Head(out) = "fork"
  /\ pc' = [pc EXCEPT !["child"] = "close", !["cgi"] = "exec"]
  /\ holds' = holds \cup {"cgi"}
  /\ UNCHANGED <<rioVars, script, buf, request, out, answer, unread, served>>

ForkCgi ==
  /\ pc["child"] = "answer" /\ out # << >> /\ Head(out) = "fork"
  /\ \/ /\ pc' = [pc EXCEPT !["child"] = "cgiwait", !["cgi"] = "exec"]
        /\ holds' = holds \cup {"cgi"}
        /\ out' = Tail(out)
        /\ UNCHANGED <<script, buf, request, answer, unread, served>>
     \/ Exit("child")
  /\ UNCHANGED rioVars

(* Mutant: a failed execve() returns into server_dynamic().                *)
CgiExecReturns ==
  /\ pc["cgi"] = "exec"
  /\ Files[FileName(request)].executable
  /\ pc' = [pc EXCEPT !["cgi"] = "running"]
  /\ UNCHANGED <<rioVars, holds, script, buf, request, out, answer, unread, served>>

(* A failed Dup2() or Execve() ends the process.  err_doit() flushes the   *)
(* stdio buffer first, and what the log of the server left in it when the  *)
(* process was forked goes where Dup2() directed it: to the client.        *)
CgiExec ==
  /\ pc["cgi"] = "exec"
  /\ LET f == Files[FileName(request)] IN
       \/ /\ f.regular /\ f.executable
          /\ pc' = [pc EXCEPT !["cgi"] = "running"]
          /\ UNCHANGED <<holds, script, buf, request, out, answer, unread, served>>
       \/ Exit("cgi")
       \/ /\ Write("log") /\ Ends("cgi")
          /\ UNCHANGED <<script, buf, request, out, served>>
  /\ UNCHANGED rioVars

(* The program writes its part of the answer and ends.  adder.c looks for  *)
(* an ampersand in its arguments and stops at a null pointer without one.  *)
CgiRuns ==
  /\ pc["cgi"] = "running"
  /\ Ends("cgi")
  /\ \/ request.args /\ Write("output")
     \/ (~request.args \/ Gone) /\ UNCHANGED <<answer, unread>>
  /\ UNCHANGED <<rioVars, script, buf, request, out, served>>

CgiWait ==
  /\ pc["child"] = "cgiwait" /\ pc["cgi"] = "zombie"
  /\ pc' = [pc EXCEPT !["child"] = "close", !["cgi"] = "none"]
  /\ UNCHANGED <<rioVars, holds, script, buf, request, out, answer, unread, served>>

DoitReturns ==
  /\ pc["child"] = "answer" /\ out = << >>
  /\ pc' = [pc EXCEPT !["child"] = "close"]
  /\ UNCHANGED <<rioVars, holds, script, buf, request, out, answer, unread, served>>

----------------------------------------------------------------------------
(* The client: the next characters of its script, or it reads, or leaves.  *)
ClientSends ==
  /\ holds # {}
  /\ \E k \in (Len(sent) + 1)..Len(script) : PeerSends(SubSeq(script, Len(sent) + 1, k))
  /\ UNCHANGED tinyVars

ClientReads ==
  /\ ~Gone /\ \E k \in 1..unread : unread' = unread - k
  /\ UNCHANGED <<rioVars, pc, holds, script, buf, request, out, answer, served>>

ClientLeaves == holds # {} /\ PeerLeaves /\ UNCHANGED tinyVars

Init ==
  /\ wire = << >> /\ peer = "closed" /\ rio = << >> /\ line = << >>
  /\ taken = << >> /\ sent = << >>
  /\ pc = [parent |-> "accept", child |-> "none", cgi |-> "none"]
  /\ holds = {} /\ script = << >> /\ buf = Garbage /\ request \in Requests
  /\ out = << >> /\ answer = << >> /\ unread = 0 /\ served = 0

ParentStep == Accept \/ AcceptFails \/ Fork \/ Close("parent") \/ Wait("parent")
ChildStep ==
  \/ ReadSome \/ RequestRead \/ HeaderRead \/ Stat \/ ChildWrites \/ OpenFile
  \/ ForkCgi \/ CgiWait \/ DoitReturns \/ Close("child") \/ Wait("child")
CgiStep == CgiExec \/ CgiRuns

Next == ParentStep \/ ChildStep \/ CgiStep \/ ClientSends \/ ClientReads \/ ClientLeaves

Spec == Init /\ [][Next]_vars
FairSpec == Spec /\ WF_vars(ParentStep) /\ WF_vars(ChildStep) /\ WF_vars(CgiStep)

----------------------------------------------------------------------------
Pieces == {"200", "403", "404", "501", "type", "length", "body", "file", "server", "output", "log"}

ParentPlaces == {"accept", "fork", "close", "wait", "zombie"}
ChildPlaces ==
  {"none", "request", "header", "stat", "answer", "cgiwait", "close", "wait", "accept", "zombie"}
CgiPlaces == {"none", "exec", "running", "zombie"}

(* The child that falls back into the loop of main() never becomes a       *)
(* second server: its Wait() finds nobody, because server_dynamic() has    *)
(* collected the CGI process (httpserver.c:45-48, 171-176).                *)
OnlyParentAccepts == pc["child"] # "accept"

(* When the next connection is accepted nothing is left of the last one:   *)
(* no process, and no copy of the descriptor that would keep the client    *)
(* waiting for the end of its answer (httpserver.c:41-49).                 *)
AcceptHoldsNothing ==
  pc["parent"] = "accept" => holds = {} /\ pc["child"] = "none" /\ pc["cgi"] = "none"

(* A client gets one answer: a refusal, a file behind its header, or the   *)
(* output of a program behind the first two lines (or, of one that cannot  *)
(* be executed, the log of the server), and never the pieces of two        *)
(* answers.  To a client that is still there nothing but 501 is sent       *)
(* before the empty line behind its header was read, if its lines so far   *)
(* fit the buffer of doit(): a line that does not is cut, and a CR LF that *)
(* is left of it passes for the empty line (httpserver.c:52-101,           *)
(* rio.c:93).                                                              *)
Answers ==
  {Refusal(s) : s \in {"403", "404", "501"}}
     \cup {<<"200", "file">>, <<"200", "server", "output">>, <<"200", "server", "log">>}

EmptyLineRead ==
  LET n == Len(taken) IN n >= 3 /\ taken[n - 2] = LF /\ taken[n - 1] = CR /\ taken[n] = LF

LinesFit ==
  \A i \in 1..(Len(taken) - (MaxLine - 2)) : \E j \in i..(i + MaxLine - 2) : taken[j] = LF

OneAnswer ==
  /\ \E a \in Answers : Len(answer) <= Len(a) /\ answer = SubSeq(a, 1, Len(answer))
  /\ peer = "open" /\ answer # << >> /\ answer[1] # "501" /\ LinesFit => EmptyLineRead

(* A client whose header is complete, and who makes room in the socket     *)
(* again and again, does not keep the server: the parent comes back to     *)
(* accept().  A header that is cut off keeps it for ever, and so does a    *)
(* client that does not read (httpserver.c:96, 48, rio.c:40).              *)
HeaderComplete ==
  /\ Len(sent) >= 4
  /\ SubSeq(sent, Len(sent) - 2, Len(sent)) = <<LF, CR, LF>>

ClientKeepsReading == []<>(unread < SendBuf \/ Gone)

CompleteRequestEnds ==
  ClientKeepsReading =>
    ((pc["child"] \in {"request", "header"} /\ HeaderComplete) ~> (pc["parent"] = "accept"))
=============================================================================
