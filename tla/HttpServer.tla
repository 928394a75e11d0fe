----------------------------- MODULE HttpServer -----------------------------
(***************************************************************************)
(* One connection of the HTTP server of src/hquin, with its two buffers:   *)
(* whatever one read delivers is taken for one request, parsed, answered   *)
(* with the message that the user's callback makes, and what the socket    *)
(* does not take at once waits in the output buffer.                       *)
(*                                                                         *)
(* Texts are sequences of words; a word is never cut, and a zero byte is   *)
(* the word Zero.  The masks and the end of a connection are in module     *)
(* TcpConnection.  The client may ask on while answers wait, so that the   *)
(* output buffer grows; behind its first growth writableBytes() wraps      *)
(* around (Buffer.h:29), and the write that follows leaves the buffer,     *)
(* which ends what C++ defines.                                            *)
(***************************************************************************)
EXTENDS Buffer, FiniteSets

CONSTANTS
  Requests,                    \* records: method, version, headers, body
  Bodies,                      \* what the user's callback may answer with
  ReadMax,                     \* the local buffer of Buffer::readFd()
  MaxRequests, MaxArrivals     \* bounds on the requests and their pieces

VARIABLES
  script,                      \* what the client has yet to send
  requests, arrivals,          \* history: the requests and the pieces so far
  last,                        \* history: what the last read delivered
  wire,                        \* arrived and not read
  input, output,               \* inputBuffer_, outputBuffer_
  connected,                   \* state_ is kConnected
  heard, answer,               \* history: the last text parsed, its answer
  pending,                     \* history: what output should hold
  overrun,                     \* history: appended to behind its first growth
  failed                       \* handle() did what C++ does not define

vars ==
  <<script, requests, arrivals, last, wire, input, output, connected, heard, answer, pending,
    overrun, failed>>

----------------------------------------------------------------------------
(* HTTPRequest::handle() on the text q.  A position 0 stands for npos.     *)
Find(q, word, from) ==
  LET at == {i \in from..Len(q) : q[i] = word}
  IN  IF at = {} THEN 0 ELSE CHOOSE i \in at : \A j \in at : i <= j

HasLine(q) == \E i \in 1..(Len(q) - 1) : q[i] = "cr" /\ q[i + 1] = "lf"

(* Mutant: the colon is left at the field.                                 *)
FieldWithColon(q, begin, end) == SubSeq(q, begin, end - 1)

(* The field without the colon.                                            *)
Field(q, begin, end) == SubSeq(q, begin, end - 2)

(* The header lines behind the line that ends at e, until a space or the   *)
(* end of a line is missing; a space right at the start of a line gives a  *)
(* text of negative length.                                                *)
HeaderLines(q, e) ==
  LET from[i \in 1..(Len(q) + 1)] ==
        LET s == Find(q, "sp", i + 2)
            c == IF s = 0 THEN 0 ELSE Find(q, "cr", s + 1)
        IN  IF s = i + 2 THEN [ok |-> FALSE, lines |-> << >>]
            ELSE IF c = 0 THEN [ok |-> TRUE, lines |-> << >>]
            ELSE [ok |-> from[c].ok,
                  lines |-> <<[field |-> Field(q, i + 2, s), value |-> SubSeq(q, s + 1, c - 1)]>>
                              \o from[c].lines]
  IN  from[e]

Unparsed == [ok |-> TRUE, method |-> "kInvalid", version |-> "kUnknown", lines |-> << >>]
Undefined == [Unparsed EXCEPT !.ok = FALSE]

Handle(q) ==
  IF ~HasLine(q) THEN Unparsed
  ELSE LET m == Find(q, "sp", 1)
           p == Find(q, "sp", m + 1)
           v == Find(q, "cr", p + 1)
       IN  IF m = 0 \/ p = 0 \/ v = 0 THEN Undefined
           ELSE LET h == HeaderLines(q, v)
                    method == SubSeq(q, 1, m - 1)
                    version == SubSeq(q, p + 1, v - 1)
                IN  [ok |-> h.ok, lines |-> h.lines,
                     method |-> IF method \in {<<"GET">>, <<"POST">>} THEN method[1]
                                ELSE "kInvalid",
                     version |-> IF version \in {<<"HTTP/1.0">>, <<"HTTP/1.1">>} THEN version[1]
                                 ELSE "kUnknown"]

(* emplace() keeps the first value of a field.                             *)
GetHeader(req, field) ==
  LET at == {i \in 1..Len(req.lines) : req.lines[i].field = field}
  IN  IF at = {} THEN << >> ELSE req.lines[CHOOSE i \in at : \A j \in at : i <= j].value

----------------------------------------------------------------------------
(* HTTPServer::onRequest() and HTTPResponse::appendToBuffer().             *)
Closes(req) ==
  LET connection == GetHeader(req, <<"Connection">>)
  IN  \/ connection = <<"close">>
      \/ req.version = "HTTP/1.0" /\ connection # <<"Keep-Alive">>

ResponsePieces(close, body) ==
  <<<<"HTTP/1.1 200 OK">>>>
    \o (IF close THEN <<<<"Connection: close">>>>
        ELSE <<<<"Content-Length", Len(body)>>, <<"Connection: Keep-Alive">>>>)
    \o <<<<"cr lf">>, body>>

MaxHead == 5  \* the words of an answer in front of its body

(* What the callback makes of setCloseConnection(). *)
Settings == {"unset", "on", "off"}

(* The answer, when the callback chose this body and this setting.         *)
Response(req, body, setting) ==
  LET close == IF setting = "unset" THEN Closes(req) ELSE setting = "on"
  IN  [body |-> body, setting |-> setting, close |-> close,
       text |-> StringifyReadable(AppendAll(Fresh, ResponsePieces(close, body)))]

----------------------------------------------------------------------------
(* The client.  A header line is a field, a colon, a space and a value.    *)
HeaderLine(h) == <<h.field, ":", "sp", h.value, "cr", "lf">>

Header(headers) ==
  [i \in 1..(6 * Len(headers)) |->
     HeaderLine(headers[((i - 1) \div 6) + 1])[((i - 1) % 6) + 1]]

Text(r) ==
  <<r.method, "sp", "path", "sp", r.version, "cr", "lf">>
    \o Header(r.headers) \o <<"cr", "lf">> \o r.body

Word == UNION {{Text(r)[i] : i \in DOMAIN Text(r)} : r \in Requests}
BodyWord == UNION {{b[i] : i \in DOMAIN b} : b \in Bodies}

ASSUME HttpAssumption ==
  /\ ReadMax \in Nat /\ ReadMax < 2^W
  /\ \A r \in Requests : Text(r) \in Seq(Word)

(* Beside the limits of the buffers: in a body no space stands in front of *)
(* the end of a line, because behind the header lines handle() would take  *)
(* the words around it for one more of them (HTTPRequest.cpp:93-101).      *)
ASSUME RequestAssumption ==
  \A r \in Requests :
    /\ r.method \in {"GET", "POST"} /\ r.version \in {"HTTP/1.0", "HTTP/1.1"}
    /\ r.headers \in Seq([field : Word \ {"sp", "cr"}, value : Word \ {"sp", "cr"}])
    /\ r.body \in Seq(Word)
    /\ \A i, j \in DOMAIN r.body : i < j /\ r.body[i] = "sp" => r.body[j] # "cr"

(* kInitialSize holds every head, and size_t the sum of two answers.       *)
ASSUME AnswerAssumption ==
  /\ MaxHead < InitialSize
  /\ \A b \in Bodies : b \in Seq(BodyWord) /\ InitialSize + MaxHead + Len(b) < 2^W

ClientStarts ==
  /\ script = << >> /\ requests < MaxRequests
  /\ \E r \in Requests : script' = Text(r)
  /\ requests' = requests + 1
  /\ UNCHANGED <<arrivals, last, wire, input, output, connected, heard, answer, pending,
                 overrun, failed>>

(* The next words arrive.                                                  *)
Arrives ==
  /\ arrivals < MaxArrivals
  /\ arrivals' = arrivals + 1
  /\ \E k \in 1..Len(script) :
       /\ Len(wire) + k <= ReadMax
       /\ wire' = wire \o SubSeq(script, 1, k)
       /\ script' = SubSeq(script, k + 1, Len(script))
  /\ UNCHANGED <<requests, last, input, output, connected, heard, answer, pending, overrun,
                 failed>>

----------------------------------------------------------------------------
(* What follows an exception or a write behind the capacity is undefined.  *)
Defined == ~failed /\ ~output.outside

(* The unsent rest is appended as a C string.                              *)
CString(s) ==
  LET zero == Find(s, Zero, 1) IN IF zero = 0 THEN s ELSE SubSeq(s, 1, zero - 1)

(* TcpConnection::send(): the socket takes the first n words.              *)
Send(text, n) ==
  IF ~connected \/ n = Len(text) THEN UNCHANGED <<output, pending, overrun>>
  ELSE LET rest == CString(SubSeq(text, n + 1, Len(text)))
       IN  /\ output' = Append1(output, rest)
           /\ pending' = pending \o rest
           /\ overrun' = (overrun \/ output.w > InitialSize)

(* TcpConnection::handleRead() with HTTPServer::onMessage().               *)
OnMessage ==
  /\ Defined /\ wire # << >>
  /\ LET fetched == FetchReadable(Append1(input, wire))
         req == Handle(fetched.text)
     IN  /\ input' = fetched.rest /\ heard' = fetched.text
         /\ failed' = ~req.ok
         /\ IF ~req.ok THEN UNCHANGED <<answer, output, pending, overrun, connected>>
            ELSE \E body \in Bodies, setting \in Settings :
                   /\ answer' = Response(req, body, setting)
                   /\ \E n \in 0..Len(answer'.text) : Send(answer'.text, n)
                   /\ connected' = (connected /\ ~answer'.close)
  /\ last' = wire /\ wire' = << >>
  /\ UNCHANGED <<script, requests, arrivals>>

(* TcpConnection::handleWrite().                                           *)
HandleWrite ==
  /\ Defined
  /\ \E n \in 1..ReadableBytes(output) :
       /\ output' = Retrieve(output, n)
       /\ pending' = SubSeq(pending, n + 1, Len(pending))
  /\ UNCHANGED <<script, requests, arrivals, last, wire, input, connected, heard, answer,
                 overrun, failed>>

Init ==
  /\ script = << >> /\ requests = 0 /\ arrivals = 0 /\ last = << >> /\ wire = << >>
  /\ input = Fresh /\ output = Fresh /\ connected = TRUE
  /\ heard = << >>
  /\ answer = [body |-> << >>, setting |-> "unset", close |-> FALSE, text |-> << >>]
  /\ pending = << >> /\ overrun = FALSE /\ failed = FALSE

Next == ClientStarts \/ Arrives \/ OnMessage \/ HandleWrite

Spec == Init /\ [][Next]_vars

----------------------------------------------------------------------------
(* What is parsed is what was read last, word for word, although a read    *)
(* may be larger than the buffer and raises its capacity only              *)
(* (Buffer.cpp:17-63, HTTPServer.cpp:41).                                  *)
InputIntact == ~input.outside /\ heard = last

(* The output buffer is a queue: what the socket did not take waits in it, *)
(* in its order, through any moves to the front and its first growth,      *)
(* until an answer is appended behind that growth: then writableBytes(),   *)
(* a negative difference without sign, is taken for enough, and the write  *)
(* leaves the buffer (Buffer.cpp:17-41, Buffer.h:29, 47-50).               *)
OutputIsQueue == overrun \/ (~output.outside /\ StringifyReadable(output) = pending)

(* A request that arrives in one read is understood: whether the           *)
(* connection is kept is what the callback set, or else what the version   *)
(* and the first Connection header say, and the answer is whole            *)
(* (HTTPRequest.cpp:64-102, HTTPServer.cpp:45-59).                         *)
WholeRequestAnswered ==
  \A r \in Requests : heard = Text(r) =>
    LET named == {i \in DOMAIN r.headers : r.headers[i].field = "Connection"}
        connection == IF named = {} THEN "none"
                      ELSE r.headers[CHOOSE i \in named : \A j \in named : i <= j].value
        asked == \/ connection = "close"
                 \/ r.version = "HTTP/1.0" /\ connection # "Keep-Alive"
        close == IF answer.setting = "unset" THEN asked ELSE answer.setting = "on"
        told == IF close THEN <<"Connection: close">>
                ELSE <<"Content-Length", Len(answer.body), "Connection: Keep-Alive">>
    IN  /\ ~failed /\ answer.close = close
        /\ answer.text = <<"HTTP/1.1 200 OK">> \o told \o <<"cr lf">> \o answer.body
=============================================================================
