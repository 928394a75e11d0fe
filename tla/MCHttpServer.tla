---------------------------- MODULE MCHttpServer ----------------------------
(* Requests in pieces or two at once, longer than the buffer or not, and   *)
(* answers of which one fits the buffer and one does not.                  *)
EXTENDS HttpServer

Asked(m, v, hs, b) == [method |-> m, version |-> v, headers |-> hs, body |-> b]
Named(f, v) == [field |-> f, value |-> v]
MCRequests ==
  {Asked("GET", "HTTP/1.0", << >>, << >>),
   Asked("GET", "HTTP/1.1", <<Named("Host", "Keep-Alive"), Named("Connection", "close")>>, << >>),
   Asked("POST", "HTTP/1.0", <<Named("Connection", "Keep-Alive")>>, <<"b", "sp">>)}
MCBodies == {<<"body">>, <<"body", "body", Zero>>}
=============================================================================
