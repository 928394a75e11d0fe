----------------------------- MODULE MCTinyHttp -----------------------------
(* Two connections, requests of each kind, a header line longer than the   *)
(* line buffer, and clients that leave in their header or do not read.     *)
EXTENDS TinyHttp, TLC

MCChar ==
  {"post", "root", "missing", "secret", "adder", "noargs", "plain", "dir", "x", "cr", "lf"}

Line(get, cgi, path, args) == [get |-> get, cgi |-> cgi, path |-> path, args |-> args]
MCTarget ==
  [post    |-> Line(FALSE, FALSE, "/", FALSE),
   root    |-> Line(TRUE, FALSE, "/", FALSE),
   missing |-> Line(TRUE, FALSE, "missing", FALSE),
   secret  |-> Line(TRUE, FALSE, "secret", FALSE),
   adder   |-> Line(TRUE, TRUE, "adder", TRUE),
   noargs  |-> Line(TRUE, TRUE, "adder", FALSE),
   plain   |-> Line(TRUE, TRUE, "home.html", FALSE),
   dir     |-> Line(TRUE, TRUE, "dir", FALSE)]

File(r, s, x) == [regular |-> r, readable |-> s, executable |-> x]
MCFiles ==
  ("home.html" :> File(TRUE, TRUE, FALSE)) @@ ("secret" :> File(TRUE, FALSE, FALSE))
    @@ ("adder" :> File(TRUE, TRUE, TRUE)) @@ ("dir" :> File(FALSE, TRUE, TRUE))

MCScripts ==
  {<<c, "lf", "x", "lf", "cr", "lf">> : c \in DOMAIN MCTarget}
    \cup {<<"root", "lf", "x", "x", "x", "cr", "lf", "cr", "lf">>, <<"adder", "lf", "cr", "lf">>}
=============================================================================
