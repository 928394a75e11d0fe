------------------------------ MODULE Strings ------------------------------
(***************************************************************************)
(* src/yequ/lib/string.c: memory is a function from addresses to bytes     *)
(* (0 to 255: wherever two of them are ordered they are taken as unsigned, *)
(* and the other tests are for equality), a call returns the memory it     *)
(* leaves or the value it computes, and each loop is a function of the     *)
(* number of its rounds.  memsetw() is left out: its count is unsigned and *)
(* never below zero, so it never returns.                                  *)
(***************************************************************************)
EXTENDS Integers, FiniteSets

(* The addresses of n rounds that start at a and run up, or start behind   *)
(* their region, at a, and run down.                                       *)
Upward(a, n) == [i \in 1..n |-> a + i - 1]
Downward(a, n) == [i \in 1..n |-> a - i]

(* A copy of n rounds: the i-th takes the byte at from[i] to to[i].        *)
Copied(m, n, from, to) ==
  LET after[i \in 0..n] ==
        IF i = 0 THEN m
        ELSE [after[i - 1] EXCEPT ![to[i]] = after[i - 1][from[i]]]
  IN  after[n]

(* When the destination overlaps the end of the source both pointers start *)
(* behind their regions; one then runs down and the other up.              *)
Memmove(m, dest, src, n) ==
  IF src < dest /\ src + n > dest
  THEN Copied(m, n, Upward(src + n, n), Downward(dest + n, n))
  ELSE Copied(m, n, Upward(src, n), Upward(dest, n))

Memcpy(m, dest, src, n) == Memmove(m, dest, src, n)

(* The i-th round stores the lowest byte of c at s + i - 1.                *)
Memset(m, s, c, n) ==
  LET after[i \in 0..n] ==
        IF i = 0 THEN m ELSE [after[i - 1] EXCEPT ![s + i - 1] = c % 256]
  IN  after[n]

(* The loops that walk along one or two strings, for at most limit rounds, *)
(* stop at the first round in stops.                                       *)
Rounds(limit, stops) ==
  LET walk[i \in 0..limit] == IF i = limit \/ i \in stops THEN i ELSE walk[i + 1]
  IN  walk[0]

Zeros(m, s, n) == {j \in 0..(n - 1) : m[s + j] = 0}
Differences(m, s1, s2, n) == {j \in 0..(n - 1) : m[s1 + j] # m[s2 + j]}

Memcmp(m, s1, s2, n) ==
  LET i == Rounds(n, Differences(m, s1, s2, n))
  IN  IF i = n THEN 0 ELSE m[s1 + i] - m[s2 + i]

Room(m, s) == Cardinality({a \in DOMAIN m : a >= s})

Strlen(m, s) == Rounds(Room(m, s), Zeros(m, s, Room(m, s)))

Strnlen(m, s, n) == Rounds(n, Zeros(m, s, n))

Strcpy(m, dest, src) ==
  LET n == Strlen(m, src) + 1 IN Copied(m, n, Upward(src, n), Upward(dest, n))

(* src stays at the terminating zero, which fills the rest of n bytes.     *)
Strncpy(m, dest, src, n) ==
  LET len == Strlen(m, src)
  IN  Copied(m, n, [i \in 1..n |-> src + (IF i - 1 < len THEN i - 1 ELSE len)], Upward(dest, n))

(* The memory and the value, which is dest - p and so never positive; no   *)
(* caller uses it, and nothing in the source says what it should be.       *)
Strlcpy(m, dest, src, n) ==
  IF n = 0 THEN [mem |-> m, ret |-> 0]
  ELSE LET k == Rounds(n - 1, Zeros(m, src, n - 1))
       IN  [mem |-> [Copied(m, k, Upward(src, k), Upward(dest, k)) EXCEPT ![dest + k] = 0],
            ret |-> -k]

(* Mutant: the comparison stops before the terminating zero.               *)
StrcmpPrefix(m, s1, s2) ==
  LET n == Room(m, IF s1 > s2 THEN s1 ELSE s2)
      i == Rounds(n, Zeros(m, s1, n) \cup Zeros(m, s2, n) \cup Differences(m, s1, s2, n))
  IN  IF m[s1 + i] = 0 THEN 0 ELSE m[s1 + i] - m[s2 + i]

Strcmp(m, s1, s2) ==
  LET n == Room(m, IF s1 > s2 THEN s1 ELSE s2)
      i == Rounds(n, Zeros(m, s1, n) \cup Differences(m, s1, s2, n))
  IN  m[s1 + i] - m[s2 + i]

Strncmp(m, s1, s2, n) ==
  LET i == Rounds(n, Zeros(m, s1, n) \cup Differences(m, s1, s2, n))
  IN  IF i = n THEN 0 ELSE m[s1 + i] - m[s2 + i]

(* The address of the first c, or the null pointer.                        *)
NullPointer == -1
Strchr(m, s, c) ==
  LET i == Rounds(Room(m, s), {j \in 0..(Room(m, s) - 1) : m[s + j] \in {0, c}})
  IN  IF m[s + i] = 0 THEN NullPointer ELSE s + i

----------------------------------------------------------------------------
(* The reference: strings and regions as values.                           *)
IsString(m, s) == \E a \in DOMAIN m : a >= s /\ m[a] = 0
EndOf(m, s) == CHOOSE a \in DOMAIN m : a >= s /\ m[a] = 0 /\ \A b \in s..(a - 1) : m[b] # 0
Region(m, s, n) == [i \in 0..(n - 1) |-> m[s + i]]
StringAt(m, s) == Region(m, s, EndOf(m, s) - s)
Elsewhere(m, after, s, n) == \A a \in DOMAIN m \ s..(s + n - 1) : after[a] = m[a]
Lesser(a, b) == IF a < b THEN a ELSE b

(* The order of the dictionary: the first difference decides.              *)
Before(u, v) ==
  \E k \in DOMAIN v \cup {0} :
    /\ \A i \in 0..(k - 1) : i \in DOMAIN u /\ i \in DOMAIN v /\ u[i] = v[i]
    /\ k \in DOMAIN v /\ (k \notin DOMAIN u \/ (k \in DOMAIN u /\ u[k] < v[k]))
Agrees(ret, u, v) == (ret < 0 <=> Before(u, v)) /\ (ret > 0 <=> Before(v, u))

(* A copy whose destination does not lie over the end of the source        *)
(* delivers the bytes of the source and touches nothing else, even when it *)
(* lies over its beginning (string.c:10-33).                               *)
MemmoveMeets(m, dest, src, n) ==
  ~(src < dest /\ src + n > dest) =>
    LET after == Memcpy(m, dest, src, n)
    IN  Region(after, dest, n) = Region(m, src, n) /\ Elsewhere(m, after, dest, n)

CopiesMeet(m, dest, src, n) ==
  LET len == EndOf(m, src) - src
      whole == Strcpy(m, dest, src)
      padded == Strncpy(m, dest, src, n)
      cut == Strlcpy(m, dest, src, n)
      k == Lesser(len, n - 1)
  IN  /\ (dest + len < src \/ (dest > src + len /\ dest + len \in DOMAIN m)) =>
           StringAt(whole, dest) = StringAt(m, src) /\ Elsewhere(m, whole, dest, len + 1)
      /\ (dest + n <= src \/ (dest > src + len /\ dest + n - 1 \in DOMAIN m)) =>
           /\ Region(padded, dest, n)
                = [i \in 0..(n - 1) |-> IF i < len THEN m[src + i] ELSE 0]
           /\ Elsewhere(m, padded, dest, n)
           /\ n > 0 => /\ StringAt(cut.mem, dest) = Region(m, src, k)
                       /\ Elsewhere(m, cut.mem, dest, k + 1)

ComparisonsMeet(m, s1, s2, n) ==
  LET u == StringAt(m, s1)
      v == StringAt(m, s2)
  IN  /\ Strlen(m, s1) = Cardinality(DOMAIN u)
      /\ Strnlen(m, s1, n) = Lesser(n, Cardinality(DOMAIN u))
      /\ Agrees(Strcmp(m, s1, s2), u, v)
      /\ Agrees(Strncmp(m, s1, s2, n), Region(m, s1, Lesser(n, Cardinality(DOMAIN u))),
                Region(m, s2, Lesser(n, Cardinality(DOMAIN v))))
      /\ \A c \in {m[a] : a \in DOMAIN m} \ {0} :
           LET hits == {a \in s1..(EndOf(m, s1) - 1) : m[a] = c}
               ret == Strchr(m, s1, c)
           IN  IF hits = {} THEN ret = NullPointer
               ELSE ret \in hits /\ \A a \in hits : ret <= a

BlocksMeet(m, s1, s2, n, c) ==
  /\ Agrees(Memcmp(m, s1, s2, n), Region(m, s1, n), Region(m, s2, n))
  /\ \A wide \in {c, c + 256} :
       /\ Region(Memset(m, s1, wide, n), s1, n) = [i \in 0..(n - 1) |-> c]
       /\ Elsewhere(m, Memset(m, s1, wide, n), s1, n)
=============================================================================
