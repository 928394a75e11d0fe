-------------------------- MODULE Game2048_proofs --------------------------
(***************************************************************************)
(* Proofs about Game2048, for boards of every size: the test for the end   *)
(* of the game looks at every pair of neighbours, and so a game is over    *)
(* exactly where it should be; blank_num and score, which the scan of a    *)
(* row changes beside the board, say at any time what the board says; and  *)
(* a move keeps the sum of the board.                                      *)
(***************************************************************************)
EXTENDS Game2048, FiniteSetTheorems, WellFoundedInduction, TLAPS

(* A pair of equal neighbours off the border has a member that is an inner *)
(* cell, so the three groups of comparisons of moveable() miss none        *)
(* (2048.c:222-255, 2048.cpp:177-210).                                     *)
THEOREM MoveableIsExact == \A b : Moveable(b) <=> ~Stuck(b)
<1> USE NAssumption
<1> TAKE b
<1>1. ASSUME Moveable(b) PROVE ~Stuck(b)
  <2>1. CASE \E i, j \in Size : b[i][j] = 0
    BY <2>1 DEF Stuck
  <2>2. CASE \E i, j \in 2..(N - 1) : b[i][j] \in {b[i - 1][j], b[i + 1][j], b[i][j - 1], b[i][j + 1]}
    <3>1. PICK i \in 2..(N - 1) : \E j \in 2..(N - 1) :
            b[i][j] \in {b[i - 1][j], b[i + 1][j], b[i][j - 1], b[i][j + 1]}
      BY <2>2
    <3>2. PICK j \in 2..(N - 1) : b[i][j] \in {b[i - 1][j], b[i + 1][j], b[i][j - 1], b[i][j + 1]}
      BY <3>1
    <3>3. /\ i \in Size /\ i \in 2..N /\ i + 1 \in 2..N /\ (i + 1) - 1 = i
          /\ j \in Size /\ j \in 2..N /\ j + 1 \in 2..N /\ (j + 1) - 1 = j
      BY DEF Size
    <3>4. CASE b[i][j] = b[i - 1][j]
      BY <3>3, <3>4 DEF Stuck
    <3>5. CASE b[i][j] = b[i + 1][j]
      BY <3>3, <3>5 DEF Stuck
    <3>6. CASE b[i][j] = b[i][j - 1]
      BY <3>3, <3>6 DEF Stuck
    <3>7. CASE b[i][j] = b[i][j + 1]
      BY <3>3, <3>7 DEF Stuck
    <3> QED BY <3>2, <3>4, <3>5, <3>6, <3>7
  <2>3. CASE \E i \in {1, N}, j \in 2..N : b[i][j] = b[i][j - 1]
    BY <2>3 DEF Stuck, Size
  <2>4. CASE \E j \in {1, N}, i \in 2..N : b[i][j] = b[i - 1][j]
    BY <2>4 DEF Stuck, Size
  <2> QED BY <1>1, <2>1, <2>2, <2>3, <2>4 DEF Moveable
<1>2. ASSUME ~Stuck(b) PROVE Moveable(b)
  <2>1. CASE \E i, j \in Size : b[i][j] = 0
    BY <2>1 DEF Moveable
  <2>2. ASSUME NEW i \in Size, NEW j \in 2..N, b[i][j] = b[i][j - 1]
        PROVE  Moveable(b)
    <3>1. CASE i \in {1, N}
      BY <2>2, <3>1 DEF Moveable
    <3>2. CASE i \in 2..(N - 1) /\ j \in 2..(N - 1)
      BY <2>2, <3>2 DEF Moveable
    <3>3. CASE i \in 2..(N - 1) /\ j = N
      <4>1. j - 1 \in 2..(N - 1) /\ (j - 1) + 1 = j
        BY <3>3
      <4>2. b[i][j - 1] = b[i][(j - 1) + 1]
        BY <2>2, <4>1
      <4> QED BY <3>3, <4>1, <4>2 DEF Moveable
    <3> QED BY <3>1, <3>2, <3>3 DEF Size
  <2>3. ASSUME NEW i \in 2..N, NEW j \in Size, b[i][j] = b[i - 1][j]
        PROVE  Moveable(b)
    <3>1. CASE j \in {1, N}
      BY <2>3, <3>1 DEF Moveable
    <3>2. CASE j \in 2..(N - 1) /\ i \in 2..(N - 1)
      BY <2>3, <3>2 DEF Moveable
    <3>3. CASE j \in 2..(N - 1) /\ i = N
      <4>1. i - 1 \in 2..(N - 1) /\ (i - 1) + 1 = i
        BY <3>3
      <4>2. b[i - 1][j] = b[(i - 1) + 1][j]
        BY <2>3, <4>1
      <4> QED BY <3>3, <4>1, <4>2 DEF Moveable
    <3> QED BY <3>1, <3>2, <3>3 DEF Size
  <2> QED BY <1>2, <2>1, <2>2, <2>3 DEF Stuck
<1> QED BY <1>1, <1>2

----------------------------------------------------------------------------
(* Neither program ends a game that can go on: the C program ends it on    *)
(* the board the move left, the C++ one on the board with the new tile     *)
(* (2048.c:274-275, 2048.cpp:229-235).                                     *)
THEOREM OverOnlyWhenStuck == Spec => []OverIsStuck
<1>1. Init => OverIsStuck
  BY DEF Init, OverIsStuck
<1>2. OverIsStuck /\ [Next]_vars => OverIsStuck'
  <2> SUFFICES ASSUME OverIsStuck, [Next]_vars, phase' = "over"
               PROVE  Stuck(board')
    BY DEF OverIsStuck, Stuck
  <2>1. CASE \E d \in Directions : MoveC(d)
    <3>1. PICK d \in Directions : MoveC(d)
      BY <2>1
    <3> DEFINE m == Moved("c", d, board)
    <3>2. phase' = IF Moveable(m.board) THEN "playing" ELSE "over"
      BY <3>1 DEF MoveC
    <3>3. ~Moveable(m.board)
      BY <3>2
    <3>4. board' = m.board
      BY <3>1, <3>3 DEF MoveC, NoTile
    <3> QED BY <3>3, <3>4, MoveableIsExact
  <2>2. CASE \E d \in BestMove : MoveCpp(d)
    BY <2>2, MoveableIsExact DEF MoveCpp
  <2>3. CASE Quit
    BY <2>3 DEF Quit
  <2>4. CASE UNCHANGED vars
    BY <2>4 DEF vars, OverIsStuck
  <2> QED BY <2>1, <2>2, <2>3, <2>4 DEF Next
<1>3. QED
  BY <1>1, <1>2, PTL DEF Spec

----------------------------------------------------------------------------
(* Two tiles leave a blank on any board of at least four cells.            *)
LEMMA TwoTilesLeaveBlank ==
  ASSUME NEW p1, NEW p2, NEW v1, NEW v2
  PROVE  Moveable(Put(Put(Empty, p1, v1), p2, v2))
<1> DEFINE r1 == RowOf(p1)  c1 == ColOf(p1)  r2 == RowOf(p2)  c2 == ColOf(p2)
           b == Put(Put(Empty, p1, v1), p2, v2)
<1> HIDE DEF r1, c1, r2, c2
<1>1. /\ 1 \in Size /\ 2 \in Size
  BY NAssumption DEF Size
<1>2. ASSUME NEW i \in Size, NEW j \in Size, ~(i = r1 /\ j = c1), ~(i = r2 /\ j = c2)
      PROVE  b[i][j] = 0
  BY <1>2 DEF Put, Empty, r1, c1, r2, c2
<1>3. \E i, j \in Size : ~(i = r1 /\ j = c1) /\ ~(i = r2 /\ j = c2)
  <2>1. CASE ~(1 = r1 /\ 1 = c1) /\ ~(1 = r2 /\ 1 = c2)
    BY <1>1, <2>1
  <2>2. CASE ~(1 = r1 /\ 2 = c1) /\ ~(1 = r2 /\ 2 = c2)
    BY <1>1, <2>2
  <2>3. CASE ~(2 = r1 /\ 1 = c1) /\ ~(2 = r2 /\ 1 = c2)
    BY <1>1, <2>3
  <2> QED BY <2>1, <2>2, <2>3
<1>4. PICK i \in Size : \E j \in Size : ~(i = r1 /\ j = c1) /\ ~(i = r2 /\ j = c2)
  BY <1>3
<1>5. PICK j \in Size : ~(i = r1 /\ j = c1) /\ ~(i = r2 /\ j = c2)
  BY <1>4
<1>6. b[i][j] = 0
  BY <1>2, <1>5
<1> QED BY <1>6 DEF Moveable

(* In the C++ program the player never faces a position without a move,    *)
(* because the new tile is on the board when the end is tested             *)
(* (2048.cpp:229-237).                                                     *)
THEOREM StuckIsAtOnceOver == Spec => []StuckIsOver
<1> DEFINE Inv == prog = "cpp" /\ phase = "playing" => Moveable(board)
<1>1. Init => Inv
  <2> SUFFICES ASSUME Init PROVE Moveable(board)
    OBVIOUS
  <2>1. \E p1, p2 \in Positions : \E v1 \in NewValues(p1), v2 \in NewValues(p2) :
          board = Put(Put(Empty, p1, v1), p2, v2)
    BY DEF Init
  <2> QED BY <2>1, TwoTilesLeaveBlank
<1>2. Inv /\ [Next]_vars => Inv'
  <2> SUFFICES ASSUME Inv, [Next]_vars, prog' = "cpp", phase' = "playing"
               PROVE  Moveable(board')
    BY DEF Moveable
  <2>1. CASE \E d \in Directions : MoveC(d)
    BY <2>1 DEF MoveC
  <2>2. CASE \E d \in BestMove : MoveCpp(d)
    BY <2>2 DEF MoveCpp
  <2>3. CASE Quit
    BY <2>3 DEF Quit
  <2>4. CASE UNCHANGED vars
    BY <2>4 DEF vars
  <2> QED BY <2>1, <2>2, <2>3, <2>4 DEF Next
<1>3. Inv => StuckIsOver
  BY MoveableIsExact DEF StuckIsOver
<1>4. QED
  BY <1>1, <1>2, <1>3, PTL DEF Spec

----------------------------------------------------------------------------
(* Induction, for a set instead of a property.                             *)
LEMMA SetInduction ==
  ASSUME NEW T, 0 \in T, \A n \in Nat : n \in T => n + 1 \in T
  PROVE  Nat \subseteq T
<1> SUFFICES ASSUME Nat \ T # {} PROVE FALSE
  OBVIOUS
<1> DEFINE R == {ss \in Nat \X Nat : ss[1] < ss[2]}
<1>1. IsWellFoundedOn(R, Nat)
  BY NatLessThanWellFounded DEF OpToRel
<1>2. \A x, y \in Nat : y < x => <<y, x>> \in R
  OBVIOUS
<1> HIDE DEF R
<1>3. PICK x \in Nat \ T : \A y \in Nat \ T : <<y, x>> \notin R
  BY <1>1, WFMin
<1>4. x # 0 /\ x - 1 \in Nat /\ x - 1 < x
  BY <1>3
<1>5. x - 1 \in T
  BY <1>2, <1>3, <1>4
<1>6. (x - 1) + 1 = x
  BY <1>3
<1> QED BY <1>3, <1>4, <1>5, <1>6

----------------------------------------------------------------------------
(* Sums.  u holds the sums of the beginnings of f.                         *)
UpTo(u, f) ==
  /\ u \in [0..N -> Int] /\ u[0] = 0
  /\ \A k \in 1..N : u[k] = u[k - 1] + f[k]

Begun(u, f, n) ==
  /\ u \in [0..N -> Int] /\ u[0] = 0
  /\ \A k \in 1..N : k <= n => u[k] = u[k - 1] + f[k]

LEMMA SumsExist ==
  ASSUME NEW f \in [Size -> Int]
  PROVE  \E u : UpTo(u, f)
<1> DEFINE T == {n \in Nat : \E u : Begun(u, f, n)}
<1>1. 0 \in T
  <2> DEFINE u == [k \in 0..N |-> 0]
  <2>1. u \in [0..N -> Int] /\ u[0] = 0
    BY NAssumption
  <2>2. Begun(u, f, 0)
    BY <2>1 DEF Begun
  <2> QED BY <2>2
<1>2. ASSUME NEW n \in Nat, n \in T PROVE n + 1 \in T
  <2>1. PICK u : Begun(u, f, n)
    BY <1>2
  <2> SUFFICES \E w : Begun(w, f, n + 1)
    OBVIOUS
  <2>2. CASE n + 1 > N
    <3>1. Begun(u, f, n + 1)
      BY <2>1, <2>2, NAssumption DEF Begun
    <3> QED BY <3>1
  <2>3. CASE n + 1 <= N
    <3> DEFINE w == [u EXCEPT ![n + 1] = u[n] + f[n + 1]]
    <3>1. n + 1 \in 1..N /\ n \in 0..N /\ n + 1 \in 0..N /\ u \in [0..N -> Int]
      BY <2>1, <2>3, NAssumption DEF Begun
    <3>2. w \in [0..N -> Int] /\ w[n + 1] = u[n] + f[n + 1] /\ \A k \in 0..N : k # n + 1 => w[k] = u[k]
      BY <3>1 DEF Size
    <3> HIDE DEF w
    <3>3. w[0] = 0
      <4>1. 0 \in 0..N /\ 0 # n + 1
        BY NAssumption
      <4> QED BY <2>1, <3>2, <4>1 DEF Begun
    <3>4. ASSUME NEW k \in 1..N, k <= n + 1 PROVE w[k] = w[k - 1] + f[k]
      <4>1. k - 1 \in 0..N /\ k \in 0..N /\ k - 1 # n + 1
        BY <3>4, NAssumption
      <4>2. CASE k = n + 1
        <5>1. k - 1 = n
          BY <4>2
        <5> QED BY <3>1, <3>2, <4>2, <5>1
      <4>3. CASE k # n + 1
        <5>1. k <= n
          BY <3>4, <4>3
        <5> QED BY <2>1, <3>2, <4>1, <4>3, <5>1 DEF Begun
      <4> QED BY <4>2, <4>3
    <3>5. Begun(w, f, n + 1)
      BY <3>2, <3>3, <3>4 DEF Begun
    <3> QED BY <3>5
  <2> QED BY <2>2, <2>3, NAssumption
<1>3. N \in T
  <2> HIDE DEF T
  <2> QED BY <1>1, <1>2, SetInduction, NAssumption
<1>4. PICK u : Begun(u, f, N)
  BY <1>3
<1>5. \A k \in 1..N : k <= N
  BY NAssumption
<1> QED BY <1>4, <1>5 DEF UpTo, Begun

LEMMA SumIs ==
  ASSUME NEW f, NEW u, UpTo(u, f)
  PROVE  SumOf(f) = u[N] /\ SumOf(f) \in Int
<1> DEFINE Rec(w) == [k \in 0..N |-> IF k = 0 THEN 0 ELSE w[k - 1] + f[k]]
           s == CHOOSE w : w = Rec(w)
<1>1. u = Rec(u)
  <2>1. \A k \in 0..N : u[k] = Rec(u)[k]
    <3>1. ASSUME NEW k \in 0..N PROVE u[k] = Rec(u)[k]
      <4>1. k # 0 => k \in 1..N
        BY NAssumption
      <4> QED BY <4>1 DEF UpTo
    <3> QED BY <3>1
  <2> QED BY <2>1 DEF UpTo
<1>2. s = Rec(s)
  BY <1>1
<1>3. SumOf(f) = s[N]
  BY DEF SumOf
<1> HIDE DEF s
<1>4. s[0] = 0 /\ \A k \in 1..N : s[k] = s[k - 1] + f[k]
  BY <1>2, NAssumption
<1>5. \A n \in 0..N : s[n] = u[n]
  <2> DEFINE T == {n \in Nat : n <= N => s[n] = u[n]}
  <2>1. 0 \in T
    BY <1>4 DEF UpTo
  <2>2. ASSUME NEW n \in Nat, n \in T PROVE n + 1 \in T
    <3> SUFFICES ASSUME n + 1 <= N PROVE s[n + 1] = u[n + 1]
      OBVIOUS
    <3>1. n + 1 \in 1..N /\ (n + 1) - 1 = n /\ n <= N
      BY NAssumption
    <3>2. s[n] = u[n]
      BY <2>2, <3>1
    <3> QED BY <1>4, <3>1, <3>2 DEF UpTo
  <2>3. Nat \subseteq T
    <3> HIDE DEF T
    <3> QED BY <2>1, <2>2, SetInduction
  <2> QED BY <2>3, NAssumption
<1>6. N \in 0..N
  BY NAssumption
<1> QED BY <1>3, <1>5, <1>6 DEF UpTo

LEMMA HasSums ==
  ASSUME NEW f \in [Size -> Int]
  PROVE  /\ SumOf(f) \in Int
         /\ \E u : UpTo(u, f) /\ SumOf(f) = u[N]
BY SumsExist, SumIs

LEMMA SumAdds ==
  ASSUME NEW f \in [Size -> Int], NEW g \in [Size -> Int], NEW h,
         \A k \in Size : h[k] = f[k] + g[k]
  PROVE  SumOf(h) = SumOf(f) + SumOf(g)
<1>1. PICK u : UpTo(u, f) /\ SumOf(f) = u[N]
  BY HasSums
<1>2. PICK w : UpTo(w, g) /\ SumOf(g) = w[N]
  BY HasSums
<1> DEFINE s == [k \in 0..N |-> u[k] + w[k]]
<1>3. N \in 0..N /\ 0 \in 0..N
  BY NAssumption
<1>4. s \in [0..N -> Int] /\ s[0] = 0 /\ s[N] = u[N] + w[N]
  BY <1>1, <1>2, <1>3 DEF UpTo
<1>5. ASSUME NEW k \in 1..N PROVE s[k] = s[k - 1] + h[k]
  <2>1. k \in 0..N /\ k - 1 \in 0..N /\ k \in Size
    BY NAssumption DEF Size
  <2>2. u[k] = u[k - 1] + f[k] /\ w[k] = w[k - 1] + g[k] /\ h[k] = f[k] + g[k]
    BY <1>1, <1>2, <2>1 DEF UpTo
  <2>3. u[k - 1] \in Int /\ w[k - 1] \in Int /\ f[k] \in Int /\ g[k] \in Int
    BY <1>1, <1>2, <2>1 DEF UpTo
  <2> QED BY <2>1, <2>2, <2>3
<1>6. UpTo(s, h)
  BY <1>4, <1>5 DEF UpTo
<1> HIDE DEF s
<1> QED BY <1>1, <1>2, <1>4, <1>6, SumIs

LEMMA SumUpdates ==
  ASSUME NEW f \in [Size -> Int], NEW g \in [Size -> Int], NEW m \in Size,
         \A k \in Size : k # m => g[k] = f[k]
  PROVE  SumOf(g) = (SumOf(f) - f[m]) + g[m]
<1>1. PICK u : UpTo(u, f) /\ SumOf(f) = u[N]
  BY HasSums
<1> DEFINE d == g[m] - f[m]
           s == [k \in 0..N |-> IF k < m THEN u[k] ELSE u[k] + d]
<1>2. N \in 0..N /\ 0 \in 0..N /\ 0 < m /\ ~(N < m) /\ d \in Int /\ m \in Nat
  BY NAssumption DEF Size
<1> HIDE DEF d
<1>3. s \in [0..N -> Int] /\ s[0] = 0 /\ s[N] = u[N] + d
  BY <1>1, <1>2 DEF UpTo
<1>4. ASSUME NEW k \in 1..N PROVE s[k] = s[k - 1] + g[k]
  <2>1. k \in 0..N /\ k - 1 \in 0..N /\ k \in Size
    BY NAssumption DEF Size
  <2>2. u[k] = u[k - 1] + f[k] /\ u[k - 1] \in Int /\ f[k] \in Int /\ g[k] \in Int
    BY <1>1, <2>1 DEF UpTo
  <2>3. CASE k = m
    <3>1. s[k] = u[k] + d /\ s[k - 1] = u[k - 1]
      BY <1>2, <2>1, <2>3
    <3>2. d = g[k] - f[k]
      BY <2>3 DEF d
    <3> QED BY <1>2, <2>2, <3>1, <3>2
  <2>4. CASE k < m
    <3>1. s[k] = u[k] /\ s[k - 1] = u[k - 1]
      BY <1>2, <2>1, <2>4
    <3>2. g[k] = f[k]
      BY <1>2, <2>1, <2>4
    <3> QED BY <2>2, <3>1, <3>2
  <2>5. CASE k > m
    <3>1. s[k] = u[k] + d /\ s[k - 1] = u[k - 1] + d
      BY <1>2, <2>1, <2>5
    <3>2. g[k] = f[k]
      BY <1>2, <2>1, <2>5
    <3> QED BY <1>2, <2>2, <3>1, <3>2
  <2> QED BY <1>2, <2>1, <2>3, <2>4, <2>5
<1>5. UpTo(s, g)
  BY <1>3, <1>4 DEF UpTo
<1> HIDE DEF s
<1>6. SumOf(g) = u[N] + d /\ u[N] \in Int /\ f[m] \in Int /\ g[m] \in Int
  BY <1>1, <1>2, <1>3, <1>5, SumIs DEF UpTo
<1> QED BY <1>1, <1>6 DEF d

LEMMA SumOfConstant ==
  ASSUME NEW f, NEW c \in Int, \A k \in Size : f[k] = c
  PROVE  SumOf(f) = N * c
<1> DEFINE s == [k \in 0..N |-> k * c]
<1>1. N \in 0..N /\ 0 \in 0..N
  BY NAssumption
<1>2. s \in [0..N -> Int] /\ s[0] = 0 /\ s[N] = N * c
  BY <1>1
<1>3. ASSUME NEW k \in 1..N PROVE s[k] = s[k - 1] + f[k]
  <2>1. k \in 0..N /\ k - 1 \in 0..N /\ k \in Size
    BY NAssumption DEF Size
  <2>2. (k - 1) * c + c = k * c
    OBVIOUS
  <2> QED BY <2>1, <2>2
<1>4. UpTo(s, f)
  BY <1>2, <1>3 DEF UpTo
<1> HIDE DEF s
<1> QED BY <1>2, <1>4, SumIs

LEMMA SumReverses ==
  ASSUME NEW f \in [Size -> Int], NEW g, \A k \in Size : g[k] = f[N + 1 - k]
  PROVE  SumOf(g) = SumOf(f)
<1>1. PICK u : UpTo(u, f) /\ SumOf(f) = u[N]
  BY HasSums
<1> DEFINE s == [k \in 0..N |-> u[N] - u[N - k]]
<1>2. N \in 0..N /\ 0 \in 0..N /\ N - N = 0 /\ N - 0 = N
  BY NAssumption
<1>3. \A k \in 0..N : N - k \in 0..N
  BY NAssumption
<1>4. s \in [0..N -> Int] /\ s[0] = 0 /\ s[N] = u[N]
  <2>1. u \in [0..N -> Int] /\ u[0] = 0
    BY <1>1 DEF UpTo
  <2>2. u[N] \in Int /\ \A k \in 0..N : u[N - k] \in Int
    BY <1>2, <1>3, <2>1
  <2>3. \A k \in 0..N : u[N] - u[N - k] \in Int
    BY <2>2
  <2>4. s \in [0..N -> Int]
    BY <2>3
  <2>5. s[0] = u[N] - u[N] /\ s[N] = u[N] - u[0]
    BY <1>2
  <2>6. s[0] = 0 /\ s[N] = u[N]
    BY <2>1, <2>2, <2>5
  <2> QED BY <2>4, <2>6
<1>5. ASSUME NEW k \in 1..N PROVE s[k] = s[k - 1] + g[k]
  <2> DEFINE i == N + 1 - k
  <2>1. /\ k \in 0..N /\ k - 1 \in 0..N /\ k \in Size
        /\ i \in 1..N /\ i \in Size /\ N - (k - 1) = i /\ N - k = i - 1
        /\ i \in 0..N /\ i - 1 \in 0..N
    BY NAssumption DEF Size
  <2>2. g[k] = f[i]
    BY <2>1
  <2> HIDE DEF i
  <2>3. u[i] = u[i - 1] + f[i] /\ u[i - 1] \in Int /\ f[i] \in Int /\ u[N] \in Int
    BY <1>1, <1>2, <2>1 DEF UpTo
  <2>4. s[k] = u[N] - u[i - 1] /\ s[k - 1] = u[N] - u[i]
    BY <2>1
  <2> QED BY <2>2, <2>3, <2>4
<1>6. UpTo(s, g)
  BY <1>4, <1>5 DEF UpTo
<1> HIDE DEF s
<1> QED BY <1>1, <1>4, <1>6, SumIs

LEMMA SumIsNat ==
  ASSUME NEW f \in [Size -> Nat]
  PROVE  SumOf(f) \in Nat
<1>1. PICK u : UpTo(u, f) /\ SumOf(f) = u[N]
  BY HasSums
<1> DEFINE T == {n \in Nat : n <= N => u[n] \in Nat}
<1>2. 0 \in T
  BY <1>1 DEF UpTo
<1>3. ASSUME NEW n \in Nat, n \in T PROVE n + 1 \in T
  <2> SUFFICES ASSUME n + 1 <= N PROVE u[n + 1] \in Nat
    OBVIOUS
  <2>1. n + 1 \in 1..N /\ n + 1 \in Size /\ (n + 1) - 1 = n /\ n <= N
    BY NAssumption DEF Size
  <2>2. u[n] \in Nat /\ f[n + 1] \in Nat
    BY <1>3, <2>1
  <2>3. u[n + 1] = u[n] + f[n + 1]
    BY <1>1, <2>1 DEF UpTo
  <2> QED BY <2>2, <2>3
<1>4. Nat \subseteq T
  <2> HIDE DEF T
  <2> QED BY <1>2, <1>3, SetInduction
<1> QED BY <1>1, <1>4, NAssumption

LEMMA SumIsPositive ==
  ASSUME NEW f \in [Size -> Nat], NEW m \in Size, f[m] > 0
  PROVE  SumOf(f) > 0
<1> DEFINE g == [f EXCEPT ![m] = 0]
<1>1. g \in [Size -> Nat] /\ g[m] = 0 /\ \A k \in Size : k # m => g[k] = f[k]
  OBVIOUS
<1> HIDE DEF g
<1>2. f \in [Size -> Int] /\ g \in [Size -> Int]
  BY <1>1
<1>3. SumOf(g) = (SumOf(f) - f[m]) + g[m]
  BY <1>1, <1>2, SumUpdates
<1>4. SumOf(g) \in Nat /\ SumOf(f) \in Nat /\ f[m] \in Nat
  BY <1>1, SumIsNat
<1> QED BY <1>1, <1>3, <1>4

(* Row by row or column by column makes no difference.                     *)
LEMMA SumTransposes ==
  ASSUME NEW m \in [Size -> [Size -> Int]]
  PROVE  SumOf([j \in Size |-> SumOf([i \in Size |-> m[i][j]])]) = SumOf([i \in Size |-> SumOf(m[i])])
<1> DEFINE U == [i \in Size |-> CHOOSE u : UpTo(u, m[i]) /\ SumOf(m[i]) = u[N]]
           Column(k) == [i \in Size |-> U[i][k]]
           C == [k \in 0..N |-> SumOf(Column(k))]
           cols == [j \in Size |-> SumOf([i \in Size |-> m[i][j]])]
           rows == [i \in Size |-> SumOf(m[i])]
<1>1. ASSUME NEW i \in Size PROVE UpTo(U[i], m[i]) /\ SumOf(m[i]) = U[i][N]
  <2>1. m[i] \in [Size -> Int]
    OBVIOUS
  <2>2. \E u : UpTo(u, m[i]) /\ SumOf(m[i]) = u[N]
    BY <2>1, HasSums
  <2> QED BY <2>2
<1> HIDE DEF U
<1>2. N \in 0..N /\ 0 \in 0..N /\ N * 0 = 0
  BY NAssumption
<1>3. ASSUME NEW k \in 0..N PROVE Column(k) \in [Size -> Int] /\ SumOf(Column(k)) \in Int
  <2>1. Column(k) \in [Size -> Int]
    BY <1>1 DEF UpTo
  <2> HIDE DEF Column
  <2> QED BY <2>1, HasSums
<1>4. C[0] = 0
  <2>1. \A i \in Size : Column(0)[i] = 0
    BY <1>1 DEF UpTo
  <2> HIDE DEF Column
  <2>2. SumOf(Column(0)) = N * 0
    BY <2>1, SumOfConstant
  <2> QED BY <1>2, <2>2
<1>5. C[N] = SumOf(rows)
  <2>1. Column(N) = rows
    BY <1>1
  <2> HIDE DEF Column, rows
  <2> QED BY <1>2, <2>1
<1>6. ASSUME NEW k \in 1..N PROVE C[k] = C[k - 1] + cols[k]
  <2> DEFINE g == [i \in Size |-> m[i][k]]
  <2>1. k \in 0..N /\ k - 1 \in 0..N /\ k \in Size
    BY NAssumption DEF Size
  <2>2. g \in [Size -> Int]
    BY <2>1
  <2>3. \A i \in Size : Column(k)[i] = Column(k - 1)[i] + g[i]
    BY <1>1, <2>1 DEF UpTo
  <2>4. Column(k - 1) \in [Size -> Int]
    BY <1>3, <2>1
  <2>5. C[k] = SumOf(Column(k)) /\ C[k - 1] = SumOf(Column(k - 1)) /\ cols[k] = SumOf(g)
    BY <2>1
  <2> HIDE DEF Column, g, C, cols
  <2>6. SumOf(Column(k)) = SumOf(Column(k - 1)) + SumOf(g)
    BY <2>2, <2>3, <2>4, SumAdds
  <2> QED BY <2>5, <2>6
<1>7. UpTo(C, cols)
  <2>1. C \in [0..N -> Int]
    BY <1>3
  <2> HIDE DEF C, cols
  <2> QED BY <1>4, <1>6, <2>1 DEF UpTo
<1> HIDE DEF C
<1>8. SumOf(cols) = SumOf(rows)
  <2> HIDE DEF cols, rows
  <2> QED BY <1>5, <1>7, SumIs
<1> QED BY <1>8

----------------------------------------------------------------------------
(* Boards and what they weigh.  The weight of a tile is its value for the  *)
(* sum of the board, 1 for a blank and 0 for others for the number of      *)
(* blanks, TileScore for what the tile is worth.                           *)
Tile == {0} \cup {v \in Nat : v >= 2}
Boards == [Size -> [Size -> Tile]]
Weights == [Nat -> Nat]
Weighed(w, row) == [j \in Size |-> w[row[j]]]
Over(w, b) == SumOf([i \in Size |-> SumOf(Weighed(w, b[i]))])

LEMMA RowWeight ==
  ASSUME NEW w \in Weights, NEW row \in [Size -> Tile]
  PROVE  /\ Weighed(w, row) \in [Size -> Nat] /\ Weighed(w, row) \in [Size -> Int]
         /\ SumOf(Weighed(w, row)) \in Nat
<1>1. Weighed(w, row) \in [Size -> Nat]
  BY DEF Weighed, Weights, Tile
<1>2. Weighed(w, row) \in [Size -> Int]
  BY <1>1
<1> QED BY <1>1, <1>2, SumIsNat

LEMMA BoardWeight ==
  ASSUME NEW w \in Weights, NEW b \in Boards
  PROVE  /\ [i \in Size |-> SumOf(Weighed(w, b[i]))] \in [Size -> Nat]
         /\ [i \in Size |-> SumOf(Weighed(w, b[i]))] \in [Size -> Int]
         /\ Over(w, b) \in Nat
<1>1. \A i \in Size : SumOf(Weighed(w, b[i])) \in Nat
  BY RowWeight DEF Boards
<1>2. /\ [i \in Size |-> SumOf(Weighed(w, b[i]))] \in [Size -> Nat]
      /\ [i \in Size |-> SumOf(Weighed(w, b[i]))] \in [Size -> Int]
  BY <1>1
<1> QED BY <1>2, SumIsNat DEF Over

LEMMA TransposeWeight ==
  ASSUME NEW w \in Weights, NEW b \in Boards
  PROVE  Transpose(b) \in Boards /\ Over(w, Transpose(b)) = Over(w, b)
<1> DEFINE m == [i \in Size |-> [j \in Size |-> w[b[i][j]]]]
<1>1. Transpose(b) \in Boards
  BY DEF Boards, Transpose
<1>2. m \in [Size -> [Size -> Int]]
  BY DEF Boards, Weights, Tile
<1>3. Over(w, b) = SumOf([i \in Size |-> SumOf(m[i])])
  <2>1. [i \in Size |-> SumOf(Weighed(w, b[i]))] = [i \in Size |-> SumOf(m[i])]
    BY DEF Weighed
  <2> QED BY <2>1 DEF Over
<1>4. Over(w, Transpose(b)) = SumOf([j \in Size |-> SumOf([i \in Size |-> m[i][j]])])
  <2>1. ASSUME NEW j \in Size
        PROVE  Weighed(w, Transpose(b)[j]) = [i \in Size |-> m[i][j]]
    BY DEF Weighed, Transpose
  <2>2. [j \in Size |-> SumOf(Weighed(w, Transpose(b)[j]))]
          = [j \in Size |-> SumOf([i \in Size |-> m[i][j]])]
    BY <2>1
  <2> QED BY <2>2 DEF Over
<1> HIDE DEF m
<1> QED BY <1>1, <1>2, <1>3, <1>4, SumTransposes

LEMMA ReversedWeight ==
  ASSUME NEW w \in Weights, NEW b \in Boards
  PROVE  Reversed(b) \in Boards /\ Over(w, Reversed(b)) = Over(w, b)
<1>1. \A j \in Size : N + 1 - j \in Size
  BY NAssumption DEF Size
<1>2. Reversed(b) \in Boards
  BY <1>1 DEF Boards, Reversed
<1>3. ASSUME NEW i \in Size PROVE SumOf(Weighed(w, Reversed(b)[i])) = SumOf(Weighed(w, b[i]))
  <2>1. \A j \in Size : Weighed(w, Reversed(b)[i])[j] = Weighed(w, b[i])[N + 1 - j]
    BY <1>1 DEF Weighed, Reversed
  <2>2. Weighed(w, b[i]) \in [Size -> Int]
    BY RowWeight DEF Boards
  <2> QED BY <2>1, <2>2, SumReverses
<1>4. [i \in Size |-> SumOf(Weighed(w, Reversed(b)[i]))] = [i \in Size |-> SumOf(Weighed(w, b[i]))]
  BY <1>3
<1> QED BY <1>2, <1>4 DEF Over

LEMMA CellWeight ==
  ASSUME NEW w \in Weights, NEW b \in Boards, NEW r \in Size, NEW c \in Size, NEW v \in Tile
  PROVE  /\ [b EXCEPT ![r][c] = v] \in Boards
         /\ Over(w, [b EXCEPT ![r][c] = v]) = (Over(w, b) - w[b[r][c]]) + w[v]
<1> DEFINE d == [b EXCEPT ![r][c] = v]
<1>1. /\ d \in Boards /\ d[r] \in [Size -> Tile] /\ b[r] \in [Size -> Tile] /\ d[r][c] = v
      /\ \A j \in Size : j # c => d[r][j] = b[r][j]
      /\ \A i \in Size : i # r => d[i] = b[i]
  BY DEF Boards
<1> HIDE DEF d
<1>2. /\ Weighed(w, d[r]) \in [Size -> Int] /\ Weighed(w, b[r]) \in [Size -> Int]
      /\ Weighed(w, d[r])[c] = w[v] /\ Weighed(w, b[r])[c] = w[b[r][c]]
      /\ w[v] \in Int /\ w[b[r][c]] \in Int
  <2>1. Weighed(w, d[r]) \in [Size -> Int] /\ Weighed(w, b[r]) \in [Size -> Int]
    BY <1>1, RowWeight
  <2>2. Weighed(w, d[r])[c] = w[v] /\ Weighed(w, b[r])[c] = w[b[r][c]]
    BY <1>1 DEF Weighed
  <2> QED BY <2>1, <2>2
<1>3. \A j \in Size : j # c => Weighed(w, d[r])[j] = Weighed(w, b[r])[j]
  BY <1>1 DEF Weighed
<1>4. SumOf(Weighed(w, d[r])) = (SumOf(Weighed(w, b[r])) - w[b[r][c]]) + w[v]
  BY <1>2, <1>3, SumUpdates
<1> DEFINE f == [i \in Size |-> SumOf(Weighed(w, b[i]))]
           g == [i \in Size |-> SumOf(Weighed(w, d[i]))]
<1>5. f \in [Size -> Int] /\ g \in [Size -> Int]
  BY <1>1, BoardWeight
<1>6. \A i \in Size : i # r => g[i] = f[i]
  BY <1>1
<1>7. f[r] = SumOf(Weighed(w, b[r])) /\ g[r] = SumOf(Weighed(w, d[r]))
  OBVIOUS
<1>8. Over(w, b) = SumOf(f) /\ Over(w, d) = SumOf(g)
  BY DEF Over
<1> HIDE DEF f, g
<1>9. SumOf(g) = (SumOf(f) - f[r]) + g[r]
  BY <1>5, <1>6, SumUpdates
<1>10. SumOf(f) \in Int /\ f[r] \in Int /\ g[r] \in Int
  BY <1>5, HasSums
<1>11. Over(w, d) = (Over(w, b) - w[b[r][c]]) + w[v]
  BY <1>2, <1>4, <1>7, <1>8, <1>9, <1>10
<1> QED BY <1>1, <1>11 DEF d

LEMMA EmptyWeight ==
  ASSUME NEW w \in Weights
  PROVE  Empty \in Boards /\ Over(w, Empty) = N * (N * w[0])
<1>1. Empty \in Boards
  BY DEF Boards, Empty, Tile
<1>2. w[0] \in Int /\ N * w[0] \in Int
  BY NAssumption DEF Weights
<1>3. ASSUME NEW i \in Size PROVE SumOf(Weighed(w, Empty[i])) = N * w[0]
  <2>1. \A j \in Size : Weighed(w, Empty[i])[j] = w[0]
    BY DEF Weighed, Empty
  <2> QED BY <1>2, <2>1, SumOfConstant
<1> DEFINE f == [i \in Size |-> SumOf(Weighed(w, Empty[i]))]
           c == N * w[0]
<1>4. \A i \in Size : f[i] = c
  BY <1>3
<1>5. Over(w, Empty) = SumOf(f)
  BY DEF Over
<1>6. c \in Int
  BY <1>2
<1> HIDE DEF f, c
<1>7. Over(w, Empty) = N * c
  BY <1>4, <1>5, <1>6, SumOfConstant
<1> QED BY <1>1, <1>7 DEF c

----------------------------------------------------------------------------
(* Positions are rows and columns.                                         *)
LEMMA CellOf ==
  ASSUME NEW k \in Nat, NEW d \in Nat, k < N, d < N
  PROVE  k * N + d \in Positions /\ RowOf(k * N + d) = k + 1 /\ ColOf(k * N + d) = d + 1
<1>1. N \in Nat /\ N > 0
  BY NAssumption
<1> DEFINE pos == k * N + d
           q == pos \div N
           r == pos % N
<1>2. pos \in Nat /\ k * N \in Nat
  BY <1>1
<1>3. (k + 1) * N = k * N + N /\ (k + 1) * N <= N * N
  BY <1>1
<1>4. pos \in Positions
  BY <1>1, <1>2, <1>3 DEF Positions
<1>5. q \in Int /\ r \in 0..(N - 1) /\ pos = N * q + r
  <2> HIDE DEF pos
  <2> QED BY <1>1, <1>2
<1> HIDE DEF q, r
<1>6. ~(q < k)
  <2> SUFFICES ASSUME q <= k - 1 PROVE FALSE
    BY <1>5
  <2>1. N * q <= N * (k - 1) /\ N * (k - 1) = k * N - N
    BY <1>1, <1>5
  <2> QED BY <1>1, <1>2, <1>5, <2>1
<1>7. ~(q > k)
  <2> SUFFICES ASSUME q >= k + 1 PROVE FALSE
    BY <1>5
  <2>1. N * q >= N * (k + 1) /\ N * (k + 1) = k * N + N
    BY <1>1, <1>5
  <2> QED BY <1>1, <1>2, <1>5, <2>1
<1>8. q = k
  BY <1>5, <1>6, <1>7
<1>9. r = d
  BY <1>1, <1>2, <1>5, <1>8
<1> QED BY <1>4, <1>8, <1>9 DEF RowOf, ColOf, q, r

LEMMA PositionOf ==
  ASSUME NEW pos \in Positions
  PROVE  /\ RowOf(pos) \in Size /\ ColOf(pos) \in Size
         /\ pos = N * (RowOf(pos) - 1) + (ColOf(pos) - 1)
<1> DEFINE q == pos \div N
           r == pos % N
<1>1. N \in Nat /\ N > 0 /\ pos \in Nat /\ pos < N * N
  BY NAssumption DEF Positions
<1>2. q \in Int /\ r \in 0..(N - 1) /\ pos = N * q + r
  BY <1>1
<1>3. RowOf(pos) = q + 1 /\ ColOf(pos) = r + 1
  BY DEF RowOf, ColOf
<1> HIDE DEF q, r
<1>4. ~(q < 0)
  <2> SUFFICES ASSUME q <= 0 - 1 PROVE FALSE
    BY <1>2
  <2>1. N * q <= N * (0 - 1) /\ N * (0 - 1) = 0 - N
    BY <1>1, <1>2
  <2> QED BY <1>1, <1>2, <2>1
<1>5. ~(q >= N)
  <2> SUFFICES ASSUME q >= N PROVE FALSE
    OBVIOUS
  <2>1. N * q >= N * N
    BY <1>1, <1>2
  <2> QED BY <1>1, <1>2, <2>1
<1>6. q \in 0..(N - 1)
  BY <1>1, <1>2, <1>4, <1>5
<1>7. q + 1 \in Size /\ r + 1 \in Size
  BY <1>1, <1>2, <1>6 DEF Size
<1>8. (q + 1) - 1 = q /\ (r + 1) - 1 = r
  BY <1>2
<1> QED BY <1>2, <1>3, <1>7, <1>8, Zenon

(* A tile at a position.                                                   *)
LEMMA PutWeight ==
  ASSUME NEW w \in Weights, NEW b \in Boards, NEW pos \in Positions, NEW v \in Tile
  PROVE  /\ Put(b, pos, v) \in Boards
         /\ Over(w, Put(b, pos, v)) = (Over(w, b) - w[b[RowOf(pos)][ColOf(pos)]]) + w[v]
BY PositionOf, CellWeight DEF Put

----------------------------------------------------------------------------
(* The blanks of a board are what the weight of blanks counts.             *)
IsBlank == [v \in Nat |-> IF v = 0 THEN 1 ELSE 0]
BlanksBelow(b, n) == {pos \in Positions : pos < n /\ b[RowOf(pos)][ColOf(pos)] = 0}

LEMMA NextPosition ==
  ASSUME NEW b \in Boards, NEW n \in Positions, NEW c \in Int,
         IsFiniteSet(BlanksBelow(b, n)), Cardinality(BlanksBelow(b, n)) = c
  PROVE  /\ IsFiniteSet(BlanksBelow(b, n + 1))
         /\ Cardinality(BlanksBelow(b, n + 1)) = c + IsBlank[b[RowOf(n)][ColOf(n)]]
<1>1. n \in Nat /\ b[RowOf(n)][ColOf(n)] \in Nat
  BY PositionOf DEF Positions, Boards, Tile
<1>2. n \notin BlanksBelow(b, n)
  BY <1>1 DEF BlanksBelow
<1>3. CASE b[RowOf(n)][ColOf(n)] = 0
  <2>1. BlanksBelow(b, n + 1) = BlanksBelow(b, n) \cup {n}
    BY <1>1, <1>3 DEF BlanksBelow, Positions
  <2>2. IsBlank[b[RowOf(n)][ColOf(n)]] = 1
    BY <1>1, <1>3 DEF IsBlank
  <2> QED BY <1>2, <2>1, <2>2, FS_AddElement
<1>4. CASE b[RowOf(n)][ColOf(n)] # 0
  <2>1. BlanksBelow(b, n + 1) = BlanksBelow(b, n)
    BY <1>1, <1>4 DEF BlanksBelow, Positions
  <2>2. IsBlank[b[RowOf(n)][ColOf(n)]] = 0
    BY <1>1, <1>4 DEF IsBlank
  <2> QED BY <2>1, <2>2
<1> QED BY <1>3, <1>4

LEMMA IsBlankWeight == IsBlank \in Weights /\ IsBlank[0] = 1 /\ \A v \in Nat : v # 0 => IsBlank[v] = 0
BY DEF IsBlank, Weights

(* What is counted in front of a cell: u is counted in front of its row, w *)
(* in the row.                                                             *)
Counted(b, n, c) == IsFiniteSet(BlanksBelow(b, n)) /\ Cardinality(BlanksBelow(b, n)) = c

LEMMA RowCounted ==
  ASSUME NEW b \in Boards, NEW k \in 0..(N - 1), NEW c \in Int, Counted(b, k * N, c)
  PROVE  Counted(b, (k + 1) * N, c + SumOf(Weighed(IsBlank, b[k + 1])))
<1> DEFINE row == Weighed(IsBlank, b[k + 1])
<1>1. k + 1 \in Size /\ k \in Nat /\ k < N /\ k * N \in Nat /\ (k + 1) * N = k * N + N
  BY NAssumption DEF Size
<1>2. row \in [Size -> Int]
  BY <1>1, IsBlankWeight, RowWeight DEF Boards
<1>3. PICK u : UpTo(u, row) /\ SumOf(row) = u[N]
  BY <1>2, HasSums
<1> DEFINE T == {d \in Nat : d <= N => Counted(b, k * N + d, c + u[d])}
<1>4. 0 \in T
  <2>1. k * N + 0 = k * N /\ c + u[0] = c
    BY <1>1, <1>3 DEF UpTo
  <2> QED BY <2>1
<1>5. ASSUME NEW d \in Nat, d \in T PROVE d + 1 \in T
  <2> SUFFICES ASSUME d + 1 <= N PROVE Counted(b, k * N + (d + 1), c + u[d + 1])
    OBVIOUS
  <2>1. d < N /\ d <= N /\ d + 1 \in 1..N /\ d + 1 \in Size /\ (d + 1) - 1 = d /\ d \in 0..N
    BY NAssumption DEF Size
  <2> DEFINE n == k * N + d
  <2>2. n \in Positions /\ RowOf(n) = k + 1 /\ ColOf(n) = d + 1
    BY <1>1, <2>1, CellOf
  <2>3. Counted(b, n, c + u[d]) /\ c + u[d] \in Int /\ u[d] \in Int
    BY <1>3, <1>5, <2>1 DEF UpTo
  <2>4. k * N + (d + 1) = n + 1
    BY <1>1
  <2> HIDE DEF n
  <2>5. Counted(b, n + 1, (c + u[d]) + IsBlank[b[k + 1][d + 1]])
    BY <2>2, <2>3, NextPosition DEF Counted
  <2>6. u[d + 1] = u[d] + row[d + 1] /\ row[d + 1] = IsBlank[b[k + 1][d + 1]] /\ row[d + 1] \in Int
    BY <1>2, <1>3, <2>1 DEF UpTo, Weighed
  <2>7. (c + u[d]) + IsBlank[b[k + 1][d + 1]] = c + u[d + 1]
    BY <2>3, <2>6
  <2> QED BY <2>4, <2>5, <2>7
<1>6. N \in T
  <2> HIDE DEF T
  <2> QED BY <1>4, <1>5, SetInduction, NAssumption
<1>7. Counted(b, k * N + N, c + u[N])
  BY <1>6, NAssumption
<1> HIDE DEF row
<1>8. Counted(b, (k + 1) * N, c + SumOf(row))
  BY <1>1, <1>3, <1>7, Zenon
<1> QED BY <1>8 DEF row

LEMMA BlanksCounted ==
  ASSUME NEW b \in Boards
  PROVE  IsFiniteSet(Blanks(b)) /\ Cardinality(Blanks(b)) = Over(IsBlank, b)
<1> DEFINE f == [i \in Size |-> SumOf(Weighed(IsBlank, b[i]))]
<1>1. f \in [Size -> Int]
  BY IsBlankWeight, BoardWeight
<1>2. PICK u : UpTo(u, f) /\ SumOf(f) = u[N]
  BY <1>1, HasSums
<1> DEFINE T == {k \in Nat : k <= N => Counted(b, k * N, u[k])}
<1>3. 0 \in T
  <2>1. 0 * N = 0 /\ u[0] = 0
    BY <1>2, NAssumption DEF UpTo
  <2>2. BlanksBelow(b, 0) = {}
    BY DEF BlanksBelow, Positions
  <2> QED BY <2>1, <2>2, FS_EmptySet DEF Counted
<1>4. ASSUME NEW k \in Nat, k \in T PROVE k + 1 \in T
  <2> SUFFICES ASSUME k + 1 <= N PROVE Counted(b, (k + 1) * N, u[k + 1])
    OBVIOUS
  <2>1. k \in 0..(N - 1) /\ k + 1 \in 1..N /\ k + 1 \in Size /\ (k + 1) - 1 = k /\ k <= N /\ k \in 0..N
    BY NAssumption DEF Size
  <2>2. Counted(b, k * N, u[k]) /\ u[k] \in Int
    BY <1>2, <1>4, <2>1 DEF UpTo
  <2>3. Counted(b, (k + 1) * N, u[k] + SumOf(Weighed(IsBlank, b[k + 1])))
    BY <2>1, <2>2, RowCounted
  <2>4. u[k + 1] = u[k] + f[k + 1] /\ f[k + 1] = SumOf(Weighed(IsBlank, b[k + 1]))
    BY <1>2, <2>1 DEF UpTo
  <2> HIDE DEF f
  <2> QED BY <2>3, <2>4
<1>5. N \in T
  <2> HIDE DEF T
  <2> QED BY <1>3, <1>4, SetInduction, NAssumption
<1>6. Counted(b, N * N, u[N])
  BY <1>5, NAssumption
<1>7. BlanksBelow(b, N * N) = Blanks(b)
  <2>1. \A pos \in Positions : pos < N * N
    BY NAssumption DEF Positions
  <2> QED BY <2>1 DEF BlanksBelow, Blanks
<1>8. Over(IsBlank, b) = SumOf(f)
  BY DEF Over
<1> QED BY <1>2, <1>6, <1>7, <1>8 DEF Counted

----------------------------------------------------------------------------
(* TileScore is what its recursion says.                                   *)
Halved(s, v) == IF v <= 2 THEN 0 ELSE v + 2 * s[v \div 2]
ScoredTo(s, n) == s \in [Nat -> Nat] /\ \A v \in Nat : v <= n => s[v] = Halved(s, v)

LEMMA Half ==
  ASSUME NEW v \in Nat
  PROVE  /\ v > 2 => v \div 2 \in Nat /\ v \div 2 < v
         /\ (v + v) \div 2 = v
OBVIOUS

LEMMA ScoresAgree ==
  ASSUME NEW s, NEW t, NEW n \in Nat, ScoredTo(s, n), ScoredTo(t, n)
  PROVE  \A v \in Nat : v <= n => s[v] = t[v]
<1> DEFINE T == {k \in Nat : \A v \in Nat : v <= k /\ v <= n => s[v] = t[v]}
<1>1. 0 \in T
  <2>1. ASSUME NEW v \in Nat, v <= 0 PROVE s[v] = t[v]
    <3>1. v = 0 /\ v <= 2 /\ v <= n
      BY <2>1
    <3>2. s[v] = Halved(s, v) /\ t[v] = Halved(t, v)
      BY <3>1 DEF ScoredTo
    <3> QED BY <3>1, <3>2 DEF Halved
  <2> QED BY <2>1
<1>2. ASSUME NEW k \in Nat, k \in T PROVE k + 1 \in T
  <2>1. ASSUME NEW v \in Nat, v <= k + 1, v <= n PROVE s[v] = t[v]
    <3>1. s[v] = Halved(s, v) /\ t[v] = Halved(t, v)
      BY <2>1 DEF ScoredTo
    <3>2. CASE v <= 2
      BY <3>1, <3>2 DEF Halved
    <3>3. CASE v > 2
      <4>1. v \div 2 \in Nat /\ v \div 2 <= k /\ v \div 2 <= n
        BY <2>1, <3>3, Half
      <4>2. s[v \div 2] = t[v \div 2]
        BY <1>2, <4>1
      <4> QED BY <3>1, <4>2 DEF Halved
    <3> QED BY <3>2, <3>3
  <2> QED BY <2>1
<1>3. Nat \subseteq T
  <2> HIDE DEF T
  <2> QED BY <1>1, <1>2, SetInduction
<1>4. n \in T
  BY <1>3
<1> QED BY <1>4

LEMMA ScoresBegin == \A n \in Nat : \E s : ScoredTo(s, n)
<1> DEFINE T == {n \in Nat : \E s : ScoredTo(s, n)}
<1>1. 0 \in T
  <2> DEFINE s == [v \in Nat |-> 0]
  <2>1. s \in [Nat -> Nat] /\ s[0] = 0
    OBVIOUS
  <2>2. \A v \in Nat : v <= 0 => v = 0
    OBVIOUS
  <2> HIDE DEF s
  <2>3. ScoredTo(s, 0)
    BY <2>1, <2>2 DEF ScoredTo, Halved
  <2> QED BY <2>3
<1>2. ASSUME NEW n \in Nat, n \in T PROVE n + 1 \in T
  <2>1. PICK s : ScoredTo(s, n)
    BY <1>2
  <2> DEFINE t == [s EXCEPT ![n + 1] = Halved(s, n + 1)]
  <2>2. Halved(s, n + 1) \in Nat
    BY <2>1, Half DEF Halved, ScoredTo
  <2>3. t \in [Nat -> Nat] /\ t[n + 1] = Halved(s, n + 1) /\ \A v \in Nat : v # n + 1 => t[v] = s[v]
    BY <2>1, <2>2 DEF ScoredTo
  <2> HIDE DEF t
  <2>4. ASSUME NEW v \in Nat, v <= n + 1 PROVE t[v] = Halved(t, v)
    <3>1. v > 2 => t[v \div 2] = s[v \div 2]
      <4>1. v > 2 => v \div 2 \in Nat /\ v \div 2 # n + 1
        BY <2>4, Half
      <4> QED BY <2>3, <4>1
    <3>2. Halved(t, v) = Halved(s, v)
      BY <3>1 DEF Halved
    <3>3. CASE v = n + 1
      BY <2>3, <3>2, <3>3
    <3>4. CASE v # n + 1
      <4>1. v <= n
        BY <2>4, <3>4
      <4>2. t[v] = s[v] /\ s[v] = Halved(s, v)
        BY <2>1, <2>3, <3>4, <4>1 DEF ScoredTo
      <4> QED BY <3>2, <4>2
    <3> QED BY <3>3, <3>4
  <2>5. ScoredTo(t, n + 1)
    BY <2>3, <2>4 DEF ScoredTo
  <2> QED BY <2>5
<1>3. Nat \subseteq T
  <2> HIDE DEF T
  <2> QED BY <1>1, <1>2, SetInduction
<1> QED BY <1>3

LEMMA TileScores ==
  /\ TileScore \in Weights
  /\ \A v \in Nat : TileScore[v] = Halved(TileScore, v)
<1> DEFINE Scored(n) == CHOOSE s : ScoredTo(s, n)
           all == [n \in Nat |-> Scored(n)[n]]
           rec == CHOOSE s : s = [v \in Nat |-> Halved(s, v)]
<1>1. \A n \in Nat : ScoredTo(Scored(n), n)
  BY ScoresBegin
<1> HIDE DEF Scored
<1>2. all \in [Nat -> Nat]
  BY <1>1 DEF ScoredTo
<1>3. ASSUME NEW v \in Nat PROVE all[v] = Halved(all, v)
  <2>1. Scored(v)[v] = Halved(Scored(v), v)
    BY <1>1 DEF ScoredTo
  <2>2. CASE v <= 2
    BY <2>1, <2>2 DEF Halved
  <2>3. CASE v > 2
    <3> DEFINE h == v \div 2
    <3>1. h \in Nat /\ h <= v /\ h <= h
      BY <2>3, Half
    <3> HIDE DEF h
    <3>2. ScoredTo(Scored(v), h) /\ ScoredTo(Scored(h), h)
      BY <1>1, <3>1 DEF ScoredTo
    <3>3. Scored(v)[h] = Scored(h)[h]
      BY <3>1, <3>2, ScoresAgree
    <3>4. Scored(v)[h] = all[h] /\ all[v] = Scored(v)[v]
      BY <3>1, <3>3
    <3>5. Halved(Scored(v), v) = Halved(all, v)
      <4> HIDE DEF all
      <4> QED BY <3>4 DEF Halved, h
    <3> QED BY <2>1, <3>4, <3>5
  <2> QED BY <2>2, <2>3
<1>4. all = [v \in Nat |-> Halved(all, v)]
  <2> HIDE DEF all
  <2> QED BY <1>2, <1>3
<1>5. rec = [v \in Nat |-> Halved(rec, v)]
  <2> HIDE DEF all
  <2> QED BY <1>4
<1>6. TileScore = rec
  BY DEF TileScore, Halved
<1> HIDE DEF all, rec
<1>7. \A v \in Nat : rec[v] = Halved(rec, v)
  BY <1>5
<1>8. rec \in [Nat -> Nat]
  <2> DEFINE T == {k \in Nat : \A v \in Nat : v <= k => rec[v] \in Nat}
  <2>1. 0 \in T
    <3>1. \A v \in Nat : v <= 0 => v <= 2
      OBVIOUS
    <3> QED BY <1>7, <3>1 DEF Halved
  <2>2. ASSUME NEW k \in Nat, k \in T PROVE k + 1 \in T
    <3>1. ASSUME NEW v \in Nat, v <= k + 1 PROVE rec[v] \in Nat
      <4>1. CASE v <= 2
        BY <1>7, <4>1 DEF Halved
      <4>2. CASE v > 2
        <5>1. v \div 2 \in Nat /\ v \div 2 <= k
          BY <3>1, <4>2, Half
        <5>2. rec[v \div 2] \in Nat
          BY <2>2, <5>1
        <5>3. rec[v] = Halved(rec, v) /\ ~ (v <= 2)
          BY <1>7, <4>2
        <5>4. rec[v] = v + 2 * rec[v \div 2]
          BY <5>3 DEF Halved
        <5>5. \A m \in Nat : v + 2 * m \in Nat
          OBVIOUS
        <5> QED BY <5>2, <5>4, <5>5
      <4> QED BY <4>1, <4>2
    <3> QED BY <3>1
  <2>3. Nat \subseteq T
    <3> HIDE DEF T
    <3> QED BY <2>1, <2>2, SetInduction
  <2>4. \A v \in Nat : v <= v
    OBVIOUS
  <2>5. \A v \in Nat : rec[v] \in Nat
    BY <2>3, <2>4
  <2> QED BY <1>5, <2>5
<1> QED BY <1>6, <1>7, <1>8 DEF Weights

(* Two tiles that merge are worth their sum less than what they become.    *)
LEMMA MergeScore ==
  /\ TileScore[0] = 0 /\ TileScore[2] = 0 /\ TileScore[4] = 4
  /\ \A v \in Nat : v >= 2 => TileScore[v + v] = 2 * v + 2 * TileScore[v]
<1>1. TileScore[0] = 0 /\ TileScore[2] = 0
  BY TileScores DEF Halved
<1>2. ASSUME NEW v \in Nat, v >= 2 PROVE TileScore[v + v] = 2 * v + 2 * TileScore[v]
  <2>1. v + v \in Nat /\ ~(v + v <= 2) /\ (v + v) \div 2 = v
    BY <1>2, Half
  <2>2. TileScore[v + v] = (v + v) + 2 * TileScore[v]
    BY <2>1, TileScores DEF Halved
  <2>3. TileScore[v] \in Nat
    BY TileScores DEF Weights
  <2> QED BY <2>2, <2>3
<1>3. TileScore[2 + 2] = 2 * 2 + 2 * TileScore[2]
  BY <1>2
<1> QED BY <1>1, <1>2, <1>3

----------------------------------------------------------------------------
(* What a merge of two tiles v adds to a counter, by the weight that the   *)
(* counter follows: nothing to the sum of the board, a blank to blank_num, *)
(* the new tile to the score.                                              *)
Counters == {"none", "freed", "gained"}
Extra(c, v) == IF c = "none" THEN 0 ELSE IF c = "freed" THEN 1 ELSE 2 * v
Gain(c, s) == IF c = "none" THEN 0 ELSE IF c = "freed" THEN s.freed ELSE s.gained
Follows(c, w) ==
  /\ c \in Counters /\ w \in Weights
  /\ \A v \in Nat : v >= 2 => w[v + v] + w[0] = (w[v] + w[v]) + Extra(c, v)

LEMMA WhatFollows ==
  /\ Follows("none", [v \in Nat |-> v])
  /\ Follows("freed", IsBlank)
  /\ Follows("gained", TileScore)
<1>1. Follows("none", [v \in Nat |-> v])
  BY DEF Follows, Counters, Weights, Extra
<1>2. Follows("freed", IsBlank)
  <2>1. ASSUME NEW v \in Nat, v >= 2
        PROVE  IsBlank[v + v] + IsBlank[0] = (IsBlank[v] + IsBlank[v]) + 1
    <3>1. v # 0 /\ v + v # 0 /\ v + v \in Nat
      BY <2>1
    <3> QED BY <3>1, IsBlankWeight
  <2> QED BY <2>1, IsBlankWeight DEF Follows, Counters, Extra
<1>3. Follows("gained", TileScore)
  <2>1. ASSUME NEW v \in Nat, v >= 2
        PROVE  TileScore[v + v] + TileScore[0] = (TileScore[v] + TileScore[v]) + 2 * v
    <3>1. TileScore[v] \in Nat
      BY TileScores DEF Weights
    <3> QED BY <2>1, <3>1, MergeScore
  <2> QED BY <2>1, TileScores DEF Follows, Counters, Extra
<1> QED BY <1>1, <1>2, <1>3

Placed(row, a, x, b, y) == [row EXCEPT ![a] = x, ![b] = y]
PlacedWeight(w, row, a, x, b, y) ==
  SumOf(Weighed(w, Placed(row, a, x, b, y)))
    = (((SumOf(Weighed(w, row)) - w[row[a]]) + w[x]) - w[row[b]]) + w[y]

LEMMA TwoCells ==
  ASSUME NEW w \in Weights, NEW row \in [Size -> Tile], NEW a \in Size, NEW b \in Size, a # b,
         NEW x \in Tile, NEW y \in Tile
  PROVE  /\ Placed(row, a, x, b, y) \in [Size -> Tile]
         /\ PlacedWeight(w, row, a, x, b, y)
<1> DEFINE r == [row EXCEPT ![a] = x]
           q == [row EXCEPT ![a] = x, ![b] = y]
           F(z) == Weighed(w, z)
<1>1. /\ r \in [Size -> Tile] /\ r[a] = x /\ r[b] = row[b] /\ \A k \in Size : k # a => r[k] = row[k]
      /\ q \in [Size -> Tile] /\ q[b] = y /\ \A k \in Size : k # b => q[k] = r[k]
  OBVIOUS
<1> HIDE DEF r, q
<1>2. \A z \in [Size -> Tile] : F(z) \in [Size -> Int] /\ SumOf(F(z)) \in Int
  <2>1. ASSUME NEW z \in [Size -> Tile] PROVE F(z) \in [Size -> Int] /\ SumOf(F(z)) \in Int
    BY RowWeight
  <2> QED BY <2>1
<1>3. \A z \in [Size -> Tile] : \A k \in Size : F(z)[k] = w[z[k]] /\ w[z[k]] \in Int
  BY DEF Weighed, Weights, Tile
<1>4. \A k \in Size : k # a => F(r)[k] = F(row)[k]
  BY <1>1, <1>3
<1>5. \A k \in Size : k # b => F(q)[k] = F(r)[k]
  BY <1>1, <1>3
<1> HIDE DEF F
<1>6. SumOf(F(r)) = (SumOf(F(row)) - F(row)[a]) + F(r)[a]
  BY <1>1, <1>2, <1>4, SumUpdates
<1>7. SumOf(F(q)) = (SumOf(F(r)) - F(r)[b]) + F(q)[b]
  BY <1>1, <1>2, <1>5, SumUpdates
<1>8. /\ F(row)[a] = w[row[a]] /\ F(r)[a] = w[x] /\ F(r)[b] = w[row[b]] /\ F(q)[b] = w[y]
      /\ w[row[a]] \in Int /\ w[x] \in Int /\ w[row[b]] \in Int /\ w[y] \in Int
  BY <1>1, <1>3
<1>9. SumOf(F(q)) = (((SumOf(F(row)) - w[row[a]]) + w[x]) - w[row[b]]) + w[y]
  BY <1>6, <1>7, <1>8
<1> QED BY <1>1, <1>9 DEF F, q, Placed, PlacedWeight

(* A row while it is scanned.                                              *)
Scans == [row : [Size -> Tile], i : Nat, moved : BOOLEAN, freed : Nat, gained : Nat]
Scanned(s, j) ==
  /\ s \in Scans /\ s.i \in 1..j
  /\ s.moved => \E k \in Size : s.row[k] = 0
KeptBy(c, w, s, t) ==
  SumOf(Weighed(w, t.row)) + Gain(c, s) = SumOf(Weighed(w, s.row)) + Gain(c, t)
Kept(s, t) == \A c, w : Follows(c, w) => KeptBy(c, w, s, t)

LEMMA NothingKept ==
  ASSUME NEW s \in Scans, NEW t, t.row = s.row, t.freed = s.freed, t.gained = s.gained
  PROVE  Kept(s, t)
BY DEF Kept, KeptBy, Gain

Shifted(s, row, i, m) == [s EXCEPT !.row = row, !.i = i, !.moved = m]
Combined(s, row, i, m, f, g) ==
  [s EXCEPT !.row = row, !.i = i, !.moved = m, !.freed = f, !.gained = g]

HasFields(t, row, i, f, g) ==
  t \in Scans /\ t.row = row /\ t.i = i /\ t.freed = f /\ t.gained = g

LEMMA ShiftedFields ==
  ASSUME NEW s \in Scans, NEW row \in [Size -> Tile], NEW i \in Nat, NEW m \in BOOLEAN
  PROVE  HasFields(Shifted(s, row, i, m), row, i, s.freed, s.gained)
BY DEF Scans, Shifted, HasFields

LEMMA CombinedFields ==
  ASSUME NEW s \in Scans, NEW row \in [Size -> Tile], NEW i \in Nat, NEW m \in BOOLEAN,
         NEW f \in Nat, NEW g \in Nat
  PROVE  HasFields(Combined(s, row, i, m, f, g), row, i, f, g)
BY DEF Scans, Combined, HasFields

LEMMA ShiftStep ==
  ASSUME NEW s, NEW j \in 2..N, Scanned(s, j - 1), NEW to \in s.i .. (s.i + 1), s.row[to] = 0
  PROVE  Scanned(Shift(s, to, j), j) /\ Kept(s, Shift(s, to, j))
<1> DEFINE row == Placed(s.row, to, s.row[j], j, 0)
           m == s.moved \/ s.row[j] # 0
           t == Shift(s, to, j)
<1>1. /\ s \in Scans /\ s.row \in [Size -> Tile] /\ s.i \in 1..(j - 1) /\ j \in Size
      /\ to \in 1..j /\ to \in Size /\ s.row[j] \in Tile /\ 0 \in Tile
  BY NAssumption DEF Scanned, Scans, Size, Tile
<1>2. t = Shifted(s, row, to, m)
  BY DEF Shift, Shifted, Placed
<1>3. row \in [Size -> Tile] /\ row[j] = 0 /\ m \in BOOLEAN
  BY <1>1 DEF Placed
<1> HIDE DEF row, m, t
<1>6. /\ t \in Scans /\ t.row = row /\ t.i = to
      /\ t.freed = s.freed /\ t.gained = s.gained
  <2>1. to \in Nat
    BY <1>1
  <2>2. HasFields(t, row, to, s.freed, s.gained)
    BY <1>1, <1>2, <1>3, <2>1, ShiftedFields, Zenon
  <2> QED BY <2>2 DEF HasFields
<1>4. Scanned(t, j)
  BY <1>1, <1>3, <1>6 DEF Scanned
<1>5. Kept(s, t)
  <2>1. CASE to = j
    <3>1. row = s.row
      BY <1>1, <2>1 DEF row, Placed
    <3> QED BY <1>1, <1>6, <3>1, NothingKept
  <2>2. CASE to # j
    <3>1. ASSUME NEW c, NEW w, Follows(c, w) PROVE KeptBy(c, w, s, t)
      <4>1. w \in Weights
        BY <3>1 DEF Follows
      <4>2. SumOf(Weighed(w, row)) = (((SumOf(Weighed(w, s.row)) - w[s.row[to]]) + w[s.row[j]]) - w[s.row[j]]) + w[0]
        <5>1. PlacedWeight(w, s.row, to, s.row[j], j, 0)
          BY <1>1, <2>2, <4>1, TwoCells
        <5> QED BY <5>1, Zenon DEF PlacedWeight, row
      <4>3. w[s.row[j]] \in Int /\ w[0] \in Int /\ SumOf(Weighed(w, s.row)) \in Int
        BY <1>1, <4>1, RowWeight DEF Weights, Tile
      <4>4. SumOf(Weighed(w, row)) = SumOf(Weighed(w, s.row))
        BY <4>2, <4>3
      <4> QED BY <1>6, <4>4 DEF KeptBy, Gain
    <3> QED BY <3>1 DEF Kept
  <2> QED BY <2>1, <2>2
<1> QED BY <1>4, <1>5 DEF t

LEMMA CombineStep ==
  ASSUME NEW s, NEW j \in 2..N, Scanned(s, j - 1), s.row[s.i] # 0, s.row[s.i] = s.row[j]
  PROVE  Scanned(Combine(s, j), j) /\ Kept(s, Combine(s, j))
<1> DEFINE v == s.row[j]
           row == Placed(s.row, s.i, v + v, j, 0)
           t == Combine(s, j)
<1>1. /\ s \in Scans /\ s.row \in [Size -> Tile] /\ s.i \in 1..(j - 1)
      /\ s.freed \in Nat /\ s.gained \in Nat
  BY DEF Scanned, Scans
<1>7. /\ j \in Size /\ s.i \in Size /\ s.i # j /\ s.i + 1 \in 1..j /\ s.i + 1 \in Nat
  BY <1>1, NAssumption DEF Size
<1>8. v \in Tile /\ v # 0 /\ s.row[s.i] = v
  BY <1>1, <1>7
<1> HIDE DEF v
<1>9. v \in Nat /\ v >= 2 /\ v + v \in Tile /\ 0 \in Tile
  BY <1>8 DEF Tile
<1>3. row \in [Size -> Tile] /\ row[j] = 0
  BY <1>1, <1>7, <1>9 DEF Placed
<1>2. /\ t \in Scans /\ t.row = row /\ t.i = s.i + 1
      /\ t.freed = s.freed + 1 /\ t.gained = s.gained + 2 * v
  <2>1. t = Combined(s, Placed(s.row, s.i, s.row[s.i] + s.row[j], j, 0), s.i + 1, TRUE,
                     s.freed + 1, s.gained + 2 * s.row[j])
    BY DEF Combine, Combined, Placed
  <2>3. t = Combined(s, row, s.i + 1, TRUE, s.freed + 1, s.gained + 2 * v)
    <3>1. s.row[s.i] = v /\ s.row[j] = v
      BY <1>8 DEF v
    <3> QED BY <2>1, <3>1
  <2> HIDE DEF row, t
  <2>2. s.freed + 1 \in Nat /\ s.gained + 2 * v \in Nat
    BY <1>1, <1>9
  <2>4. HasFields(t, row, s.i + 1, s.freed + 1, s.gained + 2 * v)
    BY <1>1, <1>3, <1>7, <2>2, <2>3, TRUE \in BOOLEAN, CombinedFields, Zenon
  <2> QED BY <2>4 DEF HasFields
<1> HIDE DEF row, t
<1>5. Scanned(t, j)
  BY <1>2, <1>3, <1>7 DEF Scanned
<1>6. ASSUME NEW c, NEW w, Follows(c, w) PROVE KeptBy(c, w, s, t)
  <2>1. w \in Weights /\ c \in Counters /\ w[v + v] + w[0] = (w[v] + w[v]) + Extra(c, v)
    BY <1>6, <1>9 DEF Follows
  <2>2. SumOf(Weighed(w, row)) = (((SumOf(Weighed(w, s.row)) - w[v]) + w[v + v]) - w[v]) + w[0]
    <3>1. SumOf(Weighed(w, row))
            = (((SumOf(Weighed(w, s.row)) - w[s.row[s.i]]) + w[v + v]) - w[s.row[j]]) + w[0]
      <4>1. PlacedWeight(w, s.row, s.i, v + v, j, 0)
        BY <1>1, <1>7, <1>9, <2>1, TwoCells
      <4> QED BY <4>1, Zenon DEF PlacedWeight, row
    <3> QED BY <1>8, <3>1 DEF v
  <2>3. /\ w[v] \in Int /\ w[v + v] \in Int /\ w[0] \in Int /\ SumOf(Weighed(w, s.row)) \in Int
        /\ Extra(c, v) \in Int
    BY <1>1, <1>9, <2>1, RowWeight DEF Weights, Tile, Extra
  <2>4. SumOf(Weighed(w, row)) = SumOf(Weighed(w, s.row)) + Extra(c, v)
    BY <2>1, <2>2, <2>3
  <2>5. Gain(c, t) = Gain(c, s) + Extra(c, v) /\ Gain(c, s) \in Int /\ t.row = row
    BY <1>1, <1>2, <1>9, <2>1 DEF Gain, Extra, Counters
  <2> QED BY <2>3, <2>4, <2>5 DEF KeptBy
<1> QED BY <1>5, <1>6 DEF Kept, t

LEMMA ScanStep ==
  ASSUME NEW s, NEW j \in 2..N, Scanned(s, j - 1)
  PROVE  /\ Scanned(s, j) /\ Kept(s, s)
         /\ Scanned(Scan(s, j), j) /\ Kept(s, Scan(s, j))
<1>1. s \in Scans /\ s.i \in 1..(j - 1) /\ s.i \in s.i .. (s.i + 1) /\ s.i + 1 \in s.i .. (s.i + 1)
  BY DEF Scanned
<1>2. Scanned(s, j) /\ Kept(s, s)
  <2>1. Kept(s, s)
    BY <1>1, NothingKept
  <2> QED BY <1>1, <2>1 DEF Scanned
<1>3. CASE s.row[s.i] = 0
  <2>1. Scan(s, j) = Shift(s, s.i, j)
    BY <1>3 DEF Scan
  <2>2. Scanned(Shift(s, s.i, j), j) /\ Kept(s, Shift(s, s.i, j))
    BY <1>1, <1>3, ShiftStep
  <2> QED BY <1>2, <2>1, <2>2
<1>4. CASE s.row[s.i] # 0 /\ s.row[s.i] = s.row[j]
  <2>1. Scan(s, j) = Combine(s, j)
    BY <1>4 DEF Scan
  <2>2. Scanned(Combine(s, j), j) /\ Kept(s, Combine(s, j))
    BY <1>4, CombineStep
  <2> QED BY <1>2, <2>1, <2>2
<1>5. CASE s.row[s.i] # 0 /\ s.row[s.i] # s.row[j] /\ s.row[s.i + 1] = 0
  <2>1. Scan(s, j) = Shift(s, s.i + 1, j)
    BY <1>5 DEF Scan
  <2>2. Scanned(Shift(s, s.i + 1, j), j) /\ Kept(s, Shift(s, s.i + 1, j))
    BY <1>1, <1>5, ShiftStep
  <2> QED BY <1>2, <2>1, <2>2
<1>6. CASE s.row[s.i] # 0 /\ s.row[s.i] # s.row[j] /\ s.row[s.i + 1] # 0
  <2> DEFINE t == [s EXCEPT !.i = @ + 1]
  <2>1. /\ t = Scan(s, j) /\ t \in Scans /\ t.i = s.i + 1 /\ t.i \in 1..j
        /\ t.row = s.row /\ t.moved = s.moved /\ t.freed = s.freed /\ t.gained = s.gained
    BY <1>1, <1>6 DEF Scan, Scans
  <2> HIDE DEF t
  <2>2. Kept(s, t)
    BY <1>1, <2>1, NothingKept
  <2>3. Scanned(t, j)
    BY <2>1 DEF Scanned
  <2> QED BY <1>2, <2>1, <2>2, <2>3
<1> QED BY <1>2, <1>3, <1>4, <1>5, <1>6

LEMMA KeptThrough ==
  ASSUME NEW r \in Scans, NEW s \in Scans, NEW t \in Scans, Kept(r, s), Kept(s, t)
  PROVE  Kept(r, t)
<1>1. ASSUME NEW c, NEW w, Follows(c, w) PROVE KeptBy(c, w, r, t)
  <2>1. w \in Weights /\ c \in Counters
    BY <1>1 DEF Follows
  <2>2. KeptBy(c, w, r, s) /\ KeptBy(c, w, s, t)
    BY <1>1 DEF Kept
  <2>3. \A x \in Scans : Gain(c, x) \in Int /\ SumOf(Weighed(w, x.row)) \in Int
    <3>1. ASSUME NEW x \in Scans PROVE Gain(c, x) \in Int /\ SumOf(Weighed(w, x.row)) \in Int
      <4>1. x.row \in [Size -> Tile] /\ x.freed \in Int /\ x.gained \in Int
        BY DEF Scans
      <4> QED BY <2>1, <4>1, RowWeight DEF Gain
    <3> QED BY <3>1
  <2>4. /\ Gain(c, r) \in Int /\ SumOf(Weighed(w, r.row)) \in Int
        /\ Gain(c, s) \in Int /\ SumOf(Weighed(w, s.row)) \in Int
        /\ Gain(c, t) \in Int /\ SumOf(Weighed(w, t.row)) \in Int
    BY <2>3
  <2> DEFINE R == SumOf(Weighed(w, r.row))  S == SumOf(Weighed(w, s.row))
             T == SumOf(Weighed(w, t.row))
  <2>5. S + Gain(c, r) = R + Gain(c, s) /\ T + Gain(c, s) = S + Gain(c, t)
    BY <2>2 DEF KeptBy
  <2>6. R \in Int /\ S \in Int /\ T \in Int
    BY <2>4
  <2> HIDE DEF R, S, T
  <2>7. T + Gain(c, r) = R + Gain(c, t)
    BY <2>4, <2>5, <2>6
  <2> QED BY <2>7 DEF KeptBy, R, T
<1> QED BY <1>1 DEF Kept

(* Rows of any length.                                                     *)
IsRow(row, L) == L \in Nat /\ L >= 1 /\ row \in [1..L -> Nat]

LEMMA RowIs ==
  ASSUME NEW row, NEW L, IsRow(row, L)
  PROVE  /\ L \in Nat /\ L >= 1 /\ Len(row) = L /\ DOMAIN row = 1..L
         /\ \A j \in 1..L : row[j] \in Nat
<1>1. L \in Nat /\ L >= 1 /\ row \in [1..L -> Nat]
  BY DEF IsRow
<1>2. row \in Seq(Nat)
  BY <1>1
<1>3. Len(row) \in Nat /\ DOMAIN row = 1..Len(row) /\ DOMAIN row = 1..L
  BY <1>1, <1>2
<1> QED BY <1>1, <1>3

(* The rounds of the scan.                                                 *)
Start(row) == [row |-> row, i |-> 1, moved |-> FALSE, freed |-> 0, gained |-> 0]
Round(p, row, f, j) ==
  IF j = 1 THEN Start(row)
  ELSE IF p = "c" THEN ScanC(f[j - 1], j) ELSE ScanCpp(f[j - 1], j)
Rounds(p, row, L, f, n) == DOMAIN f = 1..L /\ \A j \in 1..L : j <= n => f[j] = Round(p, row, f, j)

LEMMA RoundsExist ==
  ASSUME NEW p, NEW row, NEW L \in Nat
  PROVE  \E f : f = [j \in 1..L |-> Round(p, row, f, j)]
<1> DEFINE T == {n \in Nat : \E f : f = [j \in 1..L |-> f[j]] /\ Rounds(p, row, L, f, n)}
<1>1. 0 \in T
  <2> DEFINE f == [j \in 1..L |-> 0]
  <2>1. f = [j \in 1..L |-> f[j]]
    OBVIOUS
  <2>2. Rounds(p, row, L, f, 0)
    BY DEF Rounds
  <2> HIDE DEF f
  <2> QED BY <2>1, <2>2
<1>2. ASSUME NEW n \in Nat, n \in T PROVE n + 1 \in T
  <2>1. PICK f : f = [j \in 1..L |-> f[j]] /\ Rounds(p, row, L, f, n)
    BY <1>2
  <2> DEFINE g == [j \in 1..L |-> IF j = n + 1 THEN Round(p, row, f, n + 1) ELSE f[j]]
  <2>2. g = [j \in 1..L |-> g[j]] /\ DOMAIN g = 1..L
    OBVIOUS
  <2>3. ASSUME NEW j \in 1..L, j <= n + 1 PROVE g[j] = Round(p, row, g, j)
    <3>1. j # 1 => j - 1 \in 1..L /\ j - 1 # n + 1
      BY <2>3
    <3>2. j # 1 => g[j - 1] = f[j - 1]
      BY <3>1
    <3> HIDE DEF g
    <3>3. Round(p, row, g, j) = Round(p, row, f, j)
      BY <3>2 DEF Round
    <3>4. CASE j = n + 1
      BY <3>3, <3>4 DEF g
    <3>5. CASE j # n + 1
      <4>1. j <= n
        BY <2>3, <3>5
      <4>2. g[j] = f[j]
        BY <3>5 DEF g
      <4> QED BY <2>1, <3>3, <4>1, <4>2 DEF Rounds
    <3> QED BY <3>4, <3>5
  <2> HIDE DEF g
  <2>4. Rounds(p, row, L, g, n + 1)
    BY <2>2, <2>3 DEF Rounds
  <2> QED BY <2>2, <2>4
<1>3. L \in T
  <2> HIDE DEF T
  <2> QED BY <1>1, <1>2, SetInduction
<1>4. PICK f : f = [j \in 1..L |-> f[j]] /\ Rounds(p, row, L, f, L)
  BY <1>3
<1>5. \A j \in 1..L : f[j] = Round(p, row, f, j)
  BY <1>4 DEF Rounds
<1>6. f = [j \in 1..L |-> Round(p, row, f, j)]
  BY <1>4, <1>5, Zenon
<1> QED BY <1>6

LEMMA MoveRowUnfolds ==
  ASSUME NEW p, NEW row, NEW L, IsRow(row, L)
  PROVE  \E f : MoveRow(p, row) = f[L] /\ \A j \in 1..L : f[j] = Round(p, row, f, j)
<1> DEFINE f == CHOOSE g : g = [j \in 1..L |-> Round(p, row, g, j)]
<1>1. L \in Nat /\ Len(row) = L
  BY RowIs
<1>2. f = [j \in 1..L |-> Round(p, row, f, j)]
  BY <1>1, RoundsExist
<1>3. MoveRow(p, row) = f[L]
  BY <1>1 DEF MoveRow, Round, Start
<1> HIDE DEF f
<1>4. \A j \in 1..L : f[j] = Round(p, row, f, j)
  BY <1>2
<1> QED BY <1>3, <1>4

(* What a row move keeps (2048.c:159-190, 2048.cpp:118-143).               *)
LEMMA RowMoves ==
  ASSUME NEW p, NEW row \in [Size -> Tile]
  PROVE  /\ MoveRow(p, row) \in Scans
         /\ MoveRow(p, row).moved => \E k \in Size : MoveRow(p, row).row[k] = 0
         /\ Kept(Start(row), MoveRow(p, row))
<1>1. PICK f : MoveRow(p, row) = f[N] /\ \A j \in Size : f[j] = Round(p, row, f, j)
  <2>1. IsRow(row, N)
    BY NAssumption DEF Size, Tile, IsRow
  <2> QED BY <2>1, MoveRowUnfolds DEF Size
<1>2. 1 \in Size /\ N \in Size /\ N \in Nat
  BY NAssumption DEF Size
<1>3. Start(row) \in Scans /\ Scanned(Start(row), 1)
  <2>1. Start(row) \in Scans
    BY DEF Start, Scans
  <2>2. Start(row).i = 1 /\ ~Start(row).moved
    BY DEF Start
  <2> QED BY <2>1, <2>2 DEF Scanned
<1> DEFINE T == {n \in Nat : n \in Size => Scanned(f[n], n) /\ Kept(Start(row), f[n])}
<1>4. 0 \in T
  BY DEF Size
<1>5. ASSUME NEW n \in Nat, n \in T PROVE n + 1 \in T
  <2> SUFFICES ASSUME n + 1 \in Size
               PROVE  Scanned(f[n + 1], n + 1) /\ Kept(Start(row), f[n + 1])
    OBVIOUS
  <2>1. CASE n = 0
    <3>1. n + 1 = 1
      BY <2>1
    <3>2. f[1] = Start(row)
      BY <1>1, <1>2 DEF Round
    <3>3. Kept(Start(row), Start(row))
      BY <1>3, NothingKept
    <3> QED BY <1>3, <3>1, <3>2, <3>3
  <2>2. CASE n # 0
    <3> DEFINE j == n + 1
    <3>1. n \in Size /\ j \in 2..N /\ j \in Size /\ j # 1 /\ j - 1 = n
      BY <2>2, NAssumption DEF Size
    <3>2. Scanned(f[n], n) /\ Kept(Start(row), f[n])
      BY <1>5, <3>1
    <3> HIDE DEF j
    <3>3. f[j] = Round(p, row, f, j)
      BY <1>1, <3>1
    <3>4. f[j] \in {f[n], Scan(f[n], j)}
      BY <3>1, <3>3 DEF Round, ScanC, ScanCpp
    <3>5. Scanned(f[n], j) /\ Kept(f[n], f[n]) /\ Scanned(Scan(f[n], j), j) /\ Kept(f[n], Scan(f[n], j))
      BY <3>1, <3>2, ScanStep
    <3>6. Scanned(f[j], j) /\ Kept(f[n], f[j])
      BY <3>4, <3>5
    <3>7. f[n] \in Scans /\ f[j] \in Scans
      BY <3>2, <3>6 DEF Scanned
    <3>8. Kept(Start(row), f[j])
      BY <1>3, <3>2, <3>6, <3>7, KeptThrough
    <3> QED BY <3>6, <3>8 DEF j
  <2> QED BY <2>1, <2>2
<1>6. N \in T
  <2> HIDE DEF T
  <2> QED BY <1>2, <1>4, <1>5, SetInduction
<1>7. Scanned(f[N], N) /\ Kept(Start(row), f[N])
  BY <1>2, <1>6
<1> QED BY <1>1, <1>7 DEF Scanned

----------------------------------------------------------------------------
(* What a move of the whole board keeps, whichever way it goes.            *)
Outcomes == [board : Boards, moved : BOOLEAN, freed : Nat, gained : Nat]
HasBlank(b) == \E i, j \in Size : b[i][j] = 0
Weighs(b, m) == \A c, w : Follows(c, w) => Over(w, m.board) = Over(w, b) + Gain(c, m)
Keeps(b, m) == m \in Outcomes /\ (m.moved => HasBlank(m.board)) /\ Weighs(b, m)

LEMMA LeftKeeps ==
  ASSUME NEW p, NEW b \in Boards
  PROVE  Keeps(b, MoveLeft(p, b))
<1> DEFINE done == [k \in Size |-> MoveRow(p, b[k])]
           m == MoveLeft(p, b)
<1>1. ASSUME NEW k \in Size
      PROVE  /\ done[k] \in Scans /\ Kept(Start(b[k]), done[k])
             /\ done[k].moved => \E j \in Size : done[k].row[j] = 0
  <2>1. b[k] \in [Size -> Tile]
    BY DEF Boards
  <2> QED BY <2>1, RowMoves
<1>2. m = [board  |-> [k \in Size |-> done[k].row],
           moved  |-> \E k \in Size : done[k].moved,
           freed  |-> SumOf([k \in Size |-> done[k].freed]),
           gained |-> SumOf([k \in Size |-> done[k].gained])]
  BY DEF MoveLeft
<1> HIDE DEF done
<1> DEFINE freed == [k \in Size |-> done[k].freed]
           gained == [k \in Size |-> done[k].gained]
           rows == [k \in Size |-> done[k].row]
           some == \E k \in Size : done[k].moved
<1>3. rows \in Boards /\ freed \in [Size -> Nat] /\ gained \in [Size -> Nat] /\ some \in BOOLEAN
  BY <1>1 DEF Boards, Scans
<1>4. SumOf(freed) \in Nat /\ SumOf(gained) \in Nat
  BY <1>3, SumIsNat
<1>5. some => HasBlank(rows)
  BY <1>1 DEF HasBlank
<1> HIDE DEF freed, gained, rows, some
<1>6. m = [board |-> rows, moved |-> some, freed |-> SumOf(freed), gained |-> SumOf(gained)]
  BY <1>2 DEF freed, gained, rows, some
<1> HIDE DEF m
<1>7. /\ m \in Outcomes /\ m.board = rows /\ m.freed = SumOf(freed) /\ m.gained = SumOf(gained)
      /\ m.moved = some
  BY <1>3, <1>4, <1>6 DEF Outcomes
<1>8. ASSUME NEW c, NEW w, Follows(c, w) PROVE Over(w, m.board) = Over(w, b) + Gain(c, m)
  <2> DEFINE f == [k \in Size |-> SumOf(Weighed(w, b[k]))]
             h == [k \in Size |-> SumOf(Weighed(w, rows[k]))]
             g == [k \in Size |-> Gain(c, done[k])]
  <2>1. w \in Weights /\ c \in Counters
    BY <1>8 DEF Follows
  <2>2. g \in [Size -> Int]
    BY <1>1, <2>1 DEF Gain, Scans, Counters
  <2>3. f \in [Size -> Int] /\ h \in [Size -> Int]
    BY <1>3, <2>1, BoardWeight
  <2>4. ASSUME NEW k \in Size PROVE h[k] = f[k] + g[k]
    <3>1. KeptBy(c, w, Start(b[k]), done[k])
      BY <1>1, <1>8 DEF Kept
    <3>2. Start(b[k]).row = b[k] /\ Gain(c, Start(b[k])) = 0
      BY DEF Start, Gain
    <3>3. rows[k] = done[k].row
      BY DEF rows
    <3>4. SumOf(Weighed(w, rows[k])) + 0 = SumOf(Weighed(w, b[k])) + Gain(c, done[k])
      BY <3>1, <3>2, <3>3 DEF KeptBy
    <3>5. h[k] = SumOf(Weighed(w, rows[k])) /\ f[k] = SumOf(Weighed(w, b[k])) /\ g[k] = Gain(c, done[k])
          /\ h[k] \in Int
      BY <2>3
    <3> HIDE DEF f, g, h
    <3> QED BY <3>4, <3>5
  <2>5. Over(w, b) = SumOf(f) /\ Over(w, m.board) = SumOf(h)
    BY <1>7 DEF Over
  <2>6. SumOf(g) = Gain(c, m)
    <3>1. CASE c = "none"
      <4>1. \A k \in Size : g[k] = 0
        BY <3>1 DEF Gain
      <4>2. Gain(c, m) = 0 /\ N * 0 = 0
        BY <3>1, NAssumption DEF Gain
      <4> HIDE DEF g
      <4>3. SumOf(g) = N * 0
        BY <4>1, SumOfConstant
      <4> QED BY <4>2, <4>3
    <3>2. CASE c = "freed"
      <4>1. g = freed /\ Gain(c, m) = m.freed
        BY <3>2 DEF Gain, freed
      <4> QED BY <1>7, <4>1
    <3>3. CASE c = "gained"
      <4>1. g = gained /\ Gain(c, m) = m.gained
        BY <3>3 DEF Gain, gained
      <4> QED BY <1>7, <4>1
    <3> QED BY <2>1, <3>1, <3>2, <3>3 DEF Counters
  <2> HIDE DEF f, g, h
  <2>7. SumOf(h) = SumOf(f) + SumOf(g)
    BY <2>2, <2>3, <2>4, SumAdds
  <2> QED BY <2>5, <2>6, <2>7
<1>9. Weighs(b, m)
  BY <1>8 DEF Weighs
<1>10. m.moved => HasBlank(m.board)
  BY <1>5, <1>7
<1>11. Keeps(b, m)
  BY <1>7, <1>9, <1>10 DEF Keeps
<1> QED BY <1>11 DEF m

(* The other moves work on a board that was turned, and turn it back.      *)
SameWeight(b, d) == \A w \in Weights : Over(w, b) = Over(w, d)

LEMMA TurnedKeeps ==
  ASSUME NEW b \in Boards, NEW t, SameWeight(t, b), NEW m, Keeps(t, m),
         NEW d \in Boards, SameWeight(d, m.board), HasBlank(m.board) => HasBlank(d)
  PROVE  Keeps(b, [m EXCEPT !.board = d])
<1> DEFINE r == [m EXCEPT !.board = d]
<1>1. m \in Outcomes
  BY DEF Keeps
<1>2. r \in Outcomes /\ r.board = d /\ r.freed = m.freed /\ r.gained = m.gained /\ r.moved = m.moved
  BY <1>1 DEF Outcomes
<1> HIDE DEF r
<1>3. r.moved => HasBlank(r.board)
  BY <1>2 DEF Keeps
<1>4. ASSUME NEW c, NEW w, Follows(c, w) PROVE Over(w, r.board) = Over(w, b) + Gain(c, r)
  <2>1. Over(w, m.board) = Over(w, t) + Gain(c, m)
    BY <1>4 DEF Keeps, Weighs
  <2>2. Over(w, d) = Over(w, m.board) /\ Over(w, t) = Over(w, b)
    BY <1>4 DEF SameWeight, Follows
  <2>3. Gain(c, r) = Gain(c, m)
    BY <1>2 DEF Gain
  <2> QED BY <1>2, <2>1, <2>2, <2>3
<1>5. Keeps(b, r)
  BY <1>2, <1>3, <1>4 DEF Keeps, Weighs
<1> QED BY <1>5 DEF r

LEMMA Turned ==
  ASSUME NEW b \in Boards
  PROVE  /\ Transpose(b) \in Boards /\ SameWeight(Transpose(b), b)
         /\ HasBlank(b) => HasBlank(Transpose(b))
         /\ Reversed(b) \in Boards /\ SameWeight(Reversed(b), b)
         /\ HasBlank(b) => HasBlank(Reversed(b))
<1>1. IsBlank \in Weights
  BY IsBlankWeight
<1>2. Transpose(b) \in Boards /\ SameWeight(Transpose(b), b)
  BY <1>1, TransposeWeight DEF SameWeight
<1>3. Reversed(b) \in Boards /\ SameWeight(Reversed(b), b)
  BY <1>1, ReversedWeight DEF SameWeight
<1>4. ASSUME NEW i \in Size, NEW j \in Size, b[i][j] = 0
      PROVE  HasBlank(Transpose(b)) /\ HasBlank(Reversed(b))
  <2>1. Transpose(b)[j][i] = 0
    BY <1>4 DEF Transpose
  <2>2. N + 1 - j \in Size /\ N + 1 - (N + 1 - j) = j
    BY NAssumption DEF Size
  <2>3. Reversed(b)[i][N + 1 - j] = 0
    BY <1>4, <2>2 DEF Reversed
  <2> QED BY <2>1, <2>2, <2>3 DEF HasBlank
<1> QED BY <1>2, <1>3, <1>4 DEF HasBlank

LEMMA MoveKeeps ==
  ASSUME NEW p, NEW b \in Boards, NEW d \in Directions
  PROVE  Keeps(b, Moved(p, d, b))
<1>1. ASSUME NEW a \in Boards PROVE Keeps(a, MoveLeft(p, a))
  BY LeftKeeps
<1>2. ASSUME NEW a \in Boards PROVE Keeps(a, MoveRight(p, a))
  <2> DEFINE m == MoveLeft(p, Reversed(a))
  <2>1. Reversed(a) \in Boards /\ SameWeight(Reversed(a), a)
    BY Turned
  <2>2. Keeps(Reversed(a), m)
    BY <1>1, <2>1
  <2>3. MoveRight(p, a) = [m EXCEPT !.board = Reversed(m.board)]
    BY DEF MoveRight
  <2> HIDE DEF m
  <2>4. m.board \in Boards
    BY <2>2 DEF Keeps, Outcomes
  <2>5. /\ Reversed(m.board) \in Boards /\ SameWeight(Reversed(m.board), m.board)
        /\ HasBlank(m.board) => HasBlank(Reversed(m.board))
    BY <2>4, Turned
  <2> QED BY <2>1, <2>2, <2>3, <2>5, TurnedKeeps
<1>3. ASSUME NEW a \in Boards PROVE Keeps(a, MoveUp(p, a))
  <2> DEFINE m == MoveLeft(p, Transpose(a))
  <2>1. Transpose(a) \in Boards /\ SameWeight(Transpose(a), a)
    BY Turned
  <2>2. Keeps(Transpose(a), m)
    BY <1>1, <2>1
  <2>3. MoveUp(p, a) = [m EXCEPT !.board = Transpose(m.board)]
    BY DEF MoveUp
  <2> HIDE DEF m
  <2>4. m.board \in Boards
    BY <2>2 DEF Keeps, Outcomes
  <2>5. /\ Transpose(m.board) \in Boards /\ SameWeight(Transpose(m.board), m.board)
        /\ HasBlank(m.board) => HasBlank(Transpose(m.board))
    BY <2>4, Turned
  <2> QED BY <2>1, <2>2, <2>3, <2>5, TurnedKeeps
<1>4. ASSUME NEW a \in Boards PROVE Keeps(a, MoveDown(p, a))
  <2> DEFINE m == MoveRight(p, Transpose(a))
  <2>1. Transpose(a) \in Boards /\ SameWeight(Transpose(a), a)
    BY Turned
  <2>2. Keeps(Transpose(a), m)
    BY <1>2, <2>1
  <2>3. MoveDown(p, a) = [m EXCEPT !.board = Transpose(m.board)]
    BY DEF MoveDown
  <2> HIDE DEF m
  <2>4. m.board \in Boards
    BY <2>2 DEF Keeps, Outcomes
  <2>5. /\ Transpose(m.board) \in Boards /\ SameWeight(Transpose(m.board), m.board)
        /\ HasBlank(m.board) => HasBlank(Transpose(m.board))
    BY <2>4, Turned
  <2> QED BY <2>1, <2>2, <2>3, <2>5, TurnedKeeps
<1>5. Moved(p, d, b) \in {MoveLeft(p, b), MoveRight(p, b), MoveUp(p, b), MoveDown(p, b)}
  BY DEF Moved, Directions
<1> QED BY <1>1, <1>2, <1>3, <1>4, <1>5

----------------------------------------------------------------------------
(* The game.  The counters follow the board by what it weighs.             *)
GameInv ==
  /\ board \in Boards /\ score \in Nat /\ fours \in Nat
  /\ blank_num = Over(IsBlank, board) /\ ~stray
  /\ score + 4 * fours = Over(TileScore, board)

LEMMA Weighing ==
  ASSUME NEW b \in Boards
  PROVE  /\ Total(b) = Over([v \in Nat |-> v], b)
         /\ Worth(b) = Over(TileScore, b)
<1>1. ASSUME NEW i \in Size PROVE Weighed([v \in Nat |-> v], b[i]) = b[i]
  BY DEF Weighed, Boards, Tile
<1>2. [i \in Size |-> SumOf(Weighed([v \in Nat |-> v], b[i]))] = [i \in Size |-> SumOf(b[i])]
  BY <1>1
<1> QED BY <1>2 DEF Total, Worth, Over, Weighed

LEMMA InvIsInStep == GameInv => CountersInStep
BY Weighing, BlanksCounted DEF GameInv, CountersInStep

LEMMA BlankCounts ==
  ASSUME NEW b \in Boards, HasBlank(b)
  PROVE  Over(IsBlank, b) # 0 /\ Moveable(b)
<1>1. PICK i \in Size : \E j \in Size : b[i][j] = 0
  BY DEF HasBlank
<1>2. PICK j \in Size : b[i][j] = 0
  BY <1>1
<1> DEFINE f == [k \in Size |-> SumOf(Weighed(IsBlank, b[k]))]
<1>3. Weighed(IsBlank, b[i]) \in [Size -> Nat] /\ Weighed(IsBlank, b[i])[j] > 0
  <2>1. Weighed(IsBlank, b[i]) \in [Size -> Nat]
    BY IsBlankWeight, RowWeight DEF Boards
  <2>2. Weighed(IsBlank, b[i])[j] = 1
    BY <1>2, IsBlankWeight DEF Weighed
  <2> QED BY <2>1, <2>2
<1>4. SumOf(Weighed(IsBlank, b[i])) > 0
  BY <1>3, SumIsPositive
<1>5. f \in [Size -> Nat] /\ f[i] > 0
  BY <1>4, IsBlankWeight, BoardWeight
<1>6. Over(IsBlank, b) = SumOf(f)
  BY DEF Over
<1> HIDE DEF f
<1>7. SumOf(f) > 0
  BY <1>5, SumIsPositive
<1> QED BY <1>1, <1>6, <1>7 DEF Moveable

(* A new tile v in the place of a blank.                                   *)
Grown(b, d, v) ==
  /\ d \in Boards
  /\ \A w \in Weights : Over(w, d) = (Over(w, b) - w[0]) + w[v]

LEMMA BlankFilled ==
  ASSUME NEW b \in Boards, NEW pos \in Blanks(b), NEW v \in {2, 4}
  PROVE  Grown(b, Put(b, pos, v), v)
<1>1. pos \in Positions /\ b[RowOf(pos)][ColOf(pos)] = 0 /\ v \in Tile
  BY DEF Blanks, Tile
<1>2. Put(b, pos, v) \in Boards
  BY <1>1, PutWeight, IsBlankWeight
<1>3. ASSUME NEW w \in Weights PROVE Over(w, Put(b, pos, v)) = (Over(w, b) - w[0]) + w[v]
  <2>1. Over(w, Put(b, pos, v)) = (Over(w, b) - w[b[RowOf(pos)][ColOf(pos)]]) + w[v]
    BY <1>1, PutWeight
  <2> QED BY <1>1, <2>1
<1> QED BY <1>2, <1>3 DEF Grown

LEMMA GrownCounts ==
  ASSUME NEW b \in Boards, NEW v \in {2, 4}, NEW d, Grown(b, d, v)
  PROVE  /\ Over(IsBlank, d) = Over(IsBlank, b) - 1
         /\ Over(TileScore, d) = Over(TileScore, b) + 4 * OneIfFour(v)
         /\ Total(d) = Total(b) + v
<1> DEFINE id == [k \in Nat |-> k]
<1>1. id \in Weights /\ id[0] = 0 /\ id[v] = v
  BY DEF Weights
<1>2. Total(b) = Over(id, b) /\ Total(d) = Over(id, d)
  BY Weighing DEF Grown
<1> HIDE DEF id
<1>3. \A w \in Weights : Over(w, d) = (Over(w, b) - w[0]) + w[v] /\ Over(w, b) \in Nat
  BY BoardWeight DEF Grown
<1>4. Total(d) = Total(b) + v
  <2>1. Over(id, d) = (Over(id, b) - 0) + v /\ Over(id, b) \in Nat
    BY <1>1, <1>3
  <2> QED BY <1>2, <2>1
<1>5. Over(IsBlank, d) = Over(IsBlank, b) - 1
  <2>1. IsBlank[0] = 1 /\ IsBlank[v] = 0
    BY IsBlankWeight
  <2>2. Over(IsBlank, d) = (Over(IsBlank, b) - 1) + 0 /\ Over(IsBlank, b) \in Nat
    BY <1>3, <2>1, IsBlankWeight
  <2> QED BY <2>2
<1>6. Over(TileScore, d) = Over(TileScore, b) + 4 * OneIfFour(v)
  <2>1. TileScore[0] = 0 /\ TileScore[v] = 4 * OneIfFour(v) /\ 4 * OneIfFour(v) \in Nat
    BY MergeScore DEF OneIfFour
  <2>2. Over(TileScore, d) = (Over(TileScore, b) - 0) + 4 * OneIfFour(v) /\ Over(TileScore, b) \in Nat
    BY <1>3, <2>1, TileScores
  <2> QED BY <2>1, <2>2
<1> QED BY <1>4, <1>5, <1>6

LEMMA ValuesAreTwoOrFour == \A pos : NewValues(pos) \subseteq {2, 4}
BY DEF NewValues

LEMMA InitInv == Init => GameInv
<1> SUFFICES ASSUME Init PROVE GameInv
  OBVIOUS
<1>1. PICK pos1 \in Positions : \E pos2 \in Positions :
        \E v1 \in NewValues(pos1), v2 \in NewValues(pos2) :
          /\ pos1 # pos2
          /\ board = Put(Put(Empty, pos1, v1), pos2, v2)
          /\ fours = OneIfFour(v1) + OneIfFour(v2)
  BY DEF Init
<1>2. PICK pos2 \in Positions : \E v1 \in NewValues(pos1), v2 \in NewValues(pos2) :
          /\ pos1 # pos2
          /\ board = Put(Put(Empty, pos1, v1), pos2, v2)
          /\ fours = OneIfFour(v1) + OneIfFour(v2)
  BY <1>1
<1>3. PICK v1 \in NewValues(pos1) : \E v2 \in NewValues(pos2) :
          /\ pos1 # pos2
          /\ board = Put(Put(Empty, pos1, v1), pos2, v2)
          /\ fours = OneIfFour(v1) + OneIfFour(v2)
  BY <1>2
<1>4. PICK v2 \in NewValues(pos2) :
          /\ pos1 # pos2
          /\ board = Put(Put(Empty, pos1, v1), pos2, v2)
          /\ fours = OneIfFour(v1) + OneIfFour(v2)
  BY <1>3
<1>5. v1 \in {2, 4} /\ v2 \in {2, 4}
  BY ValuesAreTwoOrFour
<1> DEFINE one == Put(Empty, pos1, v1)
<1>6. Empty \in Boards /\ \A pos \in Positions : pos \in Blanks(Empty)
  BY EmptyWeight, IsBlankWeight, PositionOf DEF Blanks, Empty
<1>7. Grown(Empty, one, v1)
  BY <1>5, <1>6, BlankFilled
<1>8. one[RowOf(pos2)][ColOf(pos2)] = 0
  <2>1. RowOf(pos1) # RowOf(pos2) \/ ColOf(pos1) # ColOf(pos2)
    <3>1. SUFFICES ASSUME RowOf(pos1) = RowOf(pos2), ColOf(pos1) = ColOf(pos2) PROVE pos1 = pos2
      BY <1>4
    <3>2. /\ pos1 = N * (RowOf(pos1) - 1) + (ColOf(pos1) - 1)
          /\ pos2 = N * (RowOf(pos2) - 1) + (ColOf(pos2) - 1)
      BY PositionOf
    <3> QED BY <3>1, <3>2
  <2>2. RowOf(pos1) \in Size /\ ColOf(pos1) \in Size /\ RowOf(pos2) \in Size /\ ColOf(pos2) \in Size
    BY PositionOf
  <2> QED BY <2>1, <2>2 DEF Put, Empty
<1>9. one \in Boards /\ pos2 \in Blanks(one)
  BY <1>7, <1>8 DEF Grown, Blanks
<1> HIDE DEF one
<1>10. Grown(one, board, v2)
  BY <1>4, <1>5, <1>9, BlankFilled DEF one
<1>11. /\ Over(IsBlank, one) = Over(IsBlank, Empty) - 1
       /\ Over(TileScore, one) = Over(TileScore, Empty) + 4 * OneIfFour(v1)
  BY <1>5, <1>6, <1>7, GrownCounts
<1>12. /\ Over(IsBlank, board) = Over(IsBlank, one) - 1
       /\ Over(TileScore, board) = Over(TileScore, one) + 4 * OneIfFour(v2)
  BY <1>5, <1>9, <1>10, GrownCounts
<1>13. Over(IsBlank, Empty) = N * N /\ N * N \in Nat
  <2>1. Over(IsBlank, Empty) = N * (N * IsBlank[0]) /\ IsBlank[0] = 1 /\ N * 1 = N
    BY EmptyWeight, IsBlankWeight, NAssumption
  <2> QED BY <2>1, NAssumption
<1>14. Over(TileScore, Empty) = 0
  <2>1. Over(TileScore, Empty) = N * (N * TileScore[0]) /\ TileScore[0] = 0 /\ N * 0 = 0
    BY EmptyWeight, TileScores, MergeScore, NAssumption
  <2> QED BY <2>1
<1>15. OneIfFour(v1) \in Nat /\ OneIfFour(v2) \in Nat
  BY DEF OneIfFour
<1>16. blank_num = N * N - 2 /\ score = 0 /\ ~stray
  BY DEF Init
<1>17. blank_num = Over(IsBlank, board)
  BY <1>11, <1>12, <1>13, <1>16
<1>18. fours \in Nat /\ score + 4 * fours = Over(TileScore, board)
  BY <1>4, <1>11, <1>12, <1>14, <1>15, <1>16
<1>19. board \in Boards
  BY <1>10 DEF Grown
<1> QED BY <1>16, <1>17, <1>18, <1>19 DEF GameInv

(* A move and the tile that follows it.                                    *)
LEMMA MoveStep ==
  ASSUME GameInv, NEW m, Keeps(board, m), score' = score + m.gained,
         m.moved => NextTile(m.board, blank_num + m.freed),
         ~m.moved => NoTile(m.board, blank_num + m.freed)
  PROVE  /\ GameInv'
         /\ Total(board') - Total(board) \in (IF m.moved THEN {2, 4} ELSE {0})
<1> DEFINE b == m.board
           blanks == blank_num + m.freed
<1>1. b \in Boards /\ m.freed \in Nat /\ m.gained \in Nat /\ (m.moved => HasBlank(b))
  BY DEF Keeps, Outcomes
<1>2. /\ Over([v \in Nat |-> v], b) = Over([v \in Nat |-> v], board) + 0
      /\ Over(IsBlank, b) = Over(IsBlank, board) + m.freed
      /\ Over(TileScore, b) = Over(TileScore, board) + m.gained
  BY WhatFollows DEF Keeps, Weighs, Gain
<1>3. board \in Boards /\ score \in Nat /\ fours \in Nat /\ ~stray
  BY DEF GameInv
<1>4. Total(b) \in Nat /\ Total(b) = Total(board)
  <2>1. [v \in Nat |-> v] \in Weights
    BY DEF Weights
  <2>2. Over([v \in Nat |-> v], b) \in Nat /\ Over([v \in Nat |-> v], board) \in Nat
    BY <1>1, <1>3, <2>1, BoardWeight
  <2> QED BY <1>1, <1>2, <1>3, <2>2, Weighing
<1>5. blanks = Over(IsBlank, b) /\ blanks \in Nat
  BY <1>1, <1>2, IsBlankWeight, BoardWeight DEF GameInv
<1>6. /\ (score + m.gained) + 4 * fours = Over(TileScore, b) /\ Over(TileScore, b) \in Nat
      /\ score + m.gained \in Nat
  BY <1>1, <1>2, <1>3, TileScores, BoardWeight DEF GameInv
<1> HIDE DEF b, blanks
<1>7. CASE ~m.moved
  <2>1. board' = b /\ blank_num' = blanks /\ stray' = stray /\ fours' = fours
    BY <1>7 DEF NoTile, b, blanks
  <2>2. GameInv'
    BY <1>1, <1>3, <1>5, <1>6, <2>1 DEF GameInv
  <2> QED BY <1>4, <1>7, <2>1, <2>2
<1>8. CASE m.moved
  <2>1. blanks # 0
    BY <1>1, <1>5, <1>8, BlankCounts
  <2>2. NextTile(b, blanks)
    BY <1>8 DEF b, blanks
  <2>3. /\ \E pos \in Blanks(b) : \E value \in NewValues(pos) :
             board' = Put(b, pos, value) /\ fours' = fours + OneIfFour(value)
        /\ blank_num' = blanks - 1 /\ stray' = stray
    BY <2>1, <2>2 DEF NextTile
  <2>4. PICK pos \in Blanks(b) : \E value \in NewValues(pos) :
             board' = Put(b, pos, value) /\ fours' = fours + OneIfFour(value)
    BY <2>3
  <2>5. PICK value \in NewValues(pos) :
             board' = Put(b, pos, value) /\ fours' = fours + OneIfFour(value)
    BY <2>4
  <2>6. value \in {2, 4}
    BY ValuesAreTwoOrFour
  <2>7. Grown(b, board', value)
    BY <1>1, <2>5, <2>6, BlankFilled
  <2>8. /\ Over(IsBlank, board') = Over(IsBlank, b) - 1
        /\ Over(TileScore, board') = Over(TileScore, b) + 4 * OneIfFour(value)
        /\ Total(board') = Total(b) + value
    BY <1>1, <2>6, <2>7, GrownCounts
  <2>9. OneIfFour(value) \in Nat
    BY DEF OneIfFour
  <2>10. fours' \in Nat /\ score' + 4 * fours' = Over(TileScore, board')
    BY <1>3, <1>6, <2>5, <2>8, <2>9
  <2>11. GameInv'
    <3>1. board' \in Boards
      BY <2>7 DEF Grown
    <3>2. blank_num' = Over(IsBlank, board')
      BY <1>5, <2>3, <2>8
    <3>3. score' \in Nat /\ ~stray'
      BY <1>3, <1>6, <2>3
    <3>4. Over(IsBlank, board)' = Over(IsBlank, board') /\ Over(TileScore, board)' = Over(TileScore, board')
      OBVIOUS
    <3> QED BY <2>10, <3>1, <3>2, <3>3, <3>4 DEF GameInv
  <2>12. Total(board') - Total(board) = value
    BY <1>4, <2>6, <2>8
  <2> QED BY <1>8, <2>6, <2>11, <2>12
<1> QED BY <1>7, <1>8

LEMMA GameStep ==
  GameInv /\ [Next]_vars =>
    /\ GameInv'
    /\ [phase' # "quit" =>
          Total(board') - Total(board) \in (IF moved' THEN {2, 4} ELSE {0})]_vars
<1> SUFFICES ASSUME GameInv, [Next]_vars
             PROVE  /\ GameInv'
                    /\ UNCHANGED vars \/ phase' = "quit"
                         \/ Total(board') - Total(board) \in (IF moved' THEN {2, 4} ELSE {0})
  OBVIOUS
<1>1. ASSUME NEW d \in Directions, MoveC(d)
      PROVE  GameInv' /\ Total(board') - Total(board) \in (IF moved' THEN {2, 4} ELSE {0})
  <2> DEFINE m == Moved("c", d, board)
  <2>1. Keeps(board, m)
    BY MoveKeeps DEF GameInv
  <2>2. m.moved => Moveable(m.board)
    <3>1. m.board \in Boards /\ (m.moved => HasBlank(m.board))
      BY <2>1 DEF Keeps, Outcomes
    <3> HIDE DEF m
    <3> QED BY <3>1, BlankCounts
  <2>3. /\ moved' = m.moved /\ score' = score + m.gained
        /\ IF Moveable(m.board) /\ m.moved
           THEN NextTile(m.board, blank_num + m.freed)
           ELSE NoTile(m.board, blank_num + m.freed)
    BY <1>1 DEF MoveC
  <2> HIDE DEF m
  <2>4. /\ m.moved => NextTile(m.board, blank_num + m.freed)
        /\ ~m.moved => NoTile(m.board, blank_num + m.freed)
    BY <2>2, <2>3
  <2>5. GameInv' /\ Total(board') - Total(board) \in (IF m.moved THEN {2, 4} ELSE {0})
    BY <2>1, <2>3, <2>4, MoveStep
  <2> QED BY <2>3, <2>5
<1>2. ASSUME NEW d \in BestMove, MoveCpp(d)
      PROVE  GameInv' /\ Total(board') - Total(board) \in (IF moved' THEN {2, 4} ELSE {0})
  <2> DEFINE m == Moved("cpp", d, board)
  <2>1. Keeps(board, m)
    BY MoveKeeps DEF GameInv, BestMove
  <2>3. /\ moved' = m.moved /\ score' = score + m.gained
        /\ IF m.moved
           THEN NextTile(m.board, blank_num + m.freed)
           ELSE NoTile(m.board, blank_num + m.freed)
    BY <1>2 DEF MoveCpp
  <2> HIDE DEF m
  <2>4. /\ m.moved => NextTile(m.board, blank_num + m.freed)
        /\ ~m.moved => NoTile(m.board, blank_num + m.freed)
    BY <2>3
  <2>5. GameInv' /\ Total(board') - Total(board) \in (IF m.moved THEN {2, 4} ELSE {0})
    BY <2>1, <2>3, <2>4, MoveStep
  <2> QED BY <2>3, <2>5
<1>3. CASE Quit
  BY <1>3 DEF Quit, GameInv
<1>4. CASE UNCHANGED vars
  BY <1>4 DEF vars, GameInv
<1> QED BY <1>1, <1>2, <1>3, <1>4 DEF Next

(* The number of blanks and the score, which every merge and every new     *)
(* tile changes beside the board, are what the board says they are, and no *)
(* tile is written in front of the board (2048.c:90-101, 173-179,          *)
(* 276-278, 2048.cpp:129-134).                                             *)
THEOREM CountersInStepHolds == Spec => []CountersInStep
<1>1. GameInv /\ [Next]_vars => GameInv'
  BY GameStep
<1> QED BY <1>1, InitInv, InvIsInStep, PTL DEF Spec

(* No tile is lost or doubled by a move: the sum of the board grows by the *)
(* new tile, which comes exactly when the move changed something           *)
(* (2048.c:159-190, 276-278, 2048.cpp:118-143).                            *)
THEOREM SumGrowsByNewTileHolds == Spec => SumGrowsByNewTile
<1>1. GameInv /\ [Next]_vars =>
        /\ GameInv'
        /\ [phase' # "quit" =>
              Total(board') - Total(board) \in (IF moved' THEN {2, 4} ELSE {0})]_vars
  BY GameStep
<1> QED BY <1>1, InitInv, PTL DEF Spec, SumGrowsByNewTile

----------------------------------------------------------------------------
(* A function defined by what it is at zero and how each value follows     *)
(* from the one before.                                                    *)
Begins(f, z, g, n) == f[0] = z /\ \A k \in Nat : k < n => f[k + 1] = g[<<k, f[k]>>]

Stepping(S) == [Nat \X S -> S]

LEMMA BeginningExists ==
  ASSUME NEW S, NEW z \in S, NEW g \in [Nat \X S -> S]
  PROVE  \A n \in Nat : \E f \in [Nat -> S] : Begins(f, z, g, n)
<1> DEFINE T == {n \in Nat : \E f \in [Nat -> S] : Begins(f, z, g, n)}
<1>1. 0 \in T
  <2> DEFINE f == [k \in Nat |-> z]
  <2>1. f \in [Nat -> S] /\ f[0] = z
    OBVIOUS
  <2> HIDE DEF f
  <2>2. Begins(f, z, g, 0)
    BY <2>1 DEF Begins
  <2> QED BY <2>1, <2>2
<1>2. ASSUME NEW n \in Nat, n \in T PROVE n + 1 \in T
  <2>1. PICK f \in [Nat -> S] : Begins(f, z, g, n)
    BY <1>2
  <2>2. f[n] \in S /\ g[<<n, f[n]>>] \in S
    OBVIOUS
  <2> DEFINE h == [f EXCEPT ![n + 1] = g[<<n, f[n]>>]]
  <2>3. /\ h \in [Nat -> S] /\ h[n + 1] = g[<<n, f[n]>>]
        /\ \A k \in Nat : k # n + 1 => h[k] = f[k]
    BY <2>2
  <2> HIDE DEF h
  <2>4. h[0] = z
    BY <2>1, <2>3 DEF Begins
  <2>5. ASSUME NEW k \in Nat, k < n + 1 PROVE h[k + 1] = g[<<k, h[k]>>]
    <3>1. h[k] = f[k]
      BY <2>3, <2>5
    <3>2. CASE k = n
      BY <2>3, <3>1, <3>2
    <3>3. CASE k < n
      <4>1. h[k + 1] = f[k + 1]
        BY <2>3, <3>3
      <4> QED BY <2>1, <3>1, <3>3, <4>1 DEF Begins
    <3> QED BY <2>5, <3>2, <3>3
  <2>6. Begins(h, z, g, n + 1)
    BY <2>4, <2>5 DEF Begins
  <2> QED BY <2>3, <2>6
<1> HIDE DEF T
<1>3. Nat \subseteq T
  BY <1>1, <1>2, SetInduction
<1> QED BY <1>3 DEF T

LEMMA Recursion ==
  ASSUME NEW S, NEW z, z \in S, NEW g, g \in Stepping(S)
  PROVE  \E f \in [Nat -> S] : f[0] = z /\ \A n \in Nat : f[n + 1] = g[<<n, f[n]>>]
<1> g \in [Nat \X S -> S]
  BY DEF Stepping
<1> DEFINE of(n) == CHOOSE f : f \in [Nat -> S] /\ Begins(f, z, g, n)
           all == [n \in Nat |-> of(n)[n]]
<1>1. \A n \in Nat : of(n) \in [Nat -> S] /\ Begins(of(n), z, g, n)
  BY BeginningExists
<1> HIDE DEF of
<1>2. all \in [Nat -> S] /\ all[0] = z
  BY <1>1 DEF Begins
<1>3. ASSUME NEW n \in Nat PROVE all[n + 1] = g[<<n, all[n]>>]
  <2>1. Begins(of(n + 1), z, g, n)
    BY <1>1 DEF Begins
  <2>2. of(n + 1)[n] = of(n)[n]
    <3>1. PICK f \in [Nat -> S] : f = of(n + 1) /\ Begins(f, z, g, n)
      BY <1>1, <2>1
    <3>2. PICK h \in [Nat -> S] : h = of(n) /\ Begins(h, z, g, n)
      BY <1>1
    <3>3. f[n] = h[n]
      <4> DEFINE T == {i \in Nat : i <= n => f[i] = h[i]}
      <4>1. 0 \in T
        BY <3>1, <3>2 DEF Begins
      <4>2. ASSUME NEW i \in Nat, i \in T PROVE i + 1 \in T
        <5> SUFFICES ASSUME i + 1 <= n PROVE f[i + 1] = h[i + 1]
          OBVIOUS
        <5>1. i < n /\ i <= n
          OBVIOUS
        <5>2. f[i] = h[i]
          BY <4>2, <5>1
        <5> QED BY <3>1, <3>2, <5>1, <5>2 DEF Begins
      <4>3. Nat \subseteq T
        <5> HIDE DEF T
        <5> QED BY <4>1, <4>2, SetInduction
      <4> QED BY <4>3
    <3> QED BY <3>1, <3>2, <3>3
  <2>3. of(n + 1)[n + 1] = g[<<n, of(n + 1)[n]>>]
    BY <1>1 DEF Begins
  <2> QED BY <2>2, <2>3
<1> HIDE DEF all
<1>4. all \in [Nat -> S]
  BY <1>2
<1> WITNESS all \in [Nat -> S]
<1> QED BY <1>2, <1>3

----------------------------------------------------------------------------
(* The tiles of a row of any length.  up holds those of its beginnings.    *)
Packs(up, row, L) ==
  /\ up[0] = << >>
  /\ \A j \in 1..L : /\ row[j] = 0 => up[j] = up[j - 1]
                     /\ row[j] # 0 => up[j] = Append(up[j - 1], row[j])

LEMMA PacksExist ==
  ASSUME NEW row, NEW L, IsRow(row, L)
  PROVE  \E up : up = [j \in 0..L |-> up[j]] /\ Packs(up, row, L)
<1> L \in Nat /\ L >= 1 /\ \A j \in 1..L : row[j] \in Nat
  BY RowIs
<1> DEFINE S == Seq(Nat)
           Next1(k, s) == IF row[k + 1] = 0 THEN s ELSE Append(s, row[k + 1])
           g == [p \in Nat \X S |-> IF p[1] < L THEN Next1(p[1], p[2]) ELSE p[2]]
<1>1. ASSUME NEW k \in Nat, NEW s \in S, k < L PROVE Next1(k, s) \in S
  <2>1. k + 1 \in 1..L
    BY <1>1
  <2>2. row[k + 1] \in Nat
    BY <2>1
  <2> QED BY <2>2
<1>2. \A p \in Nat \X S : p[1] \in Nat /\ p[2] \in S
  OBVIOUS
<1>3. g \in [Nat \X S -> S]
  <2> HIDE DEF S, Next1
  <2>1. \A p \in Nat \X S : (IF p[1] < L THEN Next1(p[1], p[2]) ELSE p[2]) \in S
    BY <1>1, <1>2
  <2> QED BY <2>1
<1>4. \A k \in Nat, s \in S : k < L => g[<<k, s>>] = Next1(k, s)
  <2> HIDE DEF S, Next1
  <2> QED OBVIOUS
<1>5. << >> \in S
  OBVIOUS
<1> HIDE DEF g, S
<1>6. PICK f \in [Nat -> S] : f[0] = << >> /\ \A k \in Nat : f[k + 1] = g[<<k, f[k]>>]
  <2>1. g \in Stepping(S)
    BY <1>3 DEF Stepping
  <2> QED BY <1>5, <2>1, Recursion
<1> DEFINE up == [j \in 0..L |-> f[j]]
<1>7. up = [j \in 0..L |-> up[j]] /\ up[0] = << >>
  BY <1>6
<1>8. ASSUME NEW j \in 1..L PROVE up[j] = IF row[j] = 0 THEN up[j - 1] ELSE Append(up[j - 1], row[j])
  <2>1. j - 1 \in Nat /\ j - 1 < L /\ (j - 1) + 1 = j /\ j \in 0..L /\ j - 1 \in 0..L
    OBVIOUS
  <2>2. f[j - 1] \in S
    BY <2>1, <1>6
  <2>3. f[(j - 1) + 1] = g[<<j - 1, f[j - 1]>>]
    BY <1>6, <2>1
  <2>4. g[<<j - 1, f[j - 1]>>] = Next1(j - 1, f[j - 1])
    BY <1>4, <2>1, <2>2
  <2> QED BY <2>1, <2>3, <2>4
<1> HIDE DEF up
<1> QED BY <1>7, <1>8 DEF Packs

LEMMA TilesUnfold ==
  ASSUME NEW row, NEW L, IsRow(row, L)
  PROVE  \E up : Packs(up, row, L) /\ Tiles(row) = up[L]
<1>1. L \in Nat /\ L >= 1 /\ Len(row) = L
  BY RowIs
<1> DEFINE Rec(c) == [j \in 0..Len(row) |-> IF j = 0 THEN << >>
                                            ELSE IF row[j] = 0 THEN c[j - 1]
                                            ELSE Append(c[j - 1], row[j])]
           a == CHOOSE c : c = Rec(c)
<1>2. PICK c : c = [j \in 0..L |-> c[j]] /\ Packs(c, row, L)
  BY PacksExist
<1>3. ASSUME NEW j \in 0..L
      PROVE c[j] = IF j = 0 THEN << >> ELSE IF row[j] = 0 THEN c[j - 1] ELSE Append(c[j - 1], row[j])
  <2>1. j = 0 \/ j \in 1..L
    BY <1>1
  <2> QED BY <1>1, <1>2, <2>1 DEF Packs
<1>4. c = Rec(c)
  <2>1. c = [j \in 0..L |-> IF j = 0 THEN << >> ELSE IF row[j] = 0 THEN c[j - 1]
                             ELSE Append(c[j - 1], row[j])]
    BY <1>2, <1>3, Zenon
  <2> QED BY <1>1, <2>1
<1>5. a = Rec(a)
  <2> HIDE DEF Rec
  <2> QED BY <1>4
<1>6. Tiles(row) = a[L]
  BY <1>1 DEF Tiles
<1> HIDE DEF a
<1>7. Packs(a, row, L)
  <2>1. 0 \in 0..Len(row)
    BY <1>1
  <2>2. a[0] = << >>
    BY <1>5, <2>1
  <2>3. ASSUME NEW j \in 1..L
        PROVE /\ row[j] = 0 => a[j] = a[j - 1]
              /\ row[j] # 0 => a[j] = Append(a[j - 1], row[j])
    <3>1. j \in 0..Len(row) /\ j # 0
      BY <1>1
    <3> QED BY <1>5, <3>1
  <2> QED BY <2>2, <2>3 DEF Packs
<1> QED BY <1>6, <1>7

(* c counts the tiles from left to right, tl lists them.                   *)
Lists(c, tl, row, L) ==
  /\ c[0] = 0 /\ tl \in Seq(Nat) /\ Len(tl) = c[L]
  /\ \A j \in 0..L : c[j] \in Nat /\ c[j] <= c[L]
  /\ \A j \in 1..L : /\ row[j] = 0 => c[j] = c[j - 1]
                     /\ row[j] # 0 => c[j] = c[j - 1] + 1 /\ tl[c[j]] = row[j]

LEMMA AppendIs ==
  ASSUME NEW s \in Seq(Nat), NEW v \in Nat
  PROVE  /\ Append(s, v) \in Seq(Nat) /\ Len(s) \in Nat /\ Len(Append(s, v)) = Len(s) + 1
         /\ Append(s, v)[Len(s) + 1] = v
         /\ \A k \in 1..Len(s) : Append(s, v)[k] = s[k]
OBVIOUS

LEMMA TilesAre ==
  ASSUME NEW row, NEW L, IsRow(row, L)
  PROVE  \E c : Lists(c, Tiles(row), row, L)
<1>1. L \in Nat /\ L >= 1 /\ \A j \in 1..L : row[j] \in Nat
  BY RowIs
<1>2. PICK up : Packs(up, row, L) /\ Tiles(row) = up[L]
  BY TilesUnfold
<1>3. /\ up[0] = << >>
      /\ \A j \in 1..L : /\ row[j] = 0 => up[j] = up[j - 1]
                         /\ row[j] # 0 => up[j] = Append(up[j - 1], row[j])
  BY <1>2 DEF Packs
<1> DEFINE Has(n, j) == Len(up[j]) \in 1..Len(up[n]) /\ up[n][Len(up[j])] = row[j]
           T == {n \in Nat : n <= L => /\ up[n] \in Seq(Nat)
                                       /\ \A j \in 1..n : Len(up[j]) \in Nat /\ Len(up[j]) <= Len(up[n])
                                       /\ \A j \in 1..n : row[j] # 0 => Has(n, j)}
<1>4. 0 \in T
  <2>1. up[0] \in Seq(Nat) /\ 1..0 = {}
    BY <1>3
  <2> QED BY <2>1
<1>5. ASSUME NEW n \in Nat, n \in T PROVE n + 1 \in T
  <2> SUFFICES ASSUME n + 1 <= L
               PROVE /\ up[n + 1] \in Seq(Nat)
                     /\ \A j \in 1..(n + 1) : Len(up[j]) \in Nat /\ Len(up[j]) <= Len(up[n + 1])
                     /\ \A j \in 1..(n + 1) : row[j] # 0 => Has(n + 1, j)
    OBVIOUS
  <2>1. /\ n + 1 \in 1..L /\ (n + 1) - 1 = n /\ n <= L /\ row[n + 1] \in Nat
    BY <1>1
  <2>2. /\ up[n] \in Seq(Nat) /\ Len(up[n]) \in Nat
        /\ \A j \in 1..n : Len(up[j]) \in Nat /\ Len(up[j]) <= Len(up[n])
        /\ \A j \in 1..n : row[j] # 0 => Has(n, j)
    BY <1>5, <2>1
  <2>3. \A j \in 1..(n + 1) : j = n + 1 \/ j \in 1..n
    OBVIOUS
  <2>4. CASE row[n + 1] = 0
    <3>1. up[n + 1] = up[n]
      BY <1>3, <2>1, <2>4
    <3> QED BY <2>2, <2>3, <2>4, <3>1
  <2>5. CASE row[n + 1] # 0
    <3>1. up[n + 1] = Append(up[n], row[n + 1])
      BY <1>3, <2>1, <2>5
    <3>2. /\ up[n + 1] \in Seq(Nat) /\ Len(up[n + 1]) = Len(up[n]) + 1
          /\ up[n + 1][Len(up[n]) + 1] = row[n + 1]
          /\ \A k \in 1..Len(up[n]) : up[n + 1][k] = up[n][k]
      BY <2>1, <2>2, <3>1, AppendIs
    <3>3. Has(n + 1, n + 1) /\ Len(up[n + 1]) <= Len(up[n + 1])
      BY <2>2, <3>2
    <3>4. ASSUME NEW j \in 1..n
          PROVE  /\ Len(up[j]) \in Nat /\ Len(up[j]) <= Len(up[n + 1])
                 /\ row[j] # 0 => Has(n + 1, j)
      <4>1. Len(up[j]) \in Nat /\ Len(up[j]) <= Len(up[n + 1])
        BY <2>2, <3>2
      <4>2. ASSUME row[j] # 0 PROVE Has(n + 1, j)
        <5>1. Len(up[j]) \in 1..Len(up[n]) /\ up[n][Len(up[j])] = row[j]
          BY <2>2, <4>2
        <5>2. up[n + 1][Len(up[j])] = up[n][Len(up[j])]
          BY <3>2, <5>1
        <5>3. Len(up[j]) \in 1..Len(up[n + 1])
          BY <2>2, <3>2, <5>1
        <5> QED BY <5>1, <5>2, <5>3
      <4> QED BY <4>1, <4>2
    <3> HIDE DEF Has
    <3> QED BY <2>3, <3>2, <3>3, <3>4
  <2> QED BY <2>4, <2>5
<1>6. Nat \subseteq T
  <2> HIDE DEF T
  <2> QED BY <1>4, <1>5, SetInduction
<1>7. \A n \in 0..L : /\ up[n] \in Seq(Nat) /\ Len(up[n]) \in Nat
                      /\ \A j \in 1..n : Len(up[j]) \in Nat /\ Len(up[j]) <= Len(up[n])
                      /\ \A j \in 1..n : row[j] # 0 => Has(n, j)
  BY <1>6
<1> DEFINE c == [j \in 0..L |-> Len(up[j])]
<1>8. /\ c[0] = 0 /\ up[L] \in Seq(Nat) /\ Len(up[L]) = c[L]
      /\ \A j \in 0..L : c[j] \in Nat /\ c[j] <= c[L]
  <2>1. Len(up[0]) = 0
    BY <1>3
  <2>2. L \in 0..L /\ 0 \in 0..L /\ \A j \in 0..L : j = 0 \/ j \in 1..L
    BY <1>1
  <2>3. \A j \in 0..L : Len(up[j]) \in Nat /\ Len(up[j]) <= Len(up[L])
    BY <1>7, <2>1, <2>2
  <2> QED BY <1>7, <2>1, <2>2, <2>3
<1>9. ASSUME NEW j \in 1..L
      PROVE  /\ row[j] = 0 => c[j] = c[j - 1]
             /\ row[j] # 0 => c[j] = c[j - 1] + 1 /\ up[L][c[j]] = row[j]
  <2>1. j \in 0..L /\ j - 1 \in 0..L /\ L \in 0..L /\ c[j] = Len(up[j]) /\ c[j - 1] = Len(up[j - 1])
    BY <1>1
  <2>2. up[j - 1] \in Seq(Nat) /\ row[j] \in Nat
    BY <1>1, <1>7, <2>1
  <2>3. ASSUME row[j] # 0 PROVE c[j] = c[j - 1] + 1 /\ up[L][c[j]] = row[j]
    <3>1. up[j] = Append(up[j - 1], row[j])
      BY <1>3, <2>3
    <3>2. Len(up[j]) = Len(up[j - 1]) + 1
      BY <2>2, <3>1, AppendIs
    <3>3. Has(L, j)
      BY <1>7, <2>1, <2>3
    <3> HIDE DEF c
    <3> QED BY <2>1, <3>2, <3>3
  <2>4. ASSUME row[j] = 0 PROVE c[j] = c[j - 1]
    BY <1>3, <2>1, <2>4
  <2> QED BY <2>3, <2>4
<1> HIDE DEF c
<1>10. Lists(c, up[L], row, L)
  BY <1>8, <1>9 DEF Lists
<1> QED BY <1>2, <1>10

(* What becomes of the tiles from the k-th on.                             *)
Paired(tl, k) == k < Len(tl) /\ tl[k] = tl[k + 1]
Tails(r, tl) ==
  /\ r[Len(tl) + 1] = << >>
  /\ \A k \in 1..Len(tl) : /\ Paired(tl, k) => r[k] = <<2 * tl[k]>> \o r[k + 2]
                           /\ ~Paired(tl, k) => r[k] = <<tl[k]>> \o r[k + 1]

LEMMA TailsExist ==
  ASSUME NEW tl, tl \in Seq(Nat)
  PROVE  \E r : r = [k \in 1..(Len(tl) + 1) |-> r[k]] /\ Tails(r, tl)
<1> DEFINE T == Len(tl)
           Q == Seq(Nat)
           S == Q \X Q
           Tail1(k, s) == IF Paired(tl, k) THEN <<2 * tl[k]>> \o s[2] ELSE <<tl[k]>> \o s[1]
           Step(n, s) == IF n < T THEN <<Tail1(T - n, s), s[1]>> ELSE s
           g == [p \in Nat \X S |-> Step(p[1], p[2])]
<1>1. T \in Nat /\ \A k \in 1..T : tl[k] \in Nat /\ 2 * tl[k] \in Nat
  <2>1. T \in Nat /\ \A k \in 1..T : tl[k] \in Nat
    OBVIOUS
  <2> HIDE DEF T
  <2> QED BY <2>1
<1>2. \A v \in Nat, q \in Q : <<v>> \o q \in Q
  OBVIOUS
<1>3. \A s \in S : s[1] \in Q /\ s[2] \in Q
  BY DEF S
<1>4. \A a, b \in Q : <<a, b>> \in S /\ <<a, b>>[1] = a /\ <<a, b>>[2] = b
  BY DEF S
<1> HIDE DEF T, Q, S
<1>5. ASSUME NEW n \in Nat, NEW s \in S PROVE Step(n, s) \in S
  <2>1. CASE n < T
    <3>1. T - n \in 1..T
      BY <1>1, <2>1
    <3>2. Tail1(T - n, s) \in Q
      BY <1>1, <1>2, <1>3, <3>1
    <3> HIDE DEF Tail1
    <3> QED BY <1>3, <1>4, <2>1, <3>2
  <2>2. CASE ~(n < T)
    BY <2>2
  <2> QED BY <2>1, <2>2
<1> HIDE DEF Step
<1>6. g \in Stepping(S) /\ \A n \in Nat, s \in S : g[<<n, s>>] = Step(n, s)
  <2>1. \A p \in Nat \X S : p[1] \in Nat /\ p[2] \in S
    OBVIOUS
  <2>2. \A p \in Nat \X S : Step(p[1], p[2]) \in S
    BY <1>5, <2>1
  <2>3. g \in [Nat \X S -> S]
    BY <2>2
  <2>4. \A n \in Nat, s \in S : g[<<n, s>>] = Step(n, s)
    OBVIOUS
  <2> QED BY <2>3, <2>4 DEF Stepping
<1> DEFINE none == << <<>>, <<>> >>
<1>7. none \in S /\ none[1] = << >>
  <2>1. << >> \in Q
    BY DEF Q
  <2> QED BY <1>4, <2>1
<1> HIDE DEF g, none
<1>8. PICK f \in [Nat -> S] : f[0] = none /\ \A n \in Nat : f[n + 1] = g[<<n, f[n]>>]
  BY <1>6, <1>7, Recursion
<1>9. ASSUME NEW n \in Nat, n < T
      PROVE  f[n + 1] = <<Tail1(T - n, f[n]), f[n][1]>>
  <2>1. f[n] \in S
    BY <1>8
  <2>2. f[n + 1] = Step(n, f[n])
    BY <1>6, <1>8, <2>1
  <2> QED BY <1>9, <2>2 DEF Step
<1> HIDE DEF Tail1
<1>10. ASSUME NEW n \in Nat, n < T
       PROVE  f[n + 1][1] = Tail1(T - n, f[n]) /\ f[n + 1][2] = f[n][1]
  BY <1>9, <1>10
<1> DEFINE r == [k \in 1..(T + 1) |-> f[T + 1 - k][1]]
<1>11. r = [k \in 1..(T + 1) |-> r[k]]
  OBVIOUS
<1>12. r[T + 1] = << >>
  <2>1. T + 1 \in 1..(T + 1) /\ T + 1 - (T + 1) = 0
    BY <1>1
  <2>2. f[0][1] = << >>
    BY <1>7, <1>8
  <2> QED BY <2>1, <2>2
<1>13. ASSUME NEW k \in 1..T
       PROVE  /\ Paired(tl, k) => r[k] = <<2 * tl[k]>> \o r[k + 2]
              /\ ~Paired(tl, k) => r[k] = <<tl[k]>> \o r[k + 1]
  <2> DEFINE n == T - k
  <2>1. /\ n \in Nat /\ n < T /\ T - n = k /\ T + 1 - k = n + 1 /\ T + 1 - (k + 1) = n
        /\ k \in 1..(T + 1) /\ k + 1 \in 1..(T + 1)
    BY <1>1
  <2> HIDE DEF n
  <2>2. r[k] = f[n + 1][1] /\ r[k + 1] = f[n][1]
    BY <2>1
  <2>3. r[k] = Tail1(k, f[n])
    BY <1>10, <2>1, <2>2
  <2>4. ASSUME Paired(tl, k) PROVE r[k + 2] = f[n][2]
    <3>1. k < T /\ n - 1 \in Nat /\ n - 1 < T /\ (n - 1) + 1 = n
      BY <1>1, <2>1, <2>4 DEF Paired, T
    <3>2. k + 2 \in 1..(T + 1) /\ T + 1 - (k + 2) = n - 1
      BY <1>1, <2>1, <3>1
    <3>3. r[k + 2] = f[n - 1][1]
      BY <3>2
    <3>4. f[(n - 1) + 1][2] = f[n - 1][1]
      BY <1>10, <3>1
    <3> QED BY <3>1, <3>3, <3>4
  <2> QED BY <2>2, <2>3, <2>4 DEF Tail1
<1> HIDE DEF r
<1> QED BY <1>11, <1>12, <1>13 DEF Tails, T

(* The head of r[k] is v, its rest is r[j].                                *)
Heads(r, k, v, j) ==
  /\ Len(r[k]) = Len(r[j]) + 1 /\ r[k][1] = v
  /\ \A n \in 1..Len(r[j]) : r[k][n + 1] = r[j][n]
Joins(r, tl) ==
  /\ Len(r[Len(tl) + 1]) = 0
  /\ \A k \in 1..(Len(tl) + 1) : Len(r[k]) \in Nat
  /\ \A k \in 1..Len(tl) : /\ Paired(tl, k) => Heads(r, k, 2 * tl[k], k + 2)
                           /\ ~Paired(tl, k) => Heads(r, k, tl[k], k + 1)

LEMMA HeadIs ==
  ASSUME NEW r, NEW k, NEW v \in Nat, NEW j, r[j] \in Seq(Nat), r[k] = <<v>> \o r[j]
  PROVE  Heads(r, k, v, j) /\ r[k] \in Seq(Nat)
<1> DEFINE s == r[j]
           t == r[k]
<1>1. s \in Seq(Nat) /\ t = <<v>> \o s
  OBVIOUS
<1> HIDE DEF s, t
<1>2. t \in Seq(Nat) /\ Len(s) \in Nat /\ Len(t) = Len(s) + 1 /\ t[1] = v
  BY <1>1
<1>3. ASSUME NEW n \in 1..Len(s) PROVE t[n + 1] = s[n]
  BY <1>1, <1>2
<1> QED BY <1>2, <1>3 DEF Heads, s, t

LEMMA JoinsAre ==
  ASSUME NEW r, NEW tl, tl \in Seq(Nat), Tails(r, tl)
  PROVE  Joins(r, tl)
<1> DEFINE T == Len(tl)
<1>1. T \in Nat /\ \A k \in 1..T : tl[k] \in Nat /\ 2 * tl[k] \in Nat
  <2>1. T \in Nat /\ \A k \in 1..T : tl[k] \in Nat
    OBVIOUS
  <2> HIDE DEF T
  <2> QED BY <2>1
<1>2. /\ r[T + 1] = << >>
      /\ \A k \in 1..T : /\ Paired(tl, k) => r[k] = <<2 * tl[k]>> \o r[k + 2]
                         /\ ~Paired(tl, k) => r[k] = <<tl[k]>> \o r[k + 1]
      /\ \A k : Paired(tl, k) => k < T
  BY DEF Tails, Paired
<1> HIDE DEF T
<1> DEFINE Good(k) == r[k] \in Seq(Nat)
           U == {n \in Nat : \A k \in 1..(T + 1) : T + 1 - k <= n => Good(k)}
<1>3. 0 \in U
  <2>1. Good(T + 1)
    BY <1>2
  <2>2. \A k \in 1..(T + 1) : T + 1 - k <= 0 => k = T + 1
    BY <1>1
  <2> HIDE DEF Good
  <2> QED BY <2>1, <2>2
<1>4. ASSUME NEW n \in Nat, n \in U PROVE n + 1 \in U
  <2> SUFFICES ASSUME NEW k \in 1..(T + 1), T + 1 - k <= n + 1 PROVE Good(k)
    OBVIOUS
  <2>1. CASE T + 1 - k <= n
    BY <1>4, <2>1
  <2>2. CASE T + 1 - k = n + 1
    <3>1. k \in 1..T /\ k + 1 \in 1..(T + 1) /\ T + 1 - (k + 1) <= n /\ T + 1 - (k + 2) <= n
      BY <1>1, <2>2
    <3>2. CASE Paired(tl, k)
      <4>1. k + 2 \in 1..(T + 1)
        BY <1>1, <1>2, <3>1, <3>2
      <4>2. Good(k + 2)
        BY <1>4, <3>1, <4>1
      <4> QED BY <1>1, <1>2, <3>1, <3>2, <4>2, HeadIs
    <3>3. CASE ~Paired(tl, k)
      <4>1. Good(k + 1)
        BY <1>4, <3>1
      <4> QED BY <1>1, <1>2, <3>1, <3>3, <4>1, HeadIs
    <3> QED BY <3>2, <3>3
  <2> QED BY <1>1, <2>1, <2>2
<1>5. Nat \subseteq U
  <2> HIDE DEF U
  <2> QED BY <1>3, <1>4, SetInduction
<1>6. \A k \in 1..(T + 1) : Good(k)
  <2>1. \A k \in 1..(T + 1) : T + 1 - k \in Nat
    BY <1>1
  <2> HIDE DEF Good
  <2> QED BY <1>5, <2>1
<1>7. \A k \in 1..(T + 1) : Len(r[k]) \in Nat
  BY <1>6
<1>8. ASSUME NEW k \in 1..T
      PROVE  /\ Paired(tl, k) => Heads(r, k, 2 * tl[k], k + 2)
             /\ ~Paired(tl, k) => Heads(r, k, tl[k], k + 1)
  <2>1. ASSUME Paired(tl, k) PROVE Heads(r, k, 2 * tl[k], k + 2)
    <3>1. k + 2 \in 1..(T + 1)
      BY <1>1, <1>2, <2>1
    <3> QED BY <1>1, <1>2, <1>6, <2>1, <3>1, HeadIs
  <2>2. ASSUME ~Paired(tl, k) PROVE Heads(r, k, tl[k], k + 1)
    <3>1. k + 1 \in 1..(T + 1)
      BY <1>1
    <3> QED BY <1>1, <1>2, <1>6, <2>2, <3>1, HeadIs
  <2> QED BY <2>1, <2>2
<1>9. Len(r[T + 1]) = 0
  BY <1>2
<1> QED BY <1>7, <1>8, <1>9 DEF Joins, T

LEMMA MergedUnfolds ==
  ASSUME NEW row, NEW L, IsRow(row, L), Tiles(row) \in Seq(Nat)
  PROVE  \E r : /\ Joins(r, Tiles(row))
                /\ Merged(row) = [j \in 1..L |-> IF j <= Len(r[1]) THEN r[1][j] ELSE 0]
<1> DEFINE tl == Tiles(row)
           Rec(c) == [k \in 1..(Len(tl) + 1) |->
                        IF k > Len(tl) THEN << >>
                        ELSE IF k < Len(tl) /\ tl[k] = tl[k + 1] THEN <<2 * tl[k]>> \o c[k + 2]
                        ELSE <<tl[k]>> \o c[k + 1]]
           a == CHOOSE c : c = Rec(c)
<1>1. Len(row) = L /\ Len(tl) \in Nat /\ tl \in Seq(Nat)
  BY RowIs
<1>2. Merged(row) = [j \in 1..L |-> IF j <= Len(a[1]) THEN a[1][j] ELSE 0]
  BY <1>1 DEF Merged
<1> HIDE DEF tl
<1>3. PICK c : c = [k \in 1..(Len(tl) + 1) |-> c[k]] /\ Tails(c, tl)
  BY <1>1, TailsExist
<1>4. ASSUME NEW k \in 1..(Len(tl) + 1)
      PROVE  c[k] = IF k > Len(tl) THEN << >>
                    ELSE IF k < Len(tl) /\ tl[k] = tl[k + 1] THEN <<2 * tl[k]>> \o c[k + 2]
                    ELSE <<tl[k]>> \o c[k + 1]
  <2>1. k = Len(tl) + 1 \/ (k \in 1..Len(tl) /\ ~(k > Len(tl)))
    BY <1>1
  <2>2. CASE k = Len(tl) + 1
    <3>1. c[k] = << >> /\ k > Len(tl)
      BY <1>1, <1>3, <2>2 DEF Tails
    <3> QED BY <3>1
  <2>3. CASE k \in 1..Len(tl) /\ ~(k > Len(tl))
    <3>1. /\ Paired(tl, k) => c[k] = <<2 * tl[k]>> \o c[k + 2]
          /\ ~Paired(tl, k) => c[k] = <<tl[k]>> \o c[k + 1]
      BY <1>3, <2>3 DEF Tails
    <3> QED BY <2>3, <3>1, Zenon DEF Paired
  <2> QED BY <2>1, <2>2, <2>3
<1>5. c = Rec(c)
  BY <1>3, <1>4, Zenon
<1>6. a = Rec(a)
  <2> HIDE DEF Rec
  <2> QED BY <1>5
<1> HIDE DEF a
<1>7. Tails(a, tl)
  <2>1. a[Len(tl) + 1] = << >>
    BY <1>1, <1>6
  <2>2. ASSUME NEW k \in 1..Len(tl)
        PROVE  /\ Paired(tl, k) => a[k] = <<2 * tl[k]>> \o a[k + 2]
               /\ ~Paired(tl, k) => a[k] = <<tl[k]>> \o a[k + 1]
    <3>1. k \in 1..(Len(tl) + 1) /\ ~(k > Len(tl))
      BY <1>1
    <3> QED BY <1>6, <3>1 DEF Paired
  <2> QED BY <2>1, <2>2 DEF Tails
<1>8. Joins(a, tl)
  BY <1>1, <1>7, JoinsAre
<1> QED BY <1>2, <1>8 DEF tl

----------------------------------------------------------------------------
(* The scan of a row against the rules.  After the j-th cell the row is q: *)
(* its cells before i are done, the i-th is blank or holds the last tile,  *)
(* which may still merge, and the others are blank or not yet looked at.   *)
Packed(q, i, j, row, L) ==
  /\ q \in [1..L -> Nat] /\ i \in 1..j
  /\ \A n \in 1..L : /\ n > j => q[n] = row[n]
                     /\ n > i /\ n <= j => q[n] = 0
                     /\ n < i => q[n] # 0
(* What is done begins what the rules make of the row; the tiles from the  *)
(* k-th on make the rest of it.                                            *)
Built(q, i, r, k) ==
  /\ Len(r[1]) = (i - 1) + Len(r[k])
  /\ \A n \in 1..(i - 1) : r[1][n] = q[n]
  /\ \A n \in 1..Len(r[k]) : r[1][(i - 1) + n] = r[k][n]

(* A move is reported exactly when the row changed, and as long as it did  *)
(* not no two neighbours that were passed are equal.                       *)
Noted(q, i, mv, row) ==
  /\ ~mv => q = row /\ \A n \in 1..(i - 1) : row[n] # row[n + 1]
  /\ mv => \E a \in 1..i : q[a] # row[a] /\ (a = i => q[a] # 0 /\ row[a] = 0)

(* The last tile is counted among those that may still merge.              *)
Open(q, i) == IF q[i] = 0 THEN 0 ELSE 1
RowInv(q, i, mv, fr, m, j, tl, r, row, L) ==
  /\ Packed(q, i, j, row, L)
  /\ q[i] # 0 => m >= 1 /\ q[i] = tl[m]
  /\ Built(q, i, r, (m + 1) - Open(q, i))
  /\ fr \in Nat /\ fr + (i - 1) + Open(q, i) = m
  /\ mv \in BOOLEAN /\ Noted(q, i, mv, row)

(* What the rules make of the row: its tiles, and what they merge to.      *)
Ruled(c, tl, r, row, L) == IsRow(row, L) /\ Lists(c, tl, row, L) /\ Joins(r, tl)

LEMMA RuledIs ==
  ASSUME NEW c, NEW tl, NEW r, NEW row, NEW L, Ruled(c, tl, r, row, L)
  PROVE  /\ L \in Nat /\ L >= 1 /\ Len(tl) \in Nat /\ Len(tl) = c[L]
         /\ \A j \in 0..L : c[j] \in Nat /\ c[j] <= Len(tl)
         /\ \A j \in 1..L : row[j] \in Nat
         /\ \A k \in 1..(Len(tl) + 1) : Len(r[k]) \in Nat
BY RowIs DEF Ruled, Lists, Joins

LEMMA NextTileIs ==
  ASSUME NEW c, NEW tl, NEW r, NEW row, NEW L, Ruled(c, tl, r, row, L), NEW j \in 1..L
  PROVE  /\ row[j] = 0 => c[j] = c[j - 1]
         /\ row[j] # 0 => c[j] = c[j - 1] + 1 /\ tl[c[j]] = row[j]
BY DEF Ruled, Lists

LEMMA FirstCell ==
  ASSUME NEW c, NEW tl, NEW r, NEW row, NEW L, Ruled(c, tl, r, row, L)
  PROVE  RowInv(row, 1, FALSE, 0, c[1], 1, tl, r, row, L)
<1>1. L \in Nat /\ L >= 1 /\ 1 \in 1..L /\ row[1] \in Nat /\ Len(r[1]) \in Nat
  BY RuledIs
<1>2. c[0] = 0 /\ (row[1] = 0 => c[1] = c[0]) /\ (row[1] # 0 => c[1] = c[0] + 1 /\ tl[c[1]] = row[1])
  <2>1. c[0] = 0
    BY DEF Ruled, Lists
  <2>2. 1 - 1 = 0
    OBVIOUS
  <2> QED BY <1>1, <2>1, <2>2, NextTileIs
<1>3. Packed(row, 1, 1, row, L)
  <2>1. row \in [1..L -> Nat]
    BY DEF Ruled, IsRow
  <2> QED BY <1>1, <2>1 DEF Packed
<1>4. (c[1] + 1) - Open(row, 1) = 1 /\ 0 + (1 - 1) + Open(row, 1) = c[1]
  BY <1>2 DEF Open
<1>5. Built(row, 1, r, 1)
  BY <1>1 DEF Built
<1>6. Noted(row, 1, FALSE, row)
  BY DEF Noted
<1>7. row[1] # 0 => c[1] >= 1 /\ row[1] = tl[c[1]]
  BY <1>2
<1>8. Built(row, 1, r, (c[1] + 1) - Open(row, 1))
  BY <1>4, <1>5
<1>9. 0 \in Nat /\ FALSE \in BOOLEAN
  OBVIOUS
<1> QED BY <1>3, <1>4, <1>6, <1>7, <1>8, <1>9 DEF RowInv

Alike(z, q, i) == \A n \in 1..(i - 1) : z[n] = q[n]

(* The i-th cell is done.                                                  *)
LEMMA BuiltGrows ==
  ASSUME NEW q, NEW i, NEW r, NEW k, Built(q, i, r, k), NEW v, NEW d, Heads(r, k, v, d),
         i \in Nat, i >= 1, Len(r[d]) \in Nat,
         NEW z, Alike(z, q, i), z[i] = v
  PROVE  Built(z, i + 1, r, d)
<1>1. /\ Len(r[1]) = (i - 1) + Len(r[k])
      /\ \A n \in 1..(i - 1) : r[1][n] = q[n]
      /\ \A n \in 1..Len(r[k]) : r[1][(i - 1) + n] = r[k][n]
  BY DEF Built
<1>2. /\ Len(r[k]) = Len(r[d]) + 1 /\ r[k][1] = v
      /\ \A n \in 1..Len(r[d]) : r[k][n + 1] = r[d][n]
  BY DEF Heads
<1>3. Len(r[1]) = ((i + 1) - 1) + Len(r[d])
  BY <1>1, <1>2
<1>4. ASSUME NEW n \in 1..((i + 1) - 1) PROVE r[1][n] = z[n]
  <2>1. CASE n \in 1..(i - 1)
    BY <1>1, <2>1 DEF Alike
  <2>2. CASE n = i
    <3>1. 1 \in 1..Len(r[k]) /\ (i - 1) + 1 = i
      BY <1>2
    <3>2. r[1][(i - 1) + 1] = v
      BY <1>1, <1>2, <3>1
    <3> QED BY <2>2, <3>1, <3>2
  <2> QED BY <2>1, <2>2
<1>5. ASSUME NEW n \in 1..Len(r[d]) PROVE r[1][((i + 1) - 1) + n] = r[d][n]
  <2>1. n + 1 \in 1..Len(r[k]) /\ (i - 1) + (n + 1) = ((i + 1) - 1) + n
    BY <1>2
  <2>2. r[1][(i - 1) + (n + 1)] = r[k][n + 1]
    BY <1>1, <2>1
  <2> QED BY <1>2, <2>1, <2>2
<1> QED BY <1>3, <1>4, <1>5 DEF Built

LEMMA BuiltStays ==
  ASSUME NEW q, NEW i \in Nat, NEW r, NEW k, Built(q, i, r, k), NEW z, Alike(z, q, i)
  PROVE  Built(z, i, r, k)
BY DEF Built, Alike

(* A blank is passed over.                                                 *)
LEMMA BlankPassed ==
  ASSUME NEW c, NEW tl, NEW r, NEW row, NEW L, Ruled(c, tl, r, row, L), NEW j \in 2..L,
         NEW q, NEW i, NEW mv, NEW fr, RowInv(q, i, mv, fr, c[j - 1], j - 1, tl, r, row, L),
         row[j] = 0
  PROVE  RowInv(q, i, mv, fr, c[j], j, tl, r, row, L)
<1>1. L \in Nat /\ j \in 1..L /\ j \in Int /\ c[j] = c[j - 1]
  BY RuledIs, NextTileIs
<1>2. Packed(q, i, j, row, L)
  <2>1. /\ q \in [1..L -> Nat] /\ i \in 1..(j - 1)
        /\ \A n \in 1..L : /\ n > j - 1 => q[n] = row[n]
                           /\ n > i /\ n <= j - 1 => q[n] = 0
                           /\ n < i => q[n] # 0
    BY DEF RowInv, Packed
  <2>2. i \in 1..j
    BY <1>1, <2>1
  <2>3. ASSUME NEW n \in 1..L
        PROVE  /\ n > j => q[n] = row[n]
               /\ n > i /\ n <= j => q[n] = 0
               /\ n < i => q[n] # 0
    <3>1. n > j => n > j - 1
      BY <1>1
    <3>2. n <= j => n <= j - 1 \/ n = j
      BY <1>1
    <3>3. n = j => n > j - 1 /\ row[n] = 0
      BY <1>1
    <3> QED BY <2>1, <3>1, <3>2, <3>3
  <2> QED BY <2>1, <2>2, <2>3 DEF Packed
<1> QED BY <1>1, <1>2 DEF RowInv

(* What the scan writes: v to the cell a and zero to the cell j.           *)
Wrote(z, q, a, v, j, L) ==
  /\ z \in [1..L -> Nat] /\ z[j] = 0 /\ z[a] = v
  /\ \A n \in 1..L : n # a /\ n # j => z[n] = q[n]

LEMMA WroteIs ==
  ASSUME NEW L, NEW q \in [1..L -> Nat], NEW a \in 1..L, NEW v \in Nat, NEW j \in 1..L, a # j
  PROVE  Wrote([q EXCEPT ![a] = v, ![j] = 0], q, a, v, j, L)
BY DEF Wrote

(* The cells after a write to the i-th or the next one.  h is the cell to  *)
(* be filled then.                                                         *)
Fits(q, i, a, h, j) ==
  /\ a \in i..(i + 1) /\ h \in a..(a + 1) /\ h <= i + 1 /\ h <= j /\ a < j
  /\ q[i] # 0 \/ a = i

LEMMA PackedOn ==
  ASSUME NEW row, NEW L \in Nat, NEW j \in 2..L, NEW q, NEW i, Packed(q, i, j - 1, row, L),
         NEW a, NEW h, Fits(q, i, a, h, j), NEW v, v # 0, NEW z, Wrote(z, q, a, v, j, L)
  PROVE  Packed(z, h, j, row, L) /\ Alike(z, q, i)
<1>0. /\ a \in i..(i + 1) /\ h \in a..(a + 1) /\ h <= i + 1 /\ h <= j /\ a < j
      /\ q[i] # 0 \/ a = i
  BY DEF Fits
<1>1. /\ i \in 1..(j - 1)
      /\ \A n \in 1..L : /\ n > j - 1 => q[n] = row[n]
                         /\ n > i /\ n <= j - 1 => q[n] = 0
                         /\ n < i => q[n] # 0
  BY DEF Packed
<1>2. /\ z \in [1..L -> Nat] /\ z[j] = 0 /\ z[a] = v
      /\ \A n \in 1..L : n # a /\ n # j => z[n] = q[n]
  BY DEF Wrote
<1>3. h \in 1..j /\ i \in Int /\ a \in Int /\ j \in Int /\ h \in Int /\ a >= i /\ h >= a /\ i < j
  BY <1>0, <1>1
<1>4. \A n \in 1..(i - 1) : n \in 1..L /\ n # a /\ n # j
  BY <1>0, <1>1, <1>3
<1>5. \A n \in 1..(i - 1) : z[n] = q[n]
  BY <1>2, <1>4
<1>6. ASSUME NEW n \in 1..L
      PROVE  /\ n > j => z[n] = row[n]
             /\ n > h /\ n <= j => z[n] = 0
             /\ n < h => z[n] # 0
  <2>1. ASSUME n > j PROVE z[n] = row[n]
    <3>1. n # a /\ n # j /\ n > j - 1
      BY <1>0, <1>3, <2>1
    <3> QED BY <1>1, <1>2, <3>1
  <2>2. ASSUME n > h, n <= j PROVE z[n] = 0
    <3>1. n # a /\ n > i
      BY <1>0, <1>3, <2>2
    <3>2. CASE n = j
      BY <1>2, <3>2
    <3>3. CASE n # j
      <4>1. n <= j - 1
        BY <1>0, <1>3, <2>2, <3>3
      <4> QED BY <1>1, <1>2, <3>1, <3>3, <4>1
    <3> QED BY <3>2, <3>3
  <2>3. ASSUME n < h PROVE z[n] # 0
    <3>1. CASE n = a
      BY <1>2, <3>1
    <3>2. CASE n # a
      <4>1. n # j /\ (n < i \/ (n = i /\ a # i))
        BY <1>0, <1>3, <2>3, <3>2
      <4> QED BY <1>0, <1>1, <1>2, <3>2, <4>1
    <3> QED BY <3>1, <3>2
  <2> QED BY <2>1, <2>2, <2>3
<1> QED BY <1>2, <1>3, <1>5, <1>6 DEF Packed, Alike

(* What the invariant says, with the last tile and without.                *)
LEMMA RowInvIs ==
  ASSUME NEW tl, NEW r, NEW row, NEW L, NEW j, NEW m,
         NEW q, NEW i, NEW mv, NEW fr, RowInv(q, i, mv, fr, m, j, tl, r, row, L)
  PROVE  /\ Packed(q, i, j, row, L) /\ i \in 1..j /\ q \in [1..L -> Nat]
         /\ fr \in Nat /\ mv \in BOOLEAN /\ Noted(q, i, mv, row)
         /\ q[i] = 0 => Built(q, i, r, (m + 1) - 0) /\ fr + (i - 1) + 0 = m
         /\ q[i] # 0 => /\ Built(q, i, r, (m + 1) - 1) /\ fr + (i - 1) + 1 = m
                        /\ m >= 1 /\ q[i] = tl[m]
BY DEF RowInv, Packed, Open

(* A tile goes to the blank cell i.                                        *)
LEMMA TileShifted ==
  ASSUME NEW c, NEW tl, NEW r, NEW row, NEW L, Ruled(c, tl, r, row, L), NEW j \in 2..L,
         NEW q, NEW i, NEW mv, NEW fr, RowInv(q, i, mv, fr, c[j - 1], j - 1, tl, r, row, L),
         row[j] # 0, q[i] = 0, NEW z, Wrote(z, q, i, row[j], j, L)
  PROVE  RowInv(z, i, TRUE, fr, c[j], j, tl, r, row, L)
<1>1. /\ L \in Nat /\ j \in 1..L /\ j \in Int /\ c[j] = c[j - 1] + 1 /\ tl[c[j]] = row[j]
      /\ j - 1 \in 0..L /\ c[j - 1] \in Nat /\ row[j] \in Nat
  BY RuledIs, NextTileIs
<1>2. /\ Packed(q, i, j - 1, row, L) /\ i \in 1..(j - 1)
      /\ fr \in Nat /\ mv \in BOOLEAN /\ Noted(q, i, mv, row)
      /\ Built(q, i, r, (c[j - 1] + 1) - 0) /\ fr + (i - 1) + 0 = c[j - 1]
  BY RowInvIs
<1>3. Packed(z, i, j, row, L) /\ Alike(z, q, i)
  <2>1. Fits(q, i, i, i, j)
    BY <1>1, <1>2 DEF Fits
  <2> QED BY <1>1, <1>2, <2>1, PackedOn
<1>4. z[i] = row[j]
  BY DEF Wrote
<1>5. Open(z, i) = 1 /\ c[j] >= 1
  BY <1>1, <1>4 DEF Open
<1>6. Built(z, i, r, (c[j] + 1) - Open(z, i))
  <2>1. (c[j] + 1) - Open(z, i) = (c[j - 1] + 1) - 0 /\ i \in Nat
    BY <1>1, <1>2, <1>5
  <2> QED BY <1>2, <1>3, <2>1, BuiltStays
<1>7. fr + (i - 1) + Open(z, i) = c[j]
  BY <1>1, <1>2, <1>5
<1>8. Noted(z, i, TRUE, row)
  <2>1. CASE mv
    <3>1. PICK a \in 1..i : q[a] # row[a] /\ (a = i => q[a] # 0 /\ row[a] = 0)
      BY <1>2, <2>1 DEF Noted
    <3>2. a \in 1..(i - 1)
      BY <1>2, <3>1
    <3>3. z[a] # row[a] /\ a # i
      BY <1>3, <3>1, <3>2 DEF Alike
    <3> QED BY <3>3 DEF Noted
  <2>2. CASE ~mv
    <3>1. row[i] = 0 /\ i \in 1..i
      BY <1>2, <2>2 DEF Noted
    <3> QED BY <1>4, <3>1 DEF Noted
  <2> QED BY <1>2, <2>1, <2>2
<1> QED BY <1>1, <1>2, <1>3, <1>4, <1>5, <1>6, <1>7, <1>8 DEF RowInv

(* A tile merges with the last one.                                        *)
(* A tile equal to the last one merges with it.                            *)
LEMMA TilesCombined ==
  ASSUME NEW c, NEW tl, NEW r, NEW row, NEW L, Ruled(c, tl, r, row, L), NEW j \in 2..L,
         NEW q, NEW i, NEW mv, NEW fr, RowInv(q, i, mv, fr, c[j - 1], j - 1, tl, r, row, L),
         row[j] # 0, q[i] = row[j], NEW w, w = 2 * row[j],
         NEW z, Wrote(z, q, i, w, j, L)
  PROVE  RowInv(z, i + 1, TRUE, fr + 1, c[j], j, tl, r, row, L)
<1> DEFINE m == c[j - 1]
<1>1. /\ L \in Nat /\ j \in 1..L /\ j \in Int /\ c[j] = m + 1 /\ tl[m + 1] = row[j]
      /\ j - 1 \in 0..L /\ m \in Nat /\ row[j] \in Nat
  BY RuledIs, NextTileIs
<1>0. c[j] <= Len(tl) /\ Len(tl) \in Nat
  BY <1>1, RuledIs
<1>9. w \in Nat /\ w # 0 /\ w # row[j]
  <2>1. \A v \in Nat : v # 0 => 2 * v \in Nat /\ 2 * v # 0 /\ 2 * v # v
    OBVIOUS
  <2> QED BY <1>1, <2>1
<1>2. /\ Packed(q, i, j - 1, row, L) /\ i \in 1..(j - 1)
      /\ fr \in Nat /\ mv \in BOOLEAN /\ Noted(q, i, mv, row)
      /\ Built(q, i, r, (m + 1) - 1) /\ fr + (i - 1) + 1 = m /\ m >= 1 /\ q[i] = tl[m]
  BY RowInvIs
<1> HIDE DEF m
<1>3. Packed(z, i + 1, j, row, L) /\ Alike(z, q, i)
  <2> DEFINE h == i + 1
  <2>1. Fits(q, i, i, h, j)
    BY <1>1, <1>2 DEF Fits
  <2> HIDE DEF h
  <2>2. Packed(z, h, j, row, L) /\ Alike(z, q, i)
    BY <1>1, <1>2, <1>9, <2>1, PackedOn
  <2> QED BY <2>2 DEF h
<1>4. z[i] = w /\ z[i] # row[j] /\ z[i] # 0
  <2>1. z[i] = w
    BY DEF Wrote
  <2> QED BY <1>9, <2>1
<1>5. z[i + 1] = 0 /\ Open(z, i + 1) = 0
  <2>1. Packed(z, i, j, row, L)
    <3>1. Fits(q, i, i, i, j)
      BY <1>1, <1>2 DEF Fits
    <3> QED BY <1>1, <1>2, <1>9, <3>1, PackedOn
  <2>2. i + 1 \in 1..L /\ i + 1 > i /\ i + 1 <= j
    BY <1>1, <1>2
  <2>3. z[i + 1] = 0
    BY <2>1, <2>2 DEF Packed
  <2> QED BY <2>3 DEF Open
<1>6. Built(z, i + 1, r, (c[j] + 1) - Open(z, i + 1))
  <2>1. (c[j] + 1) - Open(z, i + 1) = m + 2 /\ i \in Nat /\ i >= 1 /\ (m + 1) - 1 = m
    BY <1>1, <1>2, <1>5
  <2>2. m \in 1..Len(tl) /\ m + 2 \in 1..(Len(tl) + 1) /\ Paired(tl, m)
    <3>1. tl[m] = tl[m + 1]
      BY <1>1, <1>2
    <3>2. m >= 1 /\ m + 1 <= Len(tl)
      BY <1>0, <1>1, <1>2
    <3> DEFINE T == Len(tl)
    <3>3. T \in Nat /\ m + 1 <= T
      BY <1>0, <3>2
    <3> HIDE DEF T
    <3>4. m \in 1..T /\ m + 2 \in 1..(T + 1) /\ m < T
      BY <1>1, <3>2, <3>3
    <3> QED BY <3>1, <3>4 DEF Paired, T
  <2> DEFINE d == m + 2
  <2>3. Heads(r, m, 2 * tl[m], d)
    BY <2>2 DEF Ruled, Joins
  <2>4. Len(r[d]) \in Nat
    BY <2>2, RuledIs
  <2>5. w = 2 * tl[m] /\ z[i] = w /\ Built(q, i, r, m)
    BY <1>2, <1>4, <2>1
  <2> HIDE DEF d
  <2>6. Heads(r, m, w, d)
    BY <2>3, <2>5
  <2>7. Built(z, i + 1, r, d)
    BY <1>3, <2>1, <2>4, <2>5, <2>6, BuiltGrows
  <2> QED BY <2>1, <2>7 DEF d
<1>7. (fr + 1) + ((i + 1) - 1) + Open(z, i + 1) = c[j] /\ fr + 1 \in Nat
  BY <1>1, <1>2, <1>5
<1>8. Noted(z, i + 1, TRUE, row)
  <2>0. i \in 1..(i + 1) /\ i # i + 1
    BY <1>2
  <2>1. CASE mv
    <3>1. PICK a \in 1..i : q[a] # row[a] /\ (a = i => q[a] # 0 /\ row[a] = 0)
      BY <1>2, <2>1 DEF Noted
    <3>2. CASE a = i
      BY <1>4, <2>0, <3>1, <3>2 DEF Noted
    <3>3. CASE a # i
      <4>1. a \in 1..(i - 1) /\ a \in 1..(i + 1) /\ a # i + 1
        BY <1>2, <3>1, <3>3
      <4>2. z[a] # row[a]
        BY <1>3, <3>1, <4>1 DEF Alike
      <4> QED BY <4>1, <4>2 DEF Noted
    <3> QED BY <3>2, <3>3
  <2>2. CASE ~mv
    <3>1. z[i] # row[i]
      BY <1>2, <1>4, <2>2 DEF Noted
    <3> QED BY <2>0, <3>1 DEF Noted
  <2> QED BY <1>2, <2>1, <2>2
<1> QED BY <1>1, <1>2, <1>3, <1>5, <1>6, <1>7, <1>8 DEF RowInv

(* A tile that differs from the last one is put behind it.                 *)
LEMMA PairDiffers ==
  ASSUME NEW c, NEW tl, NEW r, NEW row, NEW L, Ruled(c, tl, r, row, L),
         NEW q, NEW i, NEW m, NEW z,
         i \in Nat, i >= 1, m \in 1..Len(tl), ~Paired(tl, m), q[i] = tl[m],
         Built(q, i, r, (m + 1) - 1), Alike(z, q, i), z[i] = q[i]
  PROVE  Built(z, i + 1, r, m + 1)
<1> DEFINE d == m + 1
<1>1. Len(tl) \in Nat /\ (m + 1) - 1 = m /\ d \in 1..(Len(tl) + 1)
  BY RuledIs
<1>2. Heads(r, m, tl[m], d)
  BY DEF Ruled, Joins
<1>3. Len(r[d]) \in Nat
  BY <1>1, RuledIs
<1> HIDE DEF d
<1>4. Built(q, i, r, m) /\ z[i] = tl[m]
  BY <1>1
<1>5. Built(z, i + 1, r, d)
  BY <1>2, <1>3, <1>4, BuiltGrows
<1> QED BY <1>5 DEF d

LEMMA TileDiffers ==
  ASSUME NEW c, NEW tl, NEW r, NEW row, NEW L, Ruled(c, tl, r, row, L), NEW j \in 2..L,
         NEW q, NEW i, NEW mv, NEW fr, RowInv(q, i, mv, fr, c[j - 1], j - 1, tl, r, row, L),
         row[j] # 0, q[i] # 0, q[i] # row[j], NEW z, NEW mz,
         \/ i + 1 < j /\ Wrote(z, q, i + 1, row[j], j, L) /\ mz = TRUE
         \/ i + 1 = j /\ z = q /\ mz = mv
  PROVE  RowInv(z, i + 1, mz, fr, c[j], j, tl, r, row, L)
<1> DEFINE m == c[j - 1]
<1>1. /\ L \in Nat /\ j \in 1..L /\ j \in Int /\ c[j] = m + 1 /\ tl[m + 1] = row[j]
      /\ j - 1 \in 0..L /\ m \in Nat /\ row[j] \in Nat
  BY RuledIs, NextTileIs
<1>2. c[j] <= Len(tl) /\ Len(tl) \in Nat
  BY <1>1, RuledIs
<1>3. /\ Packed(q, i, j - 1, row, L) /\ i \in 1..(j - 1)
      /\ fr \in Nat /\ mv \in BOOLEAN /\ Noted(q, i, mv, row)
      /\ Built(q, i, r, (m + 1) - 1) /\ fr + (i - 1) + 1 = m /\ m >= 1 /\ q[i] = tl[m]
  BY RowInvIs
<1> HIDE DEF m
<1>4. /\ Packed(z, i + 1, j, row, L) /\ Alike(z, q, i)
      /\ z[i] = q[i] /\ z[i + 1] = row[j]
  <2> DEFINE h == i + 1
  <2>1. CASE i + 1 < j /\ Wrote(z, q, i + 1, row[j], j, L)
    <3>1. Fits(q, i, h, h, j)
      BY <1>1, <1>3, <2>1 DEF Fits
    <3>2. i \in 1..L /\ i # i + 1 /\ i # j
      BY <1>1, <1>3
    <3>3. z[i] = q[i] /\ z[i + 1] = row[j]
      BY <2>1, <3>2 DEF Wrote
    <3>4. Wrote(z, q, h, row[j], j, L)
      BY <2>1
    <3> HIDE DEF h
    <3>5. Packed(z, h, j, row, L) /\ Alike(z, q, i)
      BY <1>1, <1>3, <3>1, <3>4, PackedOn
    <3> QED BY <3>3, <3>5 DEF h
  <2>2. CASE i + 1 = j /\ z = q
    <3>1. Alike(z, q, i) /\ z[i] = q[i]
      BY <2>2 DEF Alike
    <3>2. /\ q \in [1..L -> Nat]
          /\ \A n \in 1..L : /\ n > j - 1 => q[n] = row[n]
                             /\ n > i /\ n <= j - 1 => q[n] = 0
                             /\ n < i => q[n] # 0
      BY <1>3 DEF Packed
    <3>3. ASSUME NEW n \in 1..L
          PROVE  /\ n > j => q[n] = row[n]
                 /\ n > i + 1 /\ n <= j => q[n] = 0
                 /\ n < i + 1 => q[n] # 0
      <4>1. n > j => n > j - 1
        BY <1>1
      <4>2. ~(n > i + 1 /\ n <= j)
        BY <1>1, <2>2
      <4>3. n < i + 1 => n < i \/ n = i
        BY <1>3
      <4> QED BY <3>2, <4>1, <4>2, <4>3
    <3>4. q[j] = row[j]
      <4>1. j > j - 1
        BY <1>1
      <4> QED BY <1>1, <3>2, <4>1
    <3>5. i + 1 \in 1..j
      BY <1>3, <2>2
    <3> QED BY <2>2, <3>1, <3>2, <3>3, <3>4, <3>5 DEF Packed
  <2> QED BY <2>1, <2>2
<1>5. Open(z, i + 1) = 1 /\ c[j] >= 1
  BY <1>1, <1>4 DEF Open
<1>6. Built(z, i + 1, r, (c[j] + 1) - Open(z, i + 1))
  <2>1. (c[j] + 1) - Open(z, i + 1) = m + 1 /\ i \in Nat /\ i >= 1
    BY <1>1, <1>3, <1>5
  <2>2. m \in 1..Len(tl)
    <3>1. m >= 1 /\ m + 1 <= Len(tl)
      BY <1>1, <1>2, <1>3
    <3> QED BY <1>1, <1>2, <3>1
  <2>3. ~Paired(tl, m)
    BY <1>1, <1>3 DEF Paired
  <2>4. Built(z, i + 1, r, m + 1)
    BY <1>3, <1>4, <2>1, <2>2, <2>3, PairDiffers
  <2> QED BY <2>1, <2>4
<1>7. fr + ((i + 1) - 1) + Open(z, i + 1) = c[j]
  BY <1>1, <1>3, <1>5
<1>8. Noted(z, i + 1, mz, row)
  <2>0. i \in 1..(i + 1) /\ i # i + 1 /\ i + 1 \in 1..(i + 1)
    BY <1>3
  <2>1. CASE mv
    <3>0. mz
      BY <2>1
    <3>1. PICK a \in 1..i : q[a] # row[a] /\ (a = i => q[a] # 0 /\ row[a] = 0)
      BY <1>3, <2>1 DEF Noted
    <3>2. CASE a = i
      BY <1>4, <2>0, <3>0, <3>1, <3>2 DEF Noted
    <3>3. CASE a # i
      <4>1. a \in 1..(i - 1) /\ a \in 1..(i + 1) /\ a # i + 1
        BY <1>3, <3>1, <3>3
      <4>2. z[a] # row[a]
        BY <1>4, <3>1, <4>1 DEF Alike
      <4> QED BY <3>0, <4>1, <4>2 DEF Noted
    <3> QED BY <3>2, <3>3
  <2>2. CASE ~mv /\ i + 1 = j
    <3>1. ~mz /\ z = q /\ q = row /\ \A n \in 1..(i - 1) : row[n] # row[n + 1]
      BY <1>3, <2>2 DEF Noted
    <3>2. \A n \in 1..((i + 1) - 1) : n \in 1..(i - 1) \/ n = i
      BY <1>3
    <3>3. row[i] # row[i + 1]
      BY <2>2, <3>1
    <3> QED BY <3>1, <3>2, <3>3 DEF Noted
  <2>3. CASE ~mv /\ i + 1 # j
    <3>1. mz /\ q = row /\ i + 1 < j
      BY <1>3, <2>3 DEF Noted
    <3>2. i + 1 \in 1..L /\ i + 1 > i /\ i + 1 <= j - 1
      BY <1>1, <1>3, <3>1
    <3>3. q[i + 1] = 0
      BY <1>3, <3>2 DEF Packed
    <3> QED BY <1>4, <2>0, <3>1, <3>3 DEF Noted
  <2> QED BY <1>3, <2>1, <2>2, <2>3
<1>9. mz \in BOOLEAN
  BY <1>3
<1> QED BY <1>1, <1>3, <1>4, <1>5, <1>6, <1>7, <1>8, <1>9 DEF RowInv

(* The C program goes on to a blank in the last cell.                      *)
LEMMA LastBlank ==
  ASSUME NEW c, NEW tl, NEW r, NEW row, NEW L, Ruled(c, tl, r, row, L), L >= 2,
         NEW q, NEW i, NEW mv, NEW fr, RowInv(q, i, mv, fr, c[L], L, tl, r, row, L),
         q[i] # 0, i < L
  PROVE  RowInv(q, i + 1, mv, fr, c[L], L, tl, r, row, L)
<1> DEFINE m == c[L]
<1>1. L \in Nat /\ m = Len(tl) /\ m \in Nat
  BY RuledIs
<1>2. /\ Packed(q, i, L, row, L) /\ i \in 1..L
      /\ fr \in Nat /\ mv \in BOOLEAN /\ Noted(q, i, mv, row)
      /\ Built(q, i, r, (m + 1) - 1) /\ fr + (i - 1) + 1 = m /\ m >= 1 /\ q[i] = tl[m]
  BY RowInvIs
<1> HIDE DEF m
<1>3. /\ q \in [1..L -> Nat]
      /\ \A n \in 1..L : /\ n > L => q[n] = row[n]
                         /\ n > i /\ n <= L => q[n] = 0
                         /\ n < i => q[n] # 0
  BY <1>2 DEF Packed
<1>4. i + 1 \in 1..L /\ i \in Nat /\ i >= 1 /\ i + 1 > i
  BY <1>1, <1>2
<1>5. q[i + 1] = 0
  BY <1>1, <1>3, <1>4
<1>6. Packed(q, i + 1, L, row, L)
  <2>1. ASSUME NEW n \in 1..L
        PROVE  /\ n > L => q[n] = row[n]
               /\ n > i + 1 /\ n <= L => q[n] = 0
               /\ n < i + 1 => q[n] # 0
    <3>1. (n < i + 1 => n < i \/ n = i) /\ (n > i + 1 => n > i)
      BY <1>2
    <3> QED BY <1>3, <3>1
  <2> QED BY <1>3, <1>4, <2>1 DEF Packed
<1>7. Open(q, i + 1) = 0
  BY <1>5 DEF Open
<1>8. Built(q, i + 1, r, (m + 1) - Open(q, i + 1))
  <2>1. m \in 1..Len(tl) /\ ~Paired(tl, m)
    BY <1>1, <1>2 DEF Paired
  <2>2. (m + 1) - Open(q, i + 1) = m + 1
    BY <1>1, <1>7
  <2>3. Alike(q, q, i)
    BY DEF Alike
  <2>4. Built(q, i + 1, r, m + 1)
    BY <1>2, <1>4, <2>1, <2>3, PairDiffers
  <2> QED BY <2>2, <2>4
<1>9. fr + ((i + 1) - 1) + Open(q, i + 1) = m
  BY <1>1, <1>2, <1>7
<1>10. Noted(q, i + 1, mv, row)
  <2>1. CASE mv
    <3>1. PICK a \in 1..i : q[a] # row[a]
      BY <1>2, <2>1 DEF Noted
    <3>2. a \in 1..(i + 1) /\ a # i + 1
      BY <1>2
    <3> QED BY <2>1, <3>1, <3>2 DEF Noted
  <2>2. CASE ~mv
    <3>1. q = row /\ \A n \in 1..(i - 1) : row[n] # row[n + 1]
      BY <1>2, <2>2 DEF Noted
    <3>2. \A n \in 1..((i + 1) - 1) : n \in 1..(i - 1) \/ n = i
      BY <1>2
    <3> QED BY <1>5, <2>2, <3>1, <3>2 DEF Noted
  <2> QED BY <1>2, <2>1, <2>2
<1> QED BY <1>2, <1>5, <1>6, <1>8, <1>9, <1>10 DEF RowInv, m

----------------------------------------------------------------------------
(* The steps of the scan as it is written.                                 *)
RowScans(L) == [row : [1..L -> Nat], i : Nat, moved : BOOLEAN, freed : Nat, gained : Nat]
FieldsAre(t, q, i, mv, fr, L) ==
  t \in RowScans(L) /\ t.row = q /\ t.i = i /\ t.moved = mv /\ t.freed = fr
ScanInv(t, m, j, tl, r, row, L) ==
  t \in RowScans(L) /\ RowInv(t.row, t.i, t.moved, t.freed, m, j, tl, r, row, L)

LEMMA FieldsInv ==
  ASSUME NEW t, NEW q, NEW i, NEW mv, NEW fr, NEW L, FieldsAre(t, q, i, mv, fr, L),
         NEW m, NEW j, NEW tl, NEW r, NEW row, RowInv(q, i, mv, fr, m, j, tl, r, row, L)
  PROVE  ScanInv(t, m, j, tl, r, row, L)
BY DEF FieldsAre, ScanInv

LEMMA RowFields ==
  ASSUME NEW L, NEW s \in RowScans(L)
  PROVE  s.row \in [1..L -> Nat] /\ s.i \in Nat /\ s.moved \in BOOLEAN /\ s.freed \in Nat /\ s.gained \in Nat
BY DEF RowScans

LEMMA ShiftIs ==
  ASSUME NEW L, NEW s \in RowScans(L), NEW a \in 1..L, NEW j \in 1..L, a \in Nat
  PROVE  FieldsAre(Shift(s, a, j), [s.row EXCEPT ![a] = s.row[j], ![j] = 0], a,
                   s.moved \/ s.row[j] # 0, s.freed, L)
<1> DEFINE q == [s.row EXCEPT ![a] = s.row[j], ![j] = 0]
           mv == s.moved \/ s.row[j] # 0
<1>1. q \in [1..L -> Nat] /\ mv \in BOOLEAN
  BY RowFields
<1>2. Shift(s, a, j) = [s EXCEPT !.row = q, !.i = a, !.moved = mv]
  BY DEF Shift
<1> HIDE DEF q, mv
<1>3. FieldsAre([s EXCEPT !.row = q, !.i = a, !.moved = mv], q, a, mv, s.freed, L)
  BY <1>1 DEF RowScans, FieldsAre
<1> QED BY <1>2, <1>3 DEF q, mv

LEMMA TwoWritten ==
  ASSUME NEW L, NEW q \in [1..L -> Nat], NEW a \in 1..L, NEW j \in 1..L, NEW v \in Nat
  PROVE  [q EXCEPT ![a] = v, ![j] = 0] \in [1..L -> Nat]
OBVIOUS

LEMMA CombineIs ==
  ASSUME NEW L, NEW s \in RowScans(L), s.i \in 1..L, NEW j \in 1..L
  PROVE  FieldsAre(Combine(s, j), [s.row EXCEPT ![s.i] = s.row[s.i] + s.row[j], ![j] = 0], s.i + 1,
                   TRUE, s.freed + 1, L)
<1> DEFINE w == s.row[s.i] + s.row[j]
           q == [s.row EXCEPT ![s.i] = w, ![j] = 0]
           g == s.gained + 2 * s.row[j]
           f == s.freed + 1
           i == s.i + 1
<1>0. /\ s.row \in [1..L -> Nat] /\ s.i \in Nat /\ s.freed \in Nat /\ s.gained \in Nat
  BY RowFields
<1>1. q \in [1..L -> Nat] /\ g \in Nat /\ f \in Nat /\ i \in Nat
  <2>1. s.row[s.i] \in Nat /\ s.row[j] \in Nat
    BY <1>0
  <2>2. w \in Nat
    BY <2>1
  <2>3. g \in Nat
    <3>1. \A a, b \in Nat : a + 2 * b \in Nat
      OBVIOUS
    <3> QED BY <1>0, <2>1, <3>1
  <2>4. f \in Nat /\ i \in Nat
    BY <1>0
  <2> HIDE DEF w, g, f, i
  <2>5. q \in [1..L -> Nat]
    BY <1>0, <2>2, TwoWritten
  <2> QED BY <2>3, <2>4, <2>5
<1>2. Combine(s, j) = [s EXCEPT !.row = q, !.i = i, !.moved = TRUE, !.freed = f, !.gained = g]
  BY DEF Combine
<1> HIDE DEF w, q, g, f, i
<1>3. FieldsAre([s EXCEPT !.row = q, !.i = i, !.moved = TRUE, !.freed = f, !.gained = g], q, i, TRUE, f, L)
  BY <1>1 DEF RowScans, FieldsAre
<1> QED BY <1>2, <1>3 DEF w, q, f, i

LEMMA SkipIs ==
  ASSUME NEW L, NEW s \in RowScans(L)
  PROVE  FieldsAre([s EXCEPT !.i = s.i + 1], s.row, s.i + 1, s.moved, s.freed, L)
<1> DEFINE i == s.i + 1
<1>1. i \in Nat
  BY RowFields
<1> HIDE DEF i
<1>2. FieldsAre([s EXCEPT !.i = i], s.row, i, s.moved, s.freed, L)
  BY <1>1 DEF RowScans, FieldsAre
<1> QED BY <1>2 DEF i

LEMMA BlankMoved ==
  ASSUME NEW L, NEW q \in [1..L -> Nat], NEW a \in 1..L, NEW j \in 1..L, q[a] = 0, q[j] = 0
  PROVE  [q EXCEPT ![a] = q[j], ![j] = 0] = q
OBVIOUS

LEMMA ScanFollows ==
  ASSUME NEW c, NEW tl, NEW r, NEW row, NEW L, Ruled(c, tl, r, row, L), NEW j \in 2..L,
         NEW s, ScanInv(s, c[j - 1], j - 1, tl, r, row, L), row[j] # 0 \/ j = L
  PROVE  ScanInv(Scan(s, j), c[j], j, tl, r, row, L)
<1> DEFINE q == s.row
           i == s.i
           mv == s.moved
           fr == s.freed
<1>1. L \in Nat /\ j \in 1..L /\ j \in Int /\ row[j] \in Nat /\ L >= 2
  <2>1. L \in Nat
    BY RuledIs
  <2>2. j \in 1..L /\ j \in Int /\ L >= 2
    BY <2>1
  <2> QED BY <2>1, <2>2, RuledIs
<1>2. s \in RowScans(L) /\ RowInv(q, i, mv, fr, c[j - 1], j - 1, tl, r, row, L)
  BY DEF ScanInv
<1>3. q \in [1..L -> Nat] /\ i \in 1..(j - 1) /\ Packed(q, i, j - 1, row, L) /\ mv \in BOOLEAN
  BY <1>2, RowInvIs
<1>4. q[j] = row[j] /\ \A n \in 1..L : n > i /\ n <= j - 1 => q[n] = 0
  <2>1. j > j - 1
    BY <1>1
  <2> QED BY <1>1, <1>3, <2>1 DEF Packed
<1>5. i \in 1..L /\ i + 1 \in 1..L /\ i # j /\ i + 1 <= j /\ i \in Nat
  <2>1. L \in Nat /\ j \in 2..L /\ i \in 1..(j - 1)
    BY <1>1, <1>3
  <2> HIDE DEF i
  <2> QED BY <2>1
<1>6. row[j] = 0 => RowInv(q, i, mv, fr, c[j], j, tl, r, row, L)
  BY <1>2, BlankPassed
<1>7. Scan(s, j) = IF q[i] = 0 THEN Shift(s, i, j)
                   ELSE IF q[i] = q[j] THEN Combine(s, j)
                   ELSE IF q[i + 1] = 0 THEN Shift(s, i + 1, j)
                   ELSE [s EXCEPT !.i = s.i + 1]
  BY DEF Scan
<1>8. /\ FieldsAre(Shift(s, i, j), [q EXCEPT ![i] = q[j], ![j] = 0], i, mv \/ q[j] # 0, fr, L)
      /\ FieldsAre(Shift(s, i + 1, j), [q EXCEPT ![i + 1] = q[j], ![j] = 0], i + 1, mv \/ q[j] # 0, fr, L)
      /\ FieldsAre(Combine(s, j), [q EXCEPT ![i] = q[i] + q[j], ![j] = 0], i + 1, TRUE, fr + 1, L)
      /\ FieldsAre([s EXCEPT !.i = s.i + 1], q, i + 1, mv, fr, L)
  <2>1. i + 1 \in Nat
    BY <1>5
  <2>2. FieldsAre(Shift(s, i, j), [q EXCEPT ![i] = q[j], ![j] = 0], i, mv \/ q[j] # 0, fr, L)
    BY <1>1, <1>2, <1>5, ShiftIs
  <2>3. FieldsAre(Shift(s, i + 1, j), [q EXCEPT ![i + 1] = q[j], ![j] = 0], i + 1, mv \/ q[j] # 0, fr, L)
    BY <1>1, <1>2, <1>5, <2>1, ShiftIs
  <2>4. FieldsAre(Combine(s, j), [q EXCEPT ![i] = q[i] + q[j], ![j] = 0], i + 1, TRUE, fr + 1, L)
    BY <1>1, <1>2, <1>5, CombineIs
  <2>5. FieldsAre([s EXCEPT !.i = s.i + 1], q, i + 1, mv, fr, L)
    BY <1>2, SkipIs
  <2> QED BY <2>2, <2>3, <2>4, <2>5
<1> HIDE DEF q, i, mv, fr
<1>9. CASE q[i] = 0
  <2>1. Scan(s, j) = Shift(s, i, j)
    BY <1>7, <1>9
  <2> DEFINE z == [q EXCEPT ![i] = q[j], ![j] = 0]
  <2>2. CASE row[j] = 0
    <3>1. z = q
      BY <1>1, <1>3, <1>4, <1>5, <1>9, <2>2, BlankMoved
    <3>2. (mv \/ q[j] # 0) = mv
      BY <1>3, <1>4, <2>2
    <3>3. FieldsAre(Shift(s, i, j), q, i, mv, fr, L)
      BY <1>8, <3>1, <3>2
    <3> QED BY <1>6, <2>1, <2>2, <3>3, FieldsInv
  <2>3. CASE row[j] # 0
    <3>1. Wrote(z, q, i, row[j], j, L)
      BY <1>1, <1>3, <1>4, <1>5, WroteIs
    <3>2. FieldsAre(Shift(s, i, j), z, i, TRUE, fr, L)
      <4>1. (mv \/ q[j] # 0) = TRUE
        BY <1>4, <2>3
      <4> QED BY <1>8, <4>1
    <3> HIDE DEF z
    <3>3. RowInv(z, i, TRUE, fr, c[j], j, tl, r, row, L)
      BY <1>2, <1>9, <2>3, <3>1, TileShifted
    <3> QED BY <2>1, <3>2, <3>3, FieldsInv
  <2> QED BY <2>2, <2>3
<1>10. CASE q[i] # 0 /\ q[i] = q[j]
  <2>1. Scan(s, j) = Combine(s, j) /\ row[j] # 0 /\ q[i] = row[j]
    BY <1>4, <1>7, <1>10
  <2> DEFINE z == [q EXCEPT ![i] = q[i] + q[j], ![j] = 0]
             w == q[i] + q[j]
  <2>2. w = 2 * row[j] /\ w \in Nat
    BY <1>1, <1>4, <2>1
  <2>3. z = [q EXCEPT ![i] = w, ![j] = 0]
    OBVIOUS
  <2>4. FieldsAre(Combine(s, j), z, i + 1, TRUE, fr + 1, L)
    BY <1>8
  <2> HIDE DEF z, w
  <2>5. Wrote(z, q, i, w, j, L)
    BY <1>1, <1>3, <1>5, <2>2, <2>3, WroteIs
  <2>6. RowInv(z, i + 1, TRUE, fr + 1, c[j], j, tl, r, row, L)
    BY <1>2, <2>1, <2>2, <2>5, TilesCombined
  <2> QED BY <2>1, <2>4, <2>6, FieldsInv
<1>11. CASE q[i] # 0 /\ q[i] # q[j] /\ q[i + 1] = 0
  <2>1. Scan(s, j) = Shift(s, i + 1, j)
    BY <1>7, <1>11
  <2> DEFINE z == [q EXCEPT ![i + 1] = q[j], ![j] = 0]
  <2>2. CASE row[j] = 0
    <3>1. z = q
      BY <1>1, <1>3, <1>4, <1>5, <1>11, <2>2, BlankMoved
    <3>2. (mv \/ q[j] # 0) = mv
      BY <1>3, <1>4, <2>2
    <3>3. FieldsAre(Shift(s, i + 1, j), q, i + 1, mv, fr, L)
      BY <1>8, <3>1, <3>2
    <3>4. j = L /\ i < L
      BY <1>1, <1>3, <2>2
    <3>5. RowInv(q, i, mv, fr, c[L], L, tl, r, row, L)
      BY <1>6, <2>2, <3>4
    <3>6. RowInv(q, i + 1, mv, fr, c[L], L, tl, r, row, L)
      BY <1>1, <1>11, <3>4, <3>5, LastBlank
    <3> QED BY <2>1, <3>3, <3>4, <3>6, FieldsInv
  <2>3. CASE row[j] # 0
    <3>1. i + 1 # j /\ i + 1 < j
      BY <1>1, <1>4, <1>5, <1>11, <2>3
    <3>2. Wrote(z, q, i + 1, row[j], j, L)
      BY <1>1, <1>3, <1>4, <1>5, <3>1, WroteIs
    <3>3. FieldsAre(Shift(s, i + 1, j), z, i + 1, TRUE, fr, L)
      <4>1. (mv \/ q[j] # 0) = TRUE
        BY <1>4, <2>3
      <4> QED BY <1>8, <4>1
    <3> HIDE DEF z
    <3>4. RowInv(z, i + 1, TRUE, fr, c[j], j, tl, r, row, L)
      BY <1>2, <1>4, <1>11, <2>3, <3>1, <3>2, TileDiffers
    <3> QED BY <2>1, <3>3, <3>4, FieldsInv
  <2> QED BY <2>2, <2>3
<1>12. CASE q[i] # 0 /\ q[i] # q[j] /\ q[i + 1] # 0
  <2>1. Scan(s, j) = [s EXCEPT !.i = s.i + 1]
    BY <1>7, <1>12
  <2>2. i + 1 = j
    <3>1. i + 1 > i /\ (i + 1 <= j - 1 \/ i + 1 = j)
      BY <1>1, <1>5
    <3> QED BY <1>4, <1>5, <1>12, <3>1
  <2>3. row[j] # 0
    BY <1>4, <1>12, <2>2
  <2>4. RowInv(q, i + 1, mv, fr, c[j], j, tl, r, row, L)
    BY <1>2, <1>4, <1>12, <2>2, <2>3, TileDiffers
  <2> QED BY <1>8, <2>1, <2>4, FieldsInv
<1> QED BY <1>9, <1>10, <1>11, <1>12

(* The scan from the first cell to the last.                               *)
LEMMA StartIs ==
  ASSUME NEW row, NEW L, IsRow(row, L)
  PROVE  FieldsAre(Start(row), row, 1, FALSE, 0, L)
BY DEF IsRow, Start, FieldsAre, RowScans

LEMMA RoundIs ==
  ASSUME NEW L \in Nat, NEW p, NEW row, NEW f, NEW j \in 2..L, f[j - 1] \in RowScans(L)
  PROVE  \/ Round(p, row, f, j) = f[j - 1] /\ f[j - 1].row[j] = 0
         \/ Round(p, row, f, j) = Scan(f[j - 1], j) /\ (f[j - 1].row[j] # 0 \/ j = L)
<1> DEFINE s == f[j - 1]
<1>1. s.row \in [1..L -> Nat]
  BY RowFields
<1>2. Len(s.row) = L
  <2> DEFINE q == s.row
  <2>1. q \in [1..L -> Nat]
    BY <1>1
  <2> HIDE DEF q
  <2>2. q \in Seq(Nat) /\ DOMAIN q = 1..L
    BY <2>1
  <2>3. Len(q) \in Nat /\ DOMAIN q = 1..Len(q)
    BY <2>2
  <2>4. Len(q) = L
    BY <2>2, <2>3
  <2> QED BY <2>4 DEF q
<1>3. Round(p, row, f, j) = IF p = "c" THEN ScanC(s, j) ELSE ScanCpp(s, j)
  BY DEF Round
<1> HIDE DEF s
<1>4. j < L \/ j = L
  OBVIOUS
<1>5. \/ Round(p, row, f, j) = s /\ s.row[j] = 0
      \/ Round(p, row, f, j) = Scan(s, j) /\ (s.row[j] # 0 \/ j = L)
  BY <1>2, <1>3, <1>4 DEF ScanC, ScanCpp
<1> QED BY <1>5 DEF s

LEMMA RoundFollows ==
  ASSUME NEW c, NEW tl, NEW r, NEW row, NEW L, Ruled(c, tl, r, row, L), NEW j \in 2..L,
         NEW p, NEW f, ScanInv(f[j - 1], c[j - 1], j - 1, tl, r, row, L)
  PROVE  ScanInv(Round(p, row, f, j), c[j], j, tl, r, row, L)
<1> DEFINE s == f[j - 1]
           q == s.row
           i == s.i
           mv == s.moved
           fr == s.freed
<1>1. L \in Nat /\ j \in 1..L /\ j > j - 1
  <2>1. L \in Nat
    BY RuledIs
  <2> QED BY <2>1
<1>2. s \in RowScans(L) /\ RowInv(q, i, mv, fr, c[j - 1], j - 1, tl, r, row, L)
  BY DEF ScanInv
<1>3. Packed(q, i, j - 1, row, L)
  BY <1>2, RowInvIs
<1>4. q[j] = row[j]
  BY <1>1, <1>3 DEF Packed
<1>5. \/ Round(p, row, f, j) = s /\ q[j] = 0
      \/ Round(p, row, f, j) = Scan(s, j) /\ (q[j] # 0 \/ j = L)
  BY <1>1, <1>2, RoundIs
<1>6. CASE Round(p, row, f, j) = s /\ q[j] = 0
  <2>1. row[j] = 0
    BY <1>4, <1>6
  <2>2. RowInv(q, i, mv, fr, c[j], j, tl, r, row, L)
    BY <1>2, <2>1, BlankPassed
  <2> QED BY <1>2, <1>6, <2>2 DEF ScanInv
<1>7. CASE Round(p, row, f, j) = Scan(s, j) /\ (q[j] # 0 \/ j = L)
  <2>1. row[j] # 0 \/ j = L
    BY <1>4, <1>7
  <2>2. ScanInv(Scan(s, j), c[j], j, tl, r, row, L)
    BY <2>1, ScanFollows
  <2> QED BY <1>7, <2>2
<1> QED BY <1>5, <1>6, <1>7

LEMMA RowScanned ==
  ASSUME NEW c, NEW tl, NEW r, NEW row, NEW L, Ruled(c, tl, r, row, L), NEW p
  PROVE  ScanInv(MoveRow(p, row), c[L], L, tl, r, row, L)
<1>1. L \in Nat /\ L >= 1 /\ IsRow(row, L)
  BY RuledIs DEF Ruled
<1>2. PICK f : MoveRow(p, row) = f[L] /\ \A j \in 1..L : f[j] = Round(p, row, f, j)
  BY <1>1, MoveRowUnfolds
<1> DEFINE T == {n \in Nat : n \in 1..L => ScanInv(f[n], c[n], n, tl, r, row, L)}
<1>3. 0 \in T
  OBVIOUS
<1>4. ASSUME NEW n \in Nat, n \in T PROVE n + 1 \in T
  <2> SUFFICES ASSUME n + 1 \in 1..L PROVE ScanInv(f[n + 1], c[n + 1], n + 1, tl, r, row, L)
    OBVIOUS
  <2>1. CASE n = 0
    <3>1. n + 1 = 1 /\ 1 \in 1..L
      BY <1>1, <2>1
    <3>2. f[1] = Start(row)
      BY <1>2, <3>1 DEF Round
    <3>3. RowInv(row, 1, FALSE, 0, c[1], 1, tl, r, row, L)
      BY FirstCell
    <3>4. ScanInv(Start(row), c[1], 1, tl, r, row, L)
      BY <1>1, <3>3, StartIs, FieldsInv
    <3> QED BY <3>1, <3>2, <3>4
  <2>2. CASE n # 0
    <3> DEFINE j == n + 1
    <3>1. n \in 1..L /\ j \in 2..L /\ j \in 1..L /\ j - 1 = n
      BY <1>1, <2>2
    <3>2. ScanInv(f[n], c[n], n, tl, r, row, L)
      BY <1>4, <3>1
    <3> HIDE DEF j
    <3>3. ScanInv(f[j - 1], c[j - 1], j - 1, tl, r, row, L)
      BY <3>1, <3>2
    <3>4. ScanInv(Round(p, row, f, j), c[j], j, tl, r, row, L)
      BY <3>1, <3>3, RoundFollows
    <3>5. ScanInv(f[j], c[j], j, tl, r, row, L)
      BY <1>2, <3>1, <3>4
    <3> QED BY <3>5 DEF j
  <2> QED BY <2>1, <2>2
<1>5. L \in T
  <2> HIDE DEF T
  <2> QED BY <1>1, <1>3, <1>4, SetInduction
<1> QED BY <1>1, <1>2, <1>5

----------------------------------------------------------------------------
(* What the scan has made of the row at its end: its first e cells hold    *)
(* tiles, the others are blank.                                            *)
FilledTo(q, e, L) == e \in 0..L /\ \A n \in 1..L : q[n] # 0 <=> n <= e
Settled(row, L) ==
  \E e \in 0..L : FilledTo(row, e, L) /\ \A n \in 1..(e - 1) : row[n] # row[n + 1]

LEMMA RowEnds ==
  ASSUME NEW c, NEW tl, NEW r, NEW row, NEW L, Ruled(c, tl, r, row, L),
         NEW q, NEW i, NEW mv, NEW fr, RowInv(q, i, mv, fr, c[L], L, tl, r, row, L)
  PROVE  \E e \in 0..L : /\ e <= i /\ FilledTo(q, e, L) /\ fr + e = Len(tl)
                         /\ Built(q, e + 1, r, Len(tl) + 1)
<1> DEFINE m == Len(tl)
<1>1. L \in Nat /\ m \in Nat /\ m = c[L]
  BY RuledIs
<1>2. /\ Packed(q, i, L, row, L) /\ i \in 1..L /\ fr \in Nat
      /\ q[i] = 0 => Built(q, i, r, (m + 1) - 0) /\ fr + (i - 1) + 0 = m
      /\ q[i] # 0 => /\ Built(q, i, r, (m + 1) - 1) /\ fr + (i - 1) + 1 = m
                     /\ m >= 1 /\ q[i] = tl[m]
  BY <1>1, RowInvIs
<1>3. \A n \in 1..L : (n > i => q[n] = 0) /\ (n < i => q[n] # 0)
  <2>1. \A n \in 1..L : n <= L
    BY <1>1
  <2> QED BY <1>2, <2>1 DEF Packed
<1>4. CASE q[i] = 0
  <2>1. (m + 1) - 0 = m + 1 /\ fr + (i - 1) = m
    BY <1>1, <1>2, <1>4
  <2>2. (i - 1) + 1 = i /\ i - 1 \in 0..L /\ i - 1 <= i
    BY <1>1, <1>2
  <2>3. FilledTo(q, i - 1, L)
    <3>1. ASSUME NEW n \in 1..L PROVE q[n] # 0 <=> n <= i - 1
      <4>1. n < i \/ n = i \/ n > i
        BY <1>1, <1>2
      <4> QED BY <1>1, <1>2, <1>3, <1>4, <4>1
    <3> QED BY <2>2, <3>1 DEF FilledTo
  <2>4. Built(q, (i - 1) + 1, r, m + 1)
    BY <1>2, <1>4, <2>1, <2>2
  <2> DEFINE e == i - 1
  <2>5. e \in 0..L /\ e <= i /\ FilledTo(q, e, L) /\ fr + e = m /\ Built(q, e + 1, r, m + 1)
    BY <2>1, <2>2, <2>3, <2>4
  <2> HIDE DEF e, m
  <2> QED BY <2>5 DEF m
<1>5. CASE q[i] # 0
  <2>1. (m + 1) - 1 = m /\ fr + i = m /\ i \in 0..L /\ i \in Nat /\ i >= 1 /\ i <= i
    BY <1>1, <1>2, <1>5
  <2>2. FilledTo(q, i, L)
    <3>1. ASSUME NEW n \in 1..L PROVE q[n] # 0 <=> n <= i
      <4>1. n < i \/ n = i \/ n > i
        BY <1>1, <1>2
      <4> QED BY <1>1, <1>2, <1>3, <1>5, <4>1
    <3> QED BY <2>1, <3>1 DEF FilledTo
  <2>3. m \in 1..Len(tl) /\ ~Paired(tl, m)
    <3>1. m = Len(tl) /\ ~Paired(tl, m)
      BY DEF Paired
    <3> HIDE DEF m
    <3> QED BY <1>1, <1>2, <1>5, <3>1
  <2>4. Built(q, i, r, (m + 1) - 1) /\ q[i] = tl[m] /\ Alike(q, q, i)
    BY <1>2, <1>5 DEF Alike
  <2> HIDE DEF m
  <2>5. Built(q, i + 1, r, m + 1)
    BY <2>1, <2>3, <2>4, PairDiffers
  <2> QED BY <2>1, <2>2, <2>5 DEF m
<1> QED BY <1>4, <1>5

LEMMA RowBuilt ==
  ASSUME NEW c, NEW tl, NEW r, NEW row, NEW L, Ruled(c, tl, r, row, L), NEW q, q \in [1..L -> Nat],
         NEW e, FilledTo(q, e, L), Built(q, e + 1, r, Len(tl) + 1)
  PROVE  q = [j \in 1..L |-> IF j <= Len(r[1]) THEN r[1][j] ELSE 0]
<1> DEFINE d == Len(tl) + 1
<1>1. L \in Nat /\ e \in 0..L
  BY RuledIs DEF FilledTo
<1>2. Len(r[d]) = 0
  BY DEF Ruled, Joins
<1>3. Built(q, e + 1, r, d)
  OBVIOUS
<1> HIDE DEF d
<1>4. Len(r[1]) = ((e + 1) - 1) + Len(r[d]) /\ \A n \in 1..((e + 1) - 1) : r[1][n] = q[n]
  BY <1>3 DEF Built
<1>5. (e + 1) - 1 = e /\ Len(r[1]) = e
  BY <1>1, <1>2, <1>4
<1>6. ASSUME NEW j \in 1..L PROVE q[j] = IF j <= Len(r[1]) THEN r[1][j] ELSE 0
  <2>1. j <= e => j \in 1..e
    BY <1>1
  <2>2. j <= e => r[1][j] = q[j]
    BY <1>4, <1>5, <2>1
  <2>3. ~(j <= e) => q[j] = 0
    BY DEF FilledTo
  <2> QED BY <1>5, <2>2, <2>3
<1> QED BY <1>6

LEMMA FilledLength ==
  ASSUME NEW q, NEW L, IsRow(q, L), NEW e, FilledTo(q, e, L)
  PROVE  Len(Tiles(q)) = e
<1>1. PICK c : Lists(c, Tiles(q), q, L)
  BY TilesAre
<1>2. L \in Nat /\ L >= 1 /\ e \in 0..L /\ \A n \in 1..L : q[n] # 0 <=> n <= e
  BY RowIs DEF FilledTo
<1> DEFINE tl == Tiles(q)
<1>3. c[0] = 0 /\ Len(tl) = c[L]
  BY <1>1 DEF Lists
<1>4. \A j \in 1..L : (q[j] = 0 => c[j] = c[j - 1]) /\ (q[j] # 0 => c[j] = c[j - 1] + 1)
  BY <1>1 DEF Lists
<1> HIDE DEF tl
<1> DEFINE T == {n \in Nat : n <= L => c[n] = IF n <= e THEN n ELSE e}
<1>5. 0 \in T
  BY <1>2, <1>3
<1>6. ASSUME NEW n \in Nat, n \in T PROVE n + 1 \in T
  <2> SUFFICES ASSUME n + 1 <= L PROVE c[n + 1] = IF n + 1 <= e THEN n + 1 ELSE e
    OBVIOUS
  <2>1. n + 1 \in 1..L /\ (n + 1) - 1 = n /\ n <= L
    BY <1>2
  <2>2. c[n] = IF n <= e THEN n ELSE e
    BY <1>6, <2>1
  <2>3. CASE n + 1 <= e
    <3>1. c[n + 1] = c[n] + 1 /\ n <= e
      BY <1>2, <1>4, <2>1, <2>3
    <3> QED BY <2>2, <2>3, <3>1
  <2>4. CASE ~(n + 1 <= e)
    <3>1. c[n + 1] = c[n]
      BY <1>2, <1>4, <2>1, <2>4
    <3>2. n <= e => n = e
      BY <1>2, <2>4
    <3> QED BY <2>2, <2>4, <3>1, <3>2
  <2> QED BY <2>3, <2>4
<1>7. Nat \subseteq T
  <2> HIDE DEF T
  <2> QED BY <1>5, <1>6, SetInduction
<1>8. c[L] = e
  <2>1. c[L] = IF L <= e THEN L ELSE e
    BY <1>2, <1>7
  <2> QED BY <1>2, <2>1
<1> QED BY <1>3, <1>8 DEF tl

LEMMA RowRuled ==
  ASSUME NEW row, NEW L, IsRow(row, L)
  PROVE  \E c, r : /\ Ruled(c, Tiles(row), r, row, L)
                   /\ Merged(row) = [j \in 1..L |-> IF j <= Len(r[1]) THEN r[1][j] ELSE 0]
<1>1. PICK c : Lists(c, Tiles(row), row, L)
  BY TilesAre
<1>2. Tiles(row) \in Seq(Nat)
  BY <1>1 DEF Lists
<1>3. PICK r : /\ Joins(r, Tiles(row))
               /\ Merged(row) = [j \in 1..L |-> IF j <= Len(r[1]) THEN r[1][j] ELSE 0]
  BY <1>2, MergedUnfolds
<1> QED BY <1>1, <1>3 DEF Ruled

(* A row of any length moves as the rules say, and one that does not move  *)
(* has all its tiles at its beginning, no two neighbours equal.            *)
LEMMA RowMeets ==
  ASSUME NEW p, NEW row, NEW L, IsRow(row, L)
  PROVE  /\ MovesAsMerged(p, row)
         /\ IsRow(MoveRow(p, row).row, L)
         /\ MoveRow(p, row).moved \in BOOLEAN
         /\ ~MoveRow(p, row).moved => Settled(row, L)
<1> DEFINE t == MoveRow(p, row)
           q == t.row
           i == t.i
           mv == t.moved
           fr == t.freed
           tl == Tiles(row)
<1>1. PICK c, r : /\ Ruled(c, tl, r, row, L)
                  /\ Merged(row) = [j \in 1..L |-> IF j <= Len(r[1]) THEN r[1][j] ELSE 0]
  BY RowRuled
<1>2. ScanInv(t, c[L], L, tl, r, row, L)
  BY <1>1, RowScanned
<1>3. RowInv(q, i, mv, fr, c[L], L, tl, r, row, L)
  BY <1>2 DEF ScanInv
<1>4. q \in [1..L -> Nat] /\ mv \in BOOLEAN /\ fr \in Nat /\ Noted(q, i, mv, row) /\ i \in 1..L
  BY <1>3, RowInvIs
<1>5. L \in Nat /\ L >= 1 /\ row \in [1..L -> Nat]
  BY DEF IsRow
<1> HIDE DEF t, q, i, mv, fr
<1>6. PICK e \in 0..L : /\ e <= i /\ FilledTo(q, e, L) /\ fr + e = Len(tl)
                        /\ Built(q, e + 1, r, Len(tl) + 1)
  BY <1>1, <1>3, RowEnds
<1>7. q = Merged(row)
  <2>1. /\ Ruled(c, tl, r, row, L) /\ q \in [1..L -> Nat]
        /\ FilledTo(q, e, L) /\ Built(q, e + 1, r, Len(tl) + 1)
    BY <1>1, <1>4, <1>6
  <2>2. q = [j \in 1..L |-> IF j <= Len(r[1]) THEN r[1][j] ELSE 0]
    BY <2>1, RowBuilt
  <2> QED BY <1>1, <2>2
<1>8. IsRow(q, L)
  BY <1>4, <1>5 DEF IsRow
<1>9. mv = (q # row)
  <2>1. mv => q # row
    BY <1>4 DEF Noted
  <2>2. ~mv => q = row
    BY <1>4 DEF Noted
  <2> QED BY <1>4, <2>1, <2>2
<1>10. fr = Len(tl) - Len(Tiles(q))
  <2>1. Len(Tiles(q)) = e
    BY <1>6, <1>8, FilledLength
  <2> DEFINE x == Len(tl)
             y == Len(Tiles(q))
  <2>2. y = e /\ fr + e = x
    BY <1>6, <2>1
  <2> HIDE DEF x, y
  <2>3. fr = x - y
    BY <1>4, <2>2
  <2> QED BY <2>3 DEF x, y
<1>11. ~mv => Settled(row, L)
  <2> SUFFICES ASSUME ~mv PROVE Settled(row, L)
    OBVIOUS
  <2>1. q = row /\ \A n \in 1..(i - 1) : row[n] # row[n + 1]
    BY <1>4 DEF Noted
  <2>2. \A n \in 1..(e - 1) : n \in 1..(i - 1)
    BY <1>4, <1>6
  <2>3. FilledTo(row, e, L)
    BY <1>6, <2>1
  <2> QED BY <2>1, <2>2, <2>3 DEF Settled
<1>12. MovesAsMerged(p, row)
  <2>1. t.row = Merged(row) /\ t.moved = (t.row # row) /\ t.freed = Len(Tiles(row)) - Len(Tiles(t.row))
    BY <1>7, <1>9, <1>10 DEF q, mv, fr, tl
  <2> QED BY <2>1 DEF MovesAsMerged, t
<1>13. t.moved \in BOOLEAN /\ IsRow(t.row, L) /\ (~t.moved => Settled(row, L))
  BY <1>4, <1>8, <1>11 DEF q, mv
<1> QED BY <1>12, <1>13 DEF t

(* Whichever program scans it, a row of any length and any tiles ends as   *)
(* the rules say: one pass in place closes it up and merges its pairs,     *)
(* reports a move exactly when the row changed and counts what the merges  *)
(* freed (2048.c:159-190, 2048.cpp:118-143).                               *)
THEOREM EveryRowMovesAsMerged ==
  ASSUME NEW p, NEW row, NEW L, IsRow(row, L)
  PROVE  MovesAsMerged(p, row)
BY RowMeets

(* A full row without two equal neighbours does not move.                  *)
Full(row, L) ==
  /\ \A n \in 1..L : row[n] # 0
  /\ \A n \in 2..L : row[n] # row[n - 1]
Still(t, j, row, L) == t \in RowScans(L) /\ t.row = row /\ t.i = j /\ t.moved = FALSE

LEMMA FullRow ==
  ASSUME NEW p, NEW row, NEW L, IsRow(row, L), Full(row, L)
  PROVE  MoveRow(p, row).moved = FALSE
<1>1. L \in Nat /\ L >= 1 /\ (\A n \in 1..L : row[n] # 0) /\ \A n \in 2..L : row[n] # row[n - 1]
  BY RowIs DEF Full
<1>2. PICK f : MoveRow(p, row) = f[L] /\ \A j \in 1..L : f[j] = Round(p, row, f, j)
  BY MoveRowUnfolds
<1> DEFINE T == {n \in Nat : n \in 1..L => Still(f[n], n, row, L)}
<1>3. 0 \in T
  OBVIOUS
<1>4. ASSUME NEW n \in Nat, n \in T PROVE n + 1 \in T
  <2> SUFFICES ASSUME n + 1 \in 1..L PROVE Still(f[n + 1], n + 1, row, L)
    OBVIOUS
  <2>1. CASE n = 0
    <3>1. n + 1 = 1 /\ 1 \in 1..L
      BY <1>1, <2>1
    <3>2. f[1] = Start(row)
      BY <1>2, <3>1 DEF Round
    <3>3. Still(Start(row), 1, row, L)
      BY StartIs DEF FieldsAre, Still
    <3> QED BY <3>1, <3>2, <3>3
  <2>2. CASE n # 0
    <3> DEFINE j == n + 1
               s == f[j - 1]
    <3>1. n \in 1..L /\ j \in 2..L /\ j \in 1..L /\ j - 1 = n /\ j - 1 \in 1..L
      BY <1>1, <2>2
    <3>2. Still(s, n, row, L)
      BY <1>4, <3>1
    <3> HIDE DEF j
    <3>3. s \in RowScans(L) /\ s.row = row /\ s.i = j - 1 /\ s.moved = FALSE
      BY <3>1, <3>2 DEF Still
    <3>4. row[j] # 0 /\ row[j - 1] # 0 /\ row[j - 1] # row[j]
      BY <1>1, <3>1
    <3>5. f[j] = Scan(s, j)
      <4>1. f[j] = Round(p, row, f, j)
        BY <1>2, <3>1
      <4> QED BY <1>1, <3>1, <3>3, <3>4, <4>1, RoundIs
    <3> HIDE DEF s
    <3>6. s.i + 1 = j /\ (s.i + 1) \in Nat
      BY <3>1, <3>3
    <3>7. Scan(s, j) = [s EXCEPT !.i = s.i + 1]
      <4>1. s.row[s.i] # 0 /\ s.row[s.i] # s.row[j] /\ s.row[s.i + 1] # 0
        BY <3>3, <3>4, <3>6
      <4> QED BY <4>1 DEF Scan
    <3>8. Still(f[j], j, row, L)
      <4>1. FieldsAre([s EXCEPT !.i = s.i + 1], s.row, s.i + 1, s.moved, s.freed, L)
        BY <3>3, SkipIs
      <4> QED BY <3>3, <3>5, <3>6, <3>7, <4>1 DEF FieldsAre, Still
    <3> QED BY <3>8 DEF j
  <2> QED BY <2>1, <2>2
<1>5. L \in T
  <2> HIDE DEF T
  <2> QED BY <1>1, <1>3, <1>4, SetInduction
<1>6. Still(f[L], L, row, L)
  BY <1>1, <1>5
<1> QED BY <1>2, <1>6 DEF Still

----------------------------------------------------------------------------
(* The lines of a board.                                                   *)
Met(p, d, b, m) ==
  /\ \A k \in Size : /\ IsRow(Line(d, b, k), N)
                     /\ Line(d, m.board, k) = Merged(Line(d, b, k))
  /\ m.moved <=> \E k \in Size : MoveRow(p, Line(d, b, k)).moved

LEMMA BoardRow ==
  ASSUME NEW b \in Boards, NEW k \in Size
  PROVE  b[k] \in [Size -> Tile] /\ IsRow(b[k], N)
<1>1. b[k] \in [Size -> Tile]
  BY DEF Boards
<1> QED BY <1>1, NAssumption DEF IsRow, Size, Tile

LEMMA CellsAreARow ==
  ASSUME NEW b \in Boards
  PROVE  IsRow(Cells(b), N * N)
<1>1. N * N \in Nat /\ N * N >= 1
  BY NAssumption
<1>2. ASSUME NEW k \in 1..(N * N) PROVE b[RowOf(k - 1)][ColOf(k - 1)] \in Nat
  <2> DEFINE pos == k - 1
  <2>1. pos \in Positions
    <3> DEFINE M == N * N
    <3>1. M \in Nat /\ k \in 1..M
      BY <1>1
    <3> HIDE DEF M
    <3>2. k - 1 \in 0..(M - 1)
      BY <3>1
    <3> QED BY <3>2 DEF M, Positions
  <2> HIDE DEF pos
  <2>2. RowOf(pos) \in Size /\ ColOf(pos) \in Size
    BY <2>1, PositionOf
  <2>3. b[RowOf(pos)] \in [Size -> Tile]
    BY <2>2, BoardRow
  <2>4. b[RowOf(pos)][ColOf(pos)] \in Tile
    BY <2>2, <2>3
  <2> QED BY <2>4 DEF pos, Tile
<1>3. Cells(b) \in [1..(N * N) -> Nat]
  BY <1>2 DEF Cells
<1> QED BY <1>1, <1>3 DEF IsRow

LEMMA LeftMeets ==
  ASSUME NEW p, NEW b \in Boards
  PROVE  MoveLeft(p, b) \in Outcomes /\ Met(p, "left", b, MoveLeft(p, b))
<1> DEFINE m == MoveLeft(p, b)
<1>1. m \in Outcomes
  BY LeftKeeps DEF Keeps
<1>2. /\ m.board = [k \in Size |-> MoveRow(p, b[k]).row]
      /\ m.moved = \E k \in Size : MoveRow(p, b[k]).moved
  BY DEF MoveLeft
<1> HIDE DEF m
<1>3. \A x, k : Line("left", x, k) = x[k]
  BY DEF Line
<1>4. ASSUME NEW k \in Size
      PROVE IsRow(Line("left", b, k), N) /\ Line("left", m.board, k) = Merged(Line("left", b, k))
  <2>1. IsRow(b[k], N)
    BY BoardRow
  <2>2. MoveRow(p, b[k]).row = Merged(b[k])
    BY <2>1, RowMeets DEF MovesAsMerged
  <2>3. m.board[k] = MoveRow(p, b[k]).row
    BY <1>2
  <2> QED BY <1>3, <2>1, <2>2, <2>3
<1>5. m.moved <=> \E k \in Size : MoveRow(p, Line("left", b, k)).moved
  BY <1>2, <1>3
<1> QED BY <1>1, <1>4, <1>5 DEF Met, m

(* Where the lines of a turned board lie.                                  *)
LEMMA LinesTurn ==
  ASSUME NEW b, NEW k \in Size
  PROVE  /\ Line("left", Reversed(b), k) = Line("right", b, k)
         /\ Line("left", Transpose(b), k) = Line("up", b, k)
         /\ Line("right", Transpose(b), k) = Line("down", b, k)
<1>1. Line("left", Reversed(b), k) = Line("right", b, k)
  BY DEF Line, Reversed
<1>2. Line("left", Transpose(b), k) = Line("up", b, k)
  BY DEF Line, Transpose
<1>3. Line("right", Transpose(b), k) = Line("down", b, k)
  <2>1. \A j \in Size : N + 1 - j \in Size
    BY NAssumption DEF Size
  <2>2. \A j \in Size : Transpose(b)[k][N + 1 - j] = b[N + 1 - j][k]
    BY <2>1 DEF Transpose
  <2> QED BY <2>2 DEF Line
<1> QED BY <1>1, <1>2, <1>3

LEMMA TurnedBack ==
  ASSUME NEW b \in Boards
  PROVE  Reversed(Reversed(b)) = b /\ Transpose(Transpose(b)) = b
<1>1. \A i \in Size : b[i] = [j \in Size |-> b[i][j]]
  BY DEF Boards
<1>2. b = [i \in Size |-> [j \in Size |-> b[i][j]]]
  BY <1>1 DEF Boards
<1>3. \A j \in Size : N + 1 - j \in Size /\ N + 1 - (N + 1 - j) = j
  BY NAssumption DEF Size
<1>4. \A i, j \in Size : Reversed(Reversed(b))[i][j] = b[i][j] /\ Transpose(Transpose(b))[i][j] = b[i][j]
  BY <1>3 DEF Reversed, Transpose
<1>5. Reversed(Reversed(b)) = [i \in Size |-> [j \in Size |-> Reversed(Reversed(b))[i][j]]]
  BY DEF Reversed
<1>6. Transpose(Transpose(b)) = [i \in Size |-> [j \in Size |-> Transpose(Transpose(b))[i][j]]]
  BY DEF Transpose
<1>7. Reversed(Reversed(b)) = b
  BY <1>2, <1>4, <1>5
<1>8. Transpose(Transpose(b)) = b
  BY <1>2, <1>4, <1>6
<1> QED BY <1>7, <1>8

(* A move of a turned board e, turned back, is a move of the board b       *)
(* another way.                                                            *)
LEMMA MetTurned ==
  ASSUME NEW p, NEW d, NEW e, NEW b, NEW t, NEW m, m \in Outcomes, Met(p, d, t, m),
         NEW x \in Boards,
         \A k \in Size : Line(d, t, k) = Line(e, b, k) /\ Line(d, m.board, k) = Line(e, x, k)
  PROVE  [m EXCEPT !.board = x] \in Outcomes /\ Met(p, e, b, [m EXCEPT !.board = x])
<1> DEFINE r == [m EXCEPT !.board = x]
<1>1. r \in Outcomes /\ r.board = x /\ r.moved = m.moved
  BY DEF Outcomes
<1> HIDE DEF r
<1>2. ASSUME NEW k \in Size
      PROVE  IsRow(Line(e, b, k), N) /\ Line(e, r.board, k) = Merged(Line(e, b, k))
  BY <1>1, <1>2 DEF Met
<1>3. r.moved <=> \E k \in Size : MoveRow(p, Line(e, b, k)).moved
  BY <1>1 DEF Met
<1> QED BY <1>1, <1>2, <1>3 DEF Met, r

(* Each key moves the lines its own way.                                   *)
LEMMA MoveMeets ==
  ASSUME NEW p, NEW b \in Boards, NEW d \in Directions
  PROVE  Met(p, d, b, Moved(p, d, b))
<1>1. ASSUME NEW a \in Boards PROVE MoveLeft(p, a) \in Outcomes /\ Met(p, "left", a, MoveLeft(p, a))
  BY LeftMeets
<1>2. ASSUME NEW a \in Boards PROVE MoveRight(p, a) \in Outcomes /\ Met(p, "right", a, MoveRight(p, a))
  <2> DEFINE t == Reversed(a)
             m == MoveLeft(p, t)
             x == Reversed(m.board)
  <2>1. t \in Boards
    BY Turned
  <2>2. m \in Outcomes /\ Met(p, "left", t, m)
    BY <1>1, <2>1
  <2>3. MoveRight(p, a) = [m EXCEPT !.board = x]
    BY DEF MoveRight
  <2>4. m.board \in Boards
    BY <2>2 DEF Outcomes
  <2>5. x \in Boards /\ Reversed(x) = m.board
    BY <2>4, Turned, TurnedBack
  <2>6. \A k \in Size : /\ Line("left", t, k) = Line("right", a, k)
                        /\ Line("left", m.board, k) = Line("right", x, k)
    BY <2>5, LinesTurn
  <2> HIDE DEF t, m, x
  <2> QED BY <2>2, <2>3, <2>5, <2>6, MetTurned
<1>3. ASSUME NEW a \in Boards PROVE MoveUp(p, a) \in Outcomes /\ Met(p, "up", a, MoveUp(p, a))
  <2> DEFINE t == Transpose(a)
             m == MoveLeft(p, t)
             x == Transpose(m.board)
  <2>1. t \in Boards
    BY Turned
  <2>2. m \in Outcomes /\ Met(p, "left", t, m)
    BY <1>1, <2>1
  <2>3. MoveUp(p, a) = [m EXCEPT !.board = x]
    BY DEF MoveUp
  <2>4. m.board \in Boards
    BY <2>2 DEF Outcomes
  <2>5. x \in Boards /\ Transpose(x) = m.board
    BY <2>4, Turned, TurnedBack
  <2>6. \A k \in Size : /\ Line("left", t, k) = Line("up", a, k)
                        /\ Line("left", m.board, k) = Line("up", x, k)
    BY <2>5, LinesTurn
  <2> HIDE DEF t, m, x
  <2> QED BY <2>2, <2>3, <2>5, <2>6, MetTurned
<1>4. ASSUME NEW a \in Boards PROVE MoveDown(p, a) \in Outcomes /\ Met(p, "down", a, MoveDown(p, a))
  <2> DEFINE t == Transpose(a)
             m == MoveRight(p, t)
             x == Transpose(m.board)
  <2>1. t \in Boards
    BY Turned
  <2>2. m \in Outcomes /\ Met(p, "right", t, m)
    BY <1>2, <2>1
  <2>3. MoveDown(p, a) = [m EXCEPT !.board = x]
    BY DEF MoveDown
  <2>4. m.board \in Boards
    BY <2>2 DEF Outcomes
  <2>5. x \in Boards /\ Transpose(x) = m.board
    BY <2>4, Turned, TurnedBack
  <2>6. \A k \in Size : /\ Line("right", t, k) = Line("down", a, k)
                        /\ Line("right", m.board, k) = Line("down", x, k)
    BY <2>5, LinesTurn
  <2> HIDE DEF t, m, x
  <2> QED BY <2>2, <2>3, <2>5, <2>6, MetTurned
<1>5. /\ Moved(p, "left", b) = MoveLeft(p, b) /\ Moved(p, "right", b) = MoveRight(p, b)
      /\ Moved(p, "up", b) = MoveUp(p, b) /\ Moved(p, "down", b) = MoveDown(p, b)
  BY DEF Moved
<1>6. d = "left" \/ d = "right" \/ d = "up" \/ d = "down"
  BY DEF Directions
<1> QED BY <1>1, <1>2, <1>3, <1>4, <1>5, <1>6

----------------------------------------------------------------------------
(* A position is stuck exactly when no key changes it, unless it is all    *)
(* blank, which no position of the game is.                                *)
Lined(b) == \A d \in Directions, k \in Size : Settled(Line(d, b, k), N)

LEMMA LineIs ==
  ASSUME NEW b, NEW k \in Size
  PROVE  /\ Line("left", b, k) = b[k]
         /\ \A j \in Size : Line("right", b, k)[j] = b[k][N + 1 - j]
         /\ \A j \in Size : Line("up", b, k)[j] = b[j][k]
         /\ \A j \in Size : Line("down", b, k)[j] = b[N + 1 - j][k]
BY DEF Line

LEMMA StuckIsFull ==
  ASSUME NEW b, Stuck(b), NEW d \in Directions, NEW k \in Size
  PROVE  Full(Line(d, b, k), N)
<1>1. /\ \A i, j \in Size : b[i][j] # 0
      /\ \A i \in Size, j \in 2..N : b[i][j] # b[i][j - 1]
      /\ \A i \in 2..N, j \in Size : b[i][j] # b[i - 1][j]
  BY DEF Stuck
<1>2. ASSUME NEW n \in Size PROVE n \in Size /\ N + 1 - n \in Size
  BY NAssumption DEF Size
<1>3. ASSUME NEW n \in 2..N
      PROVE  /\ n \in Size /\ n - 1 \in Size
             /\ N + 1 - n \in Size /\ N + 1 - (n - 1) \in 2..N
             /\ (N + 1 - (n - 1)) - 1 = N + 1 - n
  BY NAssumption DEF Size
<1>4. CASE d = "left"
  BY <1>1, <1>3, <1>4, LineIs DEF Full, Size
<1>5. CASE d = "right"
  <2> DEFINE row == Line(d, b, k)
  <2>1. \A j \in Size : row[j] = b[k][N + 1 - j]
    BY <1>5, LineIs
  <2> HIDE DEF row
  <2>2. ASSUME NEW n \in Size PROVE row[n] # 0
    BY <1>1, <1>2, <2>1
  <2>3. ASSUME NEW n \in 2..N PROVE row[n] # row[n - 1]
    <3> DEFINE a == N + 1 - (n - 1)
    <3>1. a \in 2..N /\ a - 1 = N + 1 - n
      BY <1>3
    <3>2. row[n] = b[k][a - 1] /\ row[n - 1] = b[k][a]
      BY <1>3, <2>1, <3>1
    <3> HIDE DEF a
    <3> QED BY <1>1, <3>1, <3>2
  <2> QED BY <2>2, <2>3 DEF Full, Size, row
<1>6. CASE d = "up"
  <2> DEFINE row == Line(d, b, k)
  <2>1. \A j \in Size : row[j] = b[j][k]
    BY <1>6, LineIs
  <2> HIDE DEF row
  <2>2. ASSUME NEW n \in Size PROVE row[n] # 0
    BY <1>1, <1>2, <2>1
  <2>3. ASSUME NEW n \in 2..N PROVE row[n] # row[n - 1]
    BY <1>1, <1>3, <2>1
  <2> QED BY <2>2, <2>3 DEF Full, Size, row
<1>7. CASE d = "down"
  <2> DEFINE row == Line(d, b, k)
  <2>1. \A j \in Size : row[j] = b[N + 1 - j][k]
    BY <1>7, LineIs
  <2> HIDE DEF row
  <2>2. ASSUME NEW n \in Size PROVE row[n] # 0
    BY <1>1, <1>2, <2>1
  <2>3. ASSUME NEW n \in 2..N PROVE row[n] # row[n - 1]
    <3> DEFINE a == N + 1 - (n - 1)
    <3>1. a \in 2..N /\ a - 1 = N + 1 - n
      BY <1>3
    <3>2. row[n] = b[a - 1][k] /\ row[n - 1] = b[a][k]
      BY <1>3, <2>1, <3>1
    <3> HIDE DEF a
    <3> QED BY <1>1, <3>1, <3>2
  <2> QED BY <2>2, <2>3 DEF Full, Size, row
<1> QED BY <1>4, <1>5, <1>6, <1>7 DEF Directions

(* A row that moves neither way is full or blank.                          *)
LEMMA BothWays ==
  ASSUME NEW row, NEW back, \A n \in Size : back[n] = row[N + 1 - n],
         Settled(row, N), Settled(back, N), NEW a \in Size, row[a] = 0
  PROVE  \A n \in Size : row[n] = 0
<1>1. PICK e \in 0..N : FilledTo(row, e, N)
  BY DEF Settled
<1>2. PICK g \in 0..N : FilledTo(back, g, N)
  BY DEF Settled
<1>3. /\ \A n \in Size : row[n] # 0 <=> n <= e
      /\ \A n \in Size : back[n] # 0 <=> n <= g
  BY <1>1, <1>2 DEF FilledTo, Size
<1>4. 1 \in Size /\ N \in Size /\ N + 1 - N = 1 /\ N \in Nat
  BY NAssumption DEF Size
<1>5. N + 1 - a \in Size /\ N + 1 - (N + 1 - a) = a /\ a \in 1..N
  BY <1>4 DEF Size
<1>6. CASE row[1] = 0
  <2>1. ~(1 <= e)
    BY <1>3, <1>4, <1>6
  <2>2. \A n \in Size : ~(n <= e)
    BY <1>4, <2>1 DEF Size
  <2> QED BY <1>3, <2>2
<1>7. CASE row[1] # 0
  <2>1. back[N] # 0
    BY <1>4, <1>7
  <2>2. N <= g
    BY <1>3, <1>4, <2>1
  <2>3. N + 1 - a <= g
    BY <1>4, <1>5, <2>2
  <2>4. back[N + 1 - a] # 0
    BY <1>3, <1>5, <2>3
  <2>5. back[N + 1 - a] = row[a]
    BY <1>5
  <2> QED BY <2>4, <2>5
<1> QED BY <1>6, <1>7

LEMMA FullIsSettled ==
  ASSUME NEW row, Settled(row, N), \A n \in Size : row[n] # 0, NEW j \in 2..N
  PROVE  row[j] # row[j - 1]
<1>1. PICK e \in 0..N : FilledTo(row, e, N) /\ \A n \in 1..(e - 1) : row[n] # row[n + 1]
  BY DEF Settled
<1>2. N \in Size /\ N \in Nat
  BY NAssumption DEF Size
<1>3. N <= e
  BY <1>1, <1>2 DEF FilledTo, Size
<1> DEFINE n == j - 1
<1>4. n \in 1..(e - 1) /\ n + 1 = j
  BY <1>2, <1>3
<1> HIDE DEF n
<1>5. row[n] # row[n + 1]
  BY <1>1, <1>4
<1>6. n = j - 1
  BY DEF n
<1> QED BY <1>4, <1>5, <1>6

LEMMA LinedIsStuck ==
  ASSUME NEW b, Lined(b), NEW c1 \in Size, NEW c2 \in Size, b[c1][c2] # 0
  PROVE  Stuck(b)
<1>1. ASSUME NEW k \in Size
      PROVE  /\ Settled(b[k], N) /\ Settled(Line("right", b, k), N)
             /\ Settled(Line("up", b, k), N) /\ Settled(Line("down", b, k), N)
  <2>1. \A d \in Directions : Settled(Line(d, b, k), N)
    BY DEF Lined
  <2>2. "left" \in Directions /\ "right" \in Directions /\ "up" \in Directions /\ "down" \in Directions
    BY DEF Directions
  <2>3. Line("left", b, k) = b[k]
    BY LineIs
  <2>4. Settled(Line("left", b, k), N)
    BY <2>1, <2>2
  <2> QED BY <2>1, <2>2, <2>3, <2>4
<1>2. \A j \in Size : N + 1 - j \in Size
  BY NAssumption DEF Size
<1>3. ASSUME NEW k \in Size, NEW a \in Size, b[k][a] = 0 PROVE \A n \in Size : b[k][n] = 0
  <2> DEFINE row == b[k]
             back == Line("right", b, k)
  <2>1. \A n \in Size : back[n] = row[N + 1 - n]
    BY LineIs
  <2>2. Settled(row, N) /\ Settled(back, N) /\ row[a] = 0
    BY <1>1, <1>3
  <2> HIDE DEF row, back
  <2>3. \A n \in Size : row[n] = 0
    BY <2>1, <2>2, BothWays
  <2> QED BY <2>3 DEF row
<1>4. ASSUME NEW k \in Size, NEW a \in Size, b[a][k] = 0 PROVE \A n \in Size : b[n][k] = 0
  <2> DEFINE row == Line("up", b, k)
             back == Line("down", b, k)
  <2>1. \A n \in Size : row[n] = b[n][k] /\ back[n] = b[N + 1 - n][k]
    BY LineIs
  <2>2. Settled(row, N) /\ Settled(back, N)
    BY <1>1
  <2> HIDE DEF row, back
  <2>3. row[a] = 0 /\ \A n \in Size : back[n] = row[N + 1 - n]
    BY <1>2, <1>4, <2>1
  <2>4. \A n \in Size : row[n] = 0
    BY <2>2, <2>3, BothWays
  <2> QED BY <2>1, <2>4
<1>5. ASSUME NEW i \in Size, NEW j \in Size PROVE b[i][j] # 0
  <2> SUFFICES ASSUME b[i][j] = 0 PROVE FALSE
    OBVIOUS
  <2>1. b[i][c2] = 0
    BY <1>3
  <2>2. b[c1][c2] = 0
    BY <1>4, <2>1
  <2> QED BY <2>2
<1>6. ASSUME NEW i \in Size, NEW j \in 2..N PROVE b[i][j] # b[i][j - 1]
  <2>1. Settled(b[i], N) /\ \A n \in Size : b[i][n] # 0
    BY <1>1, <1>5
  <2> QED BY <2>1, FullIsSettled
<1>7. ASSUME NEW i \in 2..N, NEW j \in Size PROVE b[i][j] # b[i - 1][j]
  <2> DEFINE row == Line("up", b, j)
  <2>1. \A n \in Size : row[n] = b[n][j]
    BY LineIs
  <2>2. Settled(row, N)
    BY <1>1
  <2> HIDE DEF row
  <2>3. \A n \in Size : row[n] # 0
    BY <1>5, <2>1
  <2>4. row[i] # row[i - 1]
    BY <2>2, <2>3, FullIsSettled
  <2>5. i \in Size /\ i - 1 \in Size
    BY NAssumption DEF Size
  <2> QED BY <2>1, <2>4, <2>5
<1> QED BY <1>5, <1>6, <1>7 DEF Stuck

LEMMA StuckIsUnmoved ==
  ASSUME NEW p, NEW b \in Boards, NEW c1 \in Size, NEW c2 \in Size, b[c1][c2] # 0
  PROVE  Stuck(b) <=> \A d \in Directions : ~Moved(p, d, b).moved
<1>1. ASSUME NEW d \in Directions
      PROVE  /\ \A k \in Size : IsRow(Line(d, b, k), N)
             /\ Moved(p, d, b).moved <=> \E k \in Size : MoveRow(p, Line(d, b, k)).moved
  BY MoveMeets DEF Met
<1>2. ASSUME Stuck(b), NEW d \in Directions PROVE ~Moved(p, d, b).moved
  <2>1. ASSUME NEW k \in Size PROVE MoveRow(p, Line(d, b, k)).moved = FALSE
    <3>1. IsRow(Line(d, b, k), N) /\ Full(Line(d, b, k), N)
      BY <1>1, <1>2, StuckIsFull
    <3> QED BY <3>1, FullRow
  <2> QED BY <1>1, <2>1
<1>3. ASSUME \A d \in Directions : ~Moved(p, d, b).moved PROVE Stuck(b)
  <2>1. ASSUME NEW d \in Directions, NEW k \in Size PROVE Settled(Line(d, b, k), N)
    <3>1. IsRow(Line(d, b, k), N) /\ ~MoveRow(p, Line(d, b, k)).moved
      BY <1>1, <1>3
    <3> QED BY <3>1, RowMeets
  <2>2. Lined(b)
    BY <2>1 DEF Lined
  <2> QED BY <2>2, LinedIsStuck
<1> QED BY <1>2, <1>3

(* The board is never all blank: there is a tile from the start, and the   *)
(* sum of the board never falls.                                           *)
LEMMA SumOfBlanks ==
  ASSUME NEW b \in Boards
  PROVE  Total(b) \in Nat /\ (Total(b) > 0 <=> \E i, j \in Size : b[i][j] # 0)
<1> DEFINE f == [i \in Size |-> SumOf(b[i])]
<1>1. ASSUME NEW i \in Size PROVE b[i] \in [Size -> Nat]
  BY DEF Boards, Tile
<1>2. f \in [Size -> Nat]
  BY <1>1, SumIsNat
<1>3. Total(b) = SumOf(f) /\ \A i \in Size : f[i] = SumOf(b[i])
  BY DEF Total
<1> HIDE DEF f
<1>4. Total(b) \in Nat
  BY <1>2, <1>3, SumIsNat
<1>5. ASSUME NEW i \in Size, NEW j \in Size, b[i][j] # 0 PROVE Total(b) > 0
  <2>1. b[i] \in [Size -> Nat] /\ b[i][j] > 0
    BY <1>1, <1>5
  <2>2. f[i] > 0
    BY <1>3, <2>1, SumIsPositive
  <2> QED BY <1>2, <1>3, <2>2, SumIsPositive
<1>6. ASSUME \A i, j \in Size : b[i][j] = 0 PROVE Total(b) = 0
  <2>1. N * 0 = 0
    BY NAssumption
  <2>2. \A i \in Size : f[i] = 0
    <3>1. ASSUME NEW i \in Size PROVE SumOf(b[i]) = 0
      <4>1. \A j \in Size : b[i][j] = 0
        BY <1>6
      <4>2. SumOf(b[i]) = N * 0
        BY <4>1, SumOfConstant
      <4> QED BY <2>1, <4>2
    <3> QED BY <1>3, <3>1
  <2>3. SumOf(f) = N * 0
    BY <2>2, SumOfConstant
  <2> QED BY <1>3, <2>1, <2>3
<1> QED BY <1>4, <1>5, <1>6

RulesInv == GameInv /\ Total(board) > 0

LEMMA InitRules == Init => RulesInv
<1> SUFFICES ASSUME Init PROVE RulesInv
  OBVIOUS
<1>1. GameInv /\ board \in Boards
  BY InitInv DEF GameInv
<1>2. PICK pos1 \in Positions, pos2 \in Positions :
        \E v1 \in NewValues(pos1), v2 \in NewValues(pos2) :
           board = Put(Put(Empty, pos1, v1), pos2, v2)
  BY DEF Init
<1>3. PICK v1 \in NewValues(pos1), v2 \in NewValues(pos2) :
        board = Put(Put(Empty, pos1, v1), pos2, v2)
  BY <1>2
<1> DEFINE one == Put(Empty, pos1, v1)
           i == RowOf(pos2)
           j == ColOf(pos2)
<1>4. i \in Size /\ j \in Size
  BY PositionOf
<1>5. v1 \in {2, 4} /\ v2 \in {2, 4} /\ v1 \in Tile
  BY ValuesAreTwoOrFour DEF Tile
<1>6. one \in Boards
  BY <1>5, EmptyWeight, PutWeight, IsBlankWeight
<1>7. board = [one EXCEPT ![i][j] = v2]
  BY <1>3 DEF Put
<1> HIDE DEF one, i, j
<1>8. board[i][j] = v2
  BY <1>4, <1>6, <1>7 DEF Boards
<1>9. board[i][j] # 0
  BY <1>5, <1>8
<1> QED BY <1>1, <1>4, <1>9, SumOfBlanks DEF RulesInv

LEMMA RulesStep == RulesInv /\ [Next]_vars => RulesInv'
<1> SUFFICES ASSUME RulesInv, [Next]_vars PROVE RulesInv'
  OBVIOUS
<1>1. /\ GameInv /\ GameInv' /\ Total(board) > 0
      /\ UNCHANGED vars \/ phase' = "quit"
           \/ Total(board') - Total(board) \in (IF moved' THEN {2, 4} ELSE {0})
  BY GameStep DEF RulesInv
<1>2. Total(board) \in Nat /\ Total(board') \in Nat
  BY <1>1, SumOfBlanks DEF GameInv
<1>3. CASE UNCHANGED vars
  BY <1>1, <1>3 DEF RulesInv, vars
<1>4. CASE phase' = "quit" /\ ~UNCHANGED vars
  <2>1. Quit
    BY <1>4 DEF Next, MoveC, MoveCpp
  <2> QED BY <1>1, <2>1 DEF RulesInv, Quit
<1>5. CASE Total(board') - Total(board) \in (IF moved' THEN {2, 4} ELSE {0})
  <2> DEFINE x == Total(board)
             y == Total(board')
  <2>1. x \in Nat /\ y \in Nat /\ x > 0 /\ y - x \in {0, 2, 4}
    BY <1>1, <1>2, <1>5
  <2> HIDE DEF x, y
  <2>2. y > 0
    BY <2>1
  <2> QED BY <1>1, <2>2 DEF RulesInv, y
<1> QED BY <1>1, <1>3, <1>4, <1>5

LEMMA RulesAreFollowed == RulesInv => MovesFollowRules
<1> SUFFICES ASSUME RulesInv PROVE MovesFollowRules
  OBVIOUS
<1>1. board \in Boards /\ Total(board) > 0
  BY DEF RulesInv, GameInv
<1>2. PICK i \in Size, j \in Size : board[i][j] # 0
  BY <1>1, SumOfBlanks
<1>3. MovesAsMerged(prog, Cells(board))
  BY <1>1, CellsAreARow, RowMeets
<1>4. \A d \in Directions, k \in Size :
        Line(d, Moved(prog, d, board).board, k) = Merged(Line(d, board, k))
  BY <1>1, MoveMeets DEF Met
<1>5. Stuck(board) <=> \A d \in Directions : ~Moved(prog, d, board).moved
  BY <1>1, <1>2, StuckIsUnmoved
<1> QED BY <1>3, <1>4, <1>5 DEF MovesFollowRules

(* In either program and on a board of any size every key moves the lines  *)
(* of the board as the rules of the game say, no tile merging twice; the   *)
(* in-place scan of a row of any length reports a move exactly when the    *)
(* row changed and counts the cells it freed; and a position is stuck      *)
(* exactly when no key changes it (2048.c:159-211, 2048.cpp:118-143).      *)
THEOREM MovesFollowRulesHold == Spec => []MovesFollowRules
BY InitRules, RulesStep, RulesAreFollowed, PTL DEF Spec
=============================================================================
