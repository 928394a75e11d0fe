------------------------------ MODULE Game2048 ------------------------------
(***************************************************************************)
(* The game 2048 of src/2048: the program in C (2048.c) and the one in C++ *)
(* (cpp2048/2048.cpp, with the automatic player of cpp2048/ai.cpp).  prog  *)
(* says which of the two is running.  Both keep the board, the number of   *)
(* blank cells and the score apart, and change all three while one row is  *)
(* scanned; they differ in the scan, in the values of new tiles and in     *)
(* what comes first after a move, the new tile or the test for the end.    *)
(***************************************************************************)
EXTENDS Integers, Sequences, FiniteSets

CONSTANT N                     \* BOARD_SIZE

ASSUME NAssumption == N \in Nat /\ N >= 2

VARIABLES
  prog,                        \* "c" or "cpp"
  board, blank_num, moved, score,
  phase,                       \* "playing", "over" or "quit"
  stray,                       \* a tile was written at position -1
  fours                        \* history: the new tiles that were a 4

vars == <<prog, board, blank_num, moved, score, phase, stray, fours>>

Size == 1..N
Positions == 0 .. N * N - 1
RowOf(pos) == pos \div N + 1
ColOf(pos) == (pos % N) + 1
Blanks(b) == {pos \in Positions : b[RowOf(pos)][ColOf(pos)] = 0}
Put(b, pos, value) == [b EXCEPT ![RowOf(pos)][ColOf(pos)] = value]

----------------------------------------------------------------------------
(* One row.  s.i is the cell being filled, j the cell being looked at.     *)
(* Mutant: the old cell is kept.                                           *)
ShiftCopies(s, to, j) ==
  [s EXCEPT !.row = [s.row EXCEPT ![to] = s.row[j]], !.i = to, !.moved = TRUE]

Shift(s, to, j) ==
  [s EXCEPT !.row = [s.row EXCEPT ![to] = s.row[j], ![j] = 0],
            !.i = to,
            !.moved = @ \/ s.row[j] # 0]

(* Mutants of Combine: the freed cell is not counted, the new tile may     *)
(* merge again.                                                            *)
CombineUncounted(s, j) ==
  [s EXCEPT !.row = [s.row EXCEPT ![s.i] = s.row[s.i] + s.row[j], ![j] = 0], !.i = @ + 1,
            !.moved = TRUE, !.gained = @ + 2 * s.row[j]]
CombineAgain(s, j) ==
  [s EXCEPT !.row = [s.row EXCEPT ![s.i] = s.row[s.i] + s.row[j], ![j] = 0],
            !.moved = TRUE, !.freed = @ + 1, !.gained = @ + 2 * s.row[j]]

Combine(s, j) ==
  [s EXCEPT !.row = [s.row EXCEPT ![s.i] = s.row[s.i] + s.row[j], ![j] = 0],
            !.i = @ + 1,
            !.moved = TRUE,
            !.freed = @ + 1,
            !.gained = @ + 2 * s.row[j]]

Scan(s, j) ==
  IF s.row[s.i] = 0                THEN Shift(s, s.i, j)
  ELSE IF s.row[s.i] = s.row[j]    THEN Combine(s, j)
  ELSE IF s.row[s.i + 1] = 0       THEN Shift(s, s.i + 1, j)
  ELSE [s EXCEPT !.i = @ + 1]

(* The C program does not skip a blank in the last column.                 *)
ScanC(s, j) == IF s.row[j] = 0 /\ j < Len(s.row) THEN s ELSE Scan(s, j)
ScanCpp(s, j) == IF s.row[j] = 0 THEN s ELSE Scan(s, j)

MoveRow(p, row) ==
  LET scan[j \in 1..Len(row)] ==
        IF j = 1
        THEN [row |-> row, i |-> 1, moved |-> FALSE, freed |-> 0, gained |-> 0]
        ELSE IF p = "c" THEN ScanC(scan[j - 1], j) ELSE ScanCpp(scan[j - 1], j)
  IN  scan[Len(row)]

----------------------------------------------------------------------------
Transpose(b) == [i \in Size |-> [j \in Size |-> b[j][i]]]
Reversed(b) == [i \in Size |-> [j \in Size |-> b[i][N + 1 - j]]]

(* What adds up from row to row, or from cell to cell of a row.            *)
SumOf(f) ==
  LET upTo[k \in 0..N] == IF k = 0 THEN 0 ELSE upTo[k - 1] + f[k] IN upTo[N]

MoveLeft(p, b) ==
  LET done == [k \in Size |-> MoveRow(p, b[k])]
  IN  [board  |-> [k \in Size |-> done[k].row],
       moved  |-> \E k \in Size : done[k].moved,
       freed  |-> SumOf([k \in Size |-> done[k].freed]),
       gained |-> SumOf([k \in Size |-> done[k].gained])]

MoveUp(p, b) ==
  LET m == MoveLeft(p, Transpose(b)) IN [m EXCEPT !.board = Transpose(@)]

MoveRight(p, b) ==
  LET m == MoveLeft(p, Reversed(b)) IN [m EXCEPT !.board = Reversed(@)]

MoveDown(p, b) ==
  LET m == MoveRight(p, Transpose(b)) IN [m EXCEPT !.board = Transpose(@)]

Directions == {"left", "up", "right", "down"}
Moved(p, d, b) ==
  CASE d = "left" -> MoveLeft(p, b) [] d = "right" -> MoveRight(p, b)
    [] d = "up"   -> MoveUp(p, b)   [] d = "down"  -> MoveDown(p, b)

(* Mutant: the columns of the border are not looked at.                    *)
MoveableRows(b) ==
  \/ \E i, j \in Size : b[i][j] = 0
  \/ \E i, j \in 2..(N - 1) : b[i][j] \in {b[i - 1][j], b[i + 1][j], b[i][j - 1], b[i][j + 1]}
  \/ \E i \in {1, N}, j \in 2..N : b[i][j] = b[i][j - 1]

(* A blank, an inner cell equal to a neighbour, or two equal neighbours on *)
(* the border.                                                             *)
Moveable(b) ==
  \/ \E i, j \in Size : b[i][j] = 0
  \/ \E i, j \in 2..(N - 1) : b[i][j] \in {b[i - 1][j], b[i + 1][j], b[i][j - 1], b[i][j + 1]}
  \/ \E i \in {1, N}, j \in 2..N : b[i][j] = b[i][j - 1]
  \/ \E j \in {1, N}, i \in 2..N : b[i][j] = b[i - 1][j]

----------------------------------------------------------------------------
(* The C program draws the value by itself, the C++ one takes it from the  *)
(* position.                                                               *)
NewValues(pos) ==
  IF prog = "c" THEN {2, 4} ELSE {IF pos % 2 = 1 THEN 2 ELSE 4}

OneIfFour(value) == IF value = 4 THEN 1 ELSE 0

(* A tile is put on a random blank cell.  Without a blank the C program    *)
(* writes at position -1, the C++ one does nothing.                        *)
NextTile(b, blanks) ==
  \/ /\ blanks = 0
     /\ board' = b /\ blank_num' = blanks /\ fours' = fours
     /\ stray' = (stray \/ prog = "c")
  \/ /\ blanks # 0
     /\ \E pos \in Blanks(b) : \E value \in NewValues(pos) :
          /\ board' = Put(b, pos, value)
          /\ fours' = fours + OneIfFour(value)
     /\ blank_num' = blanks - 1
     /\ stray' = stray

NoTile(b, blanks) ==
  board' = b /\ blank_num' = blanks /\ UNCHANGED <<stray, fours>>

Empty == [i \in Size |-> [j \in Size |-> 0]]

Init ==
  /\ prog \in {"c", "cpp"}
  /\ \E pos1, pos2 \in Positions : \E v1 \in NewValues(pos1), v2 \in NewValues(pos2) :
       /\ pos1 # pos2
       /\ board = Put(Put(Empty, pos1, v1), pos2, v2)
       /\ fours = OneIfFour(v1) + OneIfFour(v2)
  /\ blank_num = N * N - 2
  /\ moved = FALSE /\ score = 0 /\ phase = "playing" /\ stray = FALSE

(* The C program tests for the end before the new tile is put.             *)
MoveC(d) ==
  LET m == Moved("c", d, board) IN
  /\ prog = "c" /\ phase = "playing"
  /\ moved' = m.moved
  /\ score' = score + m.gained
  /\ phase' = IF Moveable(m.board) THEN "playing" ELSE "over"
  /\ IF Moveable(m.board) /\ m.moved
     THEN NextTile(m.board, blank_num + m.freed)
     ELSE NoTile(m.board, blank_num + m.freed)
  /\ UNCHANGED prog

(* Mutant: the end is tested before the new tile is put.                   *)
MoveCppTestsFirst(d) ==
  LET m == Moved("cpp", d, board) IN
  /\ prog = "cpp" /\ phase = "playing"
  /\ moved' = m.moved
  /\ score' = score + m.gained
  /\ IF m.moved
     THEN NextTile(m.board, blank_num + m.freed)
     ELSE NoTile(m.board, blank_num + m.freed)
  /\ phase' = IF Moveable(m.board) THEN "playing" ELSE "over"
  /\ UNCHANGED prog

(* The C++ program puts the new tile first.                                *)
MoveCpp(d) ==
  LET m == Moved("cpp", d, board) IN
  /\ prog = "cpp" /\ phase = "playing"
  /\ moved' = m.moved
  /\ score' = score + m.gained
  /\ IF m.moved
     THEN NextTile(m.board, blank_num + m.freed)
     ELSE NoTile(m.board, blank_num + m.freed)
  /\ phase' = IF Moveable(board') THEN "playing" ELSE "over"
  /\ UNCHANGED prog

(* play() of either program, on the quit key.                              *)
Quit ==
  /\ phase = "playing"
  /\ phase' = "quit"
  /\ UNCHANGED <<prog, board, blank_num, moved, score, stray, fours>>

(* The player of ai.cpp looks ahead on copies of the game.  nextMove()     *)
(* returns one of its own local variables, so what bestMove() compares is  *)
(* undefined and any of the four directions may come out of it.            *)
BestMove == Directions

Next ==
  \/ \E d \in Directions : MoveC(d)
  \/ \E d \in BestMove : MoveCpp(d)
  \/ Quit

Spec == Init /\ [][Next]_vars

----------------------------------------------------------------------------
TileScore[v \in Nat] == IF v <= 2 THEN 0 ELSE v + 2 * TileScore[v \div 2]
Worth(b) == SumOf([i \in Size |-> SumOf([j \in Size |-> TileScore[b[i][j]]])])

(* The counters stay in step with the board.  blank_num, raised by each    *)
(* merge and lowered by each new tile, is the number of zeros, and a new   *)
(* tile always found room: none was written in front of the board.  The    *)
(* score is what the merges made: a tile 2^k built of 2s is worth          *)
(* (k - 1) * 2^k, less 4 for each 4 that came as a new tile                *)
(* (2048.c:90-101, 173-179, 276-278, 2048.cpp:129-134).                    *)
CountersInStep ==
  /\ blank_num = Cardinality(Blanks(board)) /\ ~stray
  /\ score + 4 * fours = Worth(board)

(* Merging keeps the sum of the board and a new tile adds 2 or 4, so no    *)
(* tile is lost or doubled by the in-place scan (2048.c:159-190).          *)
Total(b) == SumOf([i \in Size |-> SumOf(b[i])])
SumGrowsByNewTile ==
  [][phase' # "quit" =>
       Total(board') - Total(board) \in (IF moved' THEN {2, 4} ELSE {0})]_vars

(* A game that is declared over has no blank and no two equal neighbours   *)
(* (2048.c:274-275, 2048.cpp:234-235).                                     *)
Stuck(b) ==
  /\ \A i, j \in Size : b[i][j] # 0
  /\ \A i \in Size, j \in 2..N : b[i][j] # b[i][j - 1]
  /\ \A i \in 2..N, j \in Size : b[i][j] # b[i - 1][j]
OverIsStuck == phase = "over" => Stuck(board)

(* The C++ program leaves no position without a move to the player: it     *)
(* tests for the end after the new tile (2048.cpp:234 "must after          *)
(* generateNextChunk()").                                                  *)
StuckIsOver == prog = "cpp" /\ phase = "playing" => ~Stuck(board)

----------------------------------------------------------------------------
(* What a move does to a row by the rules of the game: the tiles close up, *)
(* and each pair of equal neighbours, taken from the left, becomes one.    *)
Tiles(row) ==
  LET upTo[j \in 0..Len(row)] ==
        IF j = 0 THEN << >>
        ELSE IF row[j] = 0 THEN upTo[j - 1] ELSE Append(upTo[j - 1], row[j])
  IN  upTo[Len(row)]

Merged(row) ==
  LET tiles == Tiles(row)
      from[k \in 1..(Len(tiles) + 1)] ==
        IF k > Len(tiles) THEN << >>
        ELSE IF k < Len(tiles) /\ tiles[k] = tiles[k + 1]
        THEN <<2 * tiles[k]>> \o from[k + 2]
        ELSE <<tiles[k]>> \o from[k + 1]
  IN  [j \in 1..Len(row) |-> IF j <= Len(from[1]) THEN from[1][j] ELSE 0]

MovesAsMerged(p, row) == LET r == MoveRow(p, row) IN
  /\ r.row = Merged(row)
  /\ r.moved = (r.row # row)
  /\ r.freed = Len(Tiles(row)) - Len(Tiles(r.row))

Cells(b) == [k \in 1..(N * N) |-> b[RowOf(k - 1)][ColOf(k - 1)]]
Line(d, b, k) ==
  CASE d = "left"  -> b[k]
    [] d = "right" -> [j \in Size |-> b[k][N + 1 - j]]
    [] d = "up"    -> [i \in Size |-> b[i][k]]
    [] d = "down"  -> [i \in Size |-> b[N + 1 - i][k]]

(* Both programs move as the rules say.  A row, here all the cells of any  *)
(* board the game reaches one after the other, is shifted and merged in    *)
(* place in one pass, and yet no tile merges twice, a move is reported     *)
(* exactly when the row changed, and the cells a merge freed are counted;  *)
(* each key moves the lines its own way, and a position is stuck exactly   *)
(* when no key changes it (2048.c:159-211, 2048.cpp:118-143).              *)
MovesFollowRules ==
  /\ MovesAsMerged(prog, Cells(board))
  /\ \A d \in Directions, k \in Size :
       Line(d, Moved(prog, d, board).board, k) = Merged(Line(d, board, k))
  /\ Stuck(board) <=> \A d \in Directions : ~Moved(prog, d, board).moved
=============================================================================
