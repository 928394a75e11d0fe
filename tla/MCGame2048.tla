----------------------------- MODULE MCGame2048 -----------------------------
(* Whole games on a board of two by two; its cells also serve as a row.    *)
EXTENDS Game2048
=============================================================================
