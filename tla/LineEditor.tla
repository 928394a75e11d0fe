----------------------------- MODULE LineEditor -----------------------------
(***************************************************************************)
(* What the terminal's buffer promises to the code that uses it: a line of *)
(* bounded length to which a key adds a character at the end, or from      *)
(* which it takes the last one; a character too many is dropped, and so is *)
(* the removal from an empty line (src/yequ/kernel/tty.c).                 *)
(***************************************************************************)
EXTENDS Naturals, Sequences

CONSTANTS Char, MaxLen

VARIABLE text

Init == text = << >>

Type(c) == Len(text) < MaxLen /\ text' = Append(text, c)

Rub == text # << >> /\ text' = SubSeq(text, 1, Len(text) - 1)

Next == Rub \/ \E c \in Char : Type(c)

Spec == Init /\ [][Next]_text
=============================================================================
