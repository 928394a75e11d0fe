-------------------------------- MODULE Yequ --------------------------------
(***************************************************************************)
(* The kernel of src/yequ: the terminal with the interrupts, and the two   *)
(* libraries its code is built on, which keep no state.  The properties of *)
(* the libraries are about all inputs up to a bound and are checked where  *)
(* the kernel starts.                                                      *)
(***************************************************************************)
EXTENDS Terminal, Strings, Printk

CONSTANTS
  MemSize, Byte,               \* the memories of the string functions
  MaxWidth                     \* bound on field width and precision

ASSUME StringsAssumption == MemSize \in Nat /\ Byte \subseteq 0..255

ASSUME WidthAssumption == MaxWidth \in Nat

Starting == pc = "boot"

(* For all memories, addresses and counts within the bounds: a copy that   *)
(* does not lie over the end of its source arrives and touches nothing     *)
(* else, whether by memmove(), strcpy(), strncpy() (padded) or strlcpy()   *)
(* (cut); memset() fills its region; the lengths are those of the strings, *)
(* the comparisons have the sign of the dictionary's order over unsigned   *)
(* bytes, and strchr() finds the first of its character or nothing.        *)
(* Nothing is said of strlcpy()'s value, of memsetw(), which never         *)
(* returns, and of a copy over the end of its source, which memmove()      *)
(* fails, although its comment promises it (string.c:7-9, 17-21).          *)
StringsMeet ==
  Starting =>
    \A m \in [0..(MemSize - 1) -> Byte], a, b \in 0..(MemSize - 1), n \in 0..MemSize :
      a + n <= MemSize /\ b + n <= MemSize =>
        /\ MemmoveMeets(m, a, b, n)
        /\ \A c \in Byte : BlocksMeet(m, a, b, n, c)
        /\ IsString(m, a) /\ IsString(m, b) =>
             CopiesMeet(m, a, b, n) /\ ComparisonsMeet(m, a, b, n)

(* A number or a text that printk() formats is read back by its reader,    *)
(* whatever the flags, the width and the precision (both numbers or left   *)
(* out), and at both ends of the range of an int.  Nothing is said of a    *)
(* star in their place, which the code fails: the number behind it is not  *)
(* printed (debug.c:75-156, 171-320).                                      *)
FormatsReadBack ==
  Starting =>
    \A flags \in SUBSET {"LEFT", "ZEROPAD", "PLUS", "SPACE", "SPECIAL"},
       width, precision \in 0..MaxWidth \cup {None} :
      /\ \A num \in Ints, conv \in Numeric : NumberReads(num, flags, width, precision, conv)
      /\ \A len \in 0..2 : TextReads(Repeat(len, LetterX), flags, width, precision)
=============================================================================
