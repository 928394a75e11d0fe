------------------------------- MODULE Printk -------------------------------
(***************************************************************************)
(* The formatting of src/yequ/kernel/debug.c.  A format is a sequence of   *)
(* directives and of characters that stand for themselves; a directive is  *)
(* a record of its flags, its field width and precision (a number, None,   *)
(* or Star where the format has a star) and its conversion.  A text is a   *)
(* sequence of characters, a digit the number it stands for.               *)
(***************************************************************************)
EXTENDS Integers, Sequences, FiniteSets

CONSTANTS
  W,                           \* the bits of an int
  None, Star,
  Blank, Percent, Minus, Plus, LetterX, SmallX

ASSUME PrintkAssumption == W \in Nat /\ W > 1

(* base to the power of k, a function of k.                                *)
Power(base) == LET of[k \in Nat] == IF k = 0 THEN 1 ELSE base * of[k - 1] IN of

Ints == (-Power(2)[W - 1])..(Power(2)[W - 1] - 1)
Unsigned(n) == n % Power(2)[W]
Signed(n) == IF n >= Power(2)[W - 1] THEN n - Power(2)[W] ELSE n
Larger(a, b) == IF a > b THEN a ELSE b
Repeat(n, c) == [i \in 1..Larger(n, 0) |-> c]

(* do_div() takes the int as unsigned, so the smallest one, which has no   *)
(* negative, still has its digits.                                         *)
Digits(num, base) ==
  LET of[n \in 0..(Power(2)[W] - 1)] ==
        IF n < base THEN <<n>> ELSE Append(of[n \div base], n % base)
  IN  of[Unsigned(num)]

(* Mutant: the digits are taken from the signed number.                    *)
NumberUnnegated(num, base, size, precision, type) ==
  LET sign == IF "SIGN" \in type /\ num < 0 THEN <<Minus>> ELSE << >>
      digits == Digits(num, base)
  IN  Repeat(size - Len(sign) - Len(digits), Blank) \o sign \o digits

(* number(): the sign, and the prefix of another base, in front of the     *)
(* digits.                                                                 *)
Negative(num, type) == "SIGN" \in type /\ num < 0

Sign(num, type) ==
  IF Negative(num, type) THEN <<Minus>>
  ELSE IF "PLUS" \in type THEN <<Plus>>
  ELSE IF "SPACE" \in type THEN <<Blank>> ELSE << >>

Prefix(base, type) ==
  IF "SPECIAL" \notin type THEN << >>
  ELSE IF base = 8 THEN <<0>>
  ELSE IF base = 16 THEN <<0, IF "SMALL" \in type THEN SmallX ELSE LetterX>>
  ELSE << >>

(* number(): padding of size - precision characters, as blanks in front,   *)
(* as zeros behind sign and prefix, or as blanks at the end.               *)
Number(num, base, size, precision, type) ==
  LET magnitude == IF Negative(num, type) THEN Signed(Unsigned(-num)) ELSE num
      head == Sign(num, type) \o Prefix(base, type)
      digits == Digits(magnitude, base)
      body == Repeat(precision - Len(digits), 0) \o digits
      room == size - Len(head) - Larger(precision, Len(digits))
  IN  IF "LEFT" \in type THEN head \o body \o Repeat(room, Blank)
      ELSE IF "ZEROPAD" \in type THEN head \o Repeat(room, 0) \o body
      ELSE Repeat(room, Blank) \o head \o body

----------------------------------------------------------------------------
(* One directive.  A star takes an argument, but vsprintf() does not step  *)
(* over it: it is then taken for the conversion, which nobody knows, and   *)
(* the conversion behind it is text.  No precision stands behind a star.   *)
Starred(d) == Star \in {d.width, d.precision}
FieldWidth(d) == IF d.width = None THEN -1 ELSE d.width
Precision(d) == IF d.precision = None THEN -1 ELSE d.precision

Justified(text, width, left) ==
  IF left THEN text \o Repeat(width - Len(text), Blank)
  ELSE Repeat(width - Len(text), Blank) \o text

Text(s, width, precision, left) ==
  Justified(IF precision >= 0 /\ Len(s) > precision THEN SubSeq(s, 1, precision) ELSE s,
            width, left)

(* The switch on the conversion; n stores the length and prints nothing,   *)
(* and an unknown conversion is printed behind a percent sign.  The format *)
(* may end (None) within a directive.                                      *)
Numeric == {"o", "p", "x", "X", "d", "i", "u", "b"}
Conversions == Numeric \cup {"c", "s", "n"}

(* The characters are no digits, those around a number differ from each    *)
(* other, and neither the percent sign nor the end is a conversion.        *)
ASSUME CharactersAssumption ==
  /\ \A c \in {None, Star, Blank, Minus, Plus, LetterX, SmallX} : c \notin Int
  /\ Blank \notin {Minus, Plus, LetterX, SmallX}
  /\ Minus \notin {Plus, LetterX, SmallX}
  /\ None # Star
  /\ {None, Percent} \cap Conversions = {}

Converted(d, arg) ==
  LET width == FieldWidth(d)
      precision == Precision(d)
      flags == d.flags
  IN
  CASE d.conv = "c" -> Justified(<<arg>>, width, "LEFT" \in flags)
    [] d.conv = "s" -> Text(arg, width, precision, "LEFT" \in flags)
    [] d.conv = "o" -> Number(arg, 8, width, precision, flags)
    [] d.conv = "p" -> IF width = -1 THEN Number(arg, 16, 8, precision, flags \cup {"ZEROPAD"})
                       ELSE Number(arg, 16, width, precision, flags)
    [] d.conv = "x" -> Number(arg, 16, width, precision, flags \cup {"SMALL"})
    [] d.conv = "X" -> Number(arg, 16, width, precision, flags)
    [] d.conv \in {"d", "i"} -> Number(arg, 10, width, precision, flags \cup {"SIGN"})
    [] d.conv = "u" -> Number(arg, 10, width, precision, flags)
    [] d.conv = "b" -> Number(arg, 2, width, precision, flags)
    [] d.conv = "n" -> << >>
    [] d.conv \in {Percent, None} -> <<Percent>>
    [] OTHER -> <<Percent, d.conv>>

TakesArgument(d) == d.conv \in Conversions

(* vsprintf(): the text, the arguments used, and what the directives n     *)
(* have stored.                                                            *)
Empty == [text |-> << >>, used |-> 0, stored |-> << >>]

Printed(s, d, args) ==
  CASE "conv" \notin DOMAIN d -> [s EXCEPT !.text = Append(@, d.char)]
    [] "conv" \in DOMAIN d /\ Starred(d) ->
         [s EXCEPT !.text = @ \o <<Percent, Star, d.conv>>, !.used = @ + 1]
    [] "conv" \in DOMAIN d /\ ~Starred(d) ->
         LET arg == IF TakesArgument(d) THEN args[s.used + 1] ELSE Blank
         IN  [text |-> s.text \o Converted(d, arg),
              used |-> s.used + IF TakesArgument(d) THEN 1 ELSE 0,
              stored |-> IF d.conv = "n" THEN Append(s.stored, Len(s.text)) ELSE s.stored]

Formatted(fmt, args) ==
  LET after[i \in 0..Len(fmt)] ==
        IF i = 0 THEN Empty ELSE Printed(after[i - 1], fmt[i], args)
  IN  after[Len(fmt)]

----------------------------------------------------------------------------
(* The reference: what a reader makes of a printed number.  Prefix and     *)
(* padding add only zeros in front of the digits.                          *)
DigitsOf(text) == {i \in 1..Len(text) : text[i] \in 0..35}
ValueOf(text, base) ==
  LET upto[i \in 0..Len(text)] ==
        IF i = 0 THEN 0
        ELSE IF i \in DigitsOf(text) THEN upto[i - 1] * base + text[i] ELSE upto[i - 1]
  IN  upto[Len(text)]

BaseOf(conv) ==
  CASE conv = "o" -> 8 [] conv \in {"x", "X", "p"} -> 16 [] conv = "b" -> 2 [] OTHER -> 10

Directive(flags, width, precision, conv) ==
  [flags |-> flags, width |-> width, precision |-> precision, conv |-> conv]

(* The characters a number needs: its marks, and its digits, the least k   *)
(* for which the magnitude is below the k-th power of the base.            *)
Marks(num, flags, conv) ==
  (IF (conv \in {"d", "i"} /\ num < 0) \/ flags \cap {"PLUS", "SPACE"} # {} THEN 1 ELSE 0)
    + (IF "SPECIAL" \notin flags THEN 0
       ELSE IF BaseOf(conv) = 16 THEN 2 ELSE IF BaseOf(conv) = 8 THEN 1 ELSE 0)

Least(magnitude, base) ==
  IF magnitude = 0 THEN 1
  ELSE CHOOSE k \in 1..W : Power(base)[k - 1] <= magnitude /\ Power(base)[k] > magnitude

(* The number is read back, in at least precision digits and width         *)
(* characters and not one more than they ask for, with the blanks at one   *)
(* end.                                                                    *)
NumberReads(num, flags, width, precision, conv) ==
  LET text == Formatted(<<Directive(flags, width, precision, conv)>>, <<num>>).text
      base == BaseOf(conv)
      value == IF conv \in {"d", "i"} THEN num ELSE Unsigned(num)
      minus == {i \in 1..Len(text) : text[i] = Minus}
      blanks == {i \in 1..Len(text) : text[i] = Blank}
      least == Least(IF value < 0 THEN -value ELSE value, base)
      given == IF width # None THEN width ELSE IF conv = "p" THEN 8 ELSE 0
      wanted == IF precision = None THEN 0 ELSE precision
  IN  /\ (IF minus = {} THEN 1 ELSE -1) * ValueOf(text, base) = value
      /\ Len(text) = Larger(given, Marks(num, flags, conv) + Larger(wanted, least))
      /\ Cardinality(DigitsOf(text)) >= wanted
      /\ \A i, k \in 1..Len(text) : \A j \in i..k :
           j \in blanks => i \in blanks \/ k \in blanks
      /\ "LEFT" \in flags => \A i \in blanks : i > 1 => \A k \in i..Len(text) : k \in blanks

(* A text, cut to the precision and padded on one side, stands between     *)
(* what comes before and behind it, and the length stored counts both.     *)
TextReads(s, flags, width, precision) ==
  LET cut == IF precision = None \/ precision >= Len(s) THEN s ELSE SubSeq(s, 1, precision)
      size == IF width = None \/ width < Len(cut) THEN Len(cut) ELSE width
      all == Formatted(<<[char |-> Minus], Directive(flags, width, precision, "s"),
                         Directive(flags, width, None, "c"), Directive({}, None, None, "n"),
                         Directive({}, None, None, Percent)>>, <<s, Plus, 0>>)
      text == SubSeq(all.text, 2, size + 1)
      at == IF "LEFT" \in flags THEN 0 ELSE size - Len(cut)
  IN  /\ SubSeq(text, at + 1, at + Len(cut)) = cut
      /\ \A i \in 1..size : text[i] = Blank \/ (i > at /\ i <= at + Len(cut))
      /\ Head(all.text) = Minus /\ all.text[Len(all.text)] = Percent
      /\ all.stored = <<Len(all.text) - 1>> /\ all.used = 3
      /\ Len(all.text) = size + 2 + Larger(1, IF width = None THEN 1 ELSE width)
=============================================================================
