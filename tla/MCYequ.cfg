SPECIFICATION FairSpec
CONSTANTS
  N = 2
  Rows = 2
  Cols = 3
  TabStop = 2
  MaxKeys = 5
  NUL = "nul"
  BS = "bs"
  TAB = "tab"
  NL = "nl"
  SP = "sp"
  Glyph <- MCGlyph
  ShiftL = "shl"
  ShiftR = "shr"
  Released = {"relA", "relShift"}
  ReleasesShift = {"relShift"}
  Keys <- MCKeys
  Lower <- MCLower
  Upper <- MCUpper
  Title <- MCTitle
  Answer <- MCAnswer
  W = 5
  None = None
  Star = Star
  Blank = Blank
  Percent = Percent
  Minus = Minus
  Plus = Plus
  LetterX = LetterX
  SmallX = SmallX
  MemSize = 5
  Byte = {0, 1, 255}
  MaxWidth = 4
INVARIANTS
  StringsMeet
  FormatsReadBack
  CursorOnScreen
  InkBeforeCursor
PROPERTIES
  RingIsLine
  NewlineNoticed
