------------------------------- MODULE MCYequ -------------------------------
(* A ring of two characters, a screen of two rows of three columns.        *)
EXTENDS Yequ, TLC

MCGlyph == {"a", "A"}
MCKeys == {"kA", "kEnter", "kBack", "kTab", "kCtrl"}
MCLower ==
  ("kA" :> "a") @@ ("kEnter" :> "nl") @@ ("kBack" :> "bs") @@ ("kTab" :> "tab") @@ ("kCtrl" :> "nul")
MCUpper == [MCLower EXCEPT !["kA"] = "A"]
MCTitle == <<"a", "nl">>
MCAnswer == <<"a">>
=============================================================================
