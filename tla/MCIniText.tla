------------------------------ MODULE MCIniText ------------------------------
(***************************************************************************)
(* Every text of up to five characters, in a buffer of five: "-" stands    *)
(* for a blank, "u" for a character that the code page does not have.      *)
(***************************************************************************)
EXTENDS IniTextProps, TLC

MCChars == {"a", "-", "'", "Q", "u"}
MCAnsi == [c \in MCChars |-> IF c = "u" THEN "a" ELSE c]
MCTyped == UNION {[1..n -> MCChars] : n \in 0..5}
=============================================================================
