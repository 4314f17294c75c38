---------------------------- MODULE MCPrizeDialog ----------------------------
(***************************************************************************)
(* A small instance of PrizeDialog.  Each text that a DDX or DDV tells     *)
(* from others is there: an empty name, a text that is no number, a number *)
(* out of range, one that is written in another way than it is shown.      *)
(***************************************************************************)
EXTENDS PrizeDialogProps, TLC

CONSTANTS c1, ann, pw

Name == ("" :> Empty) @@ ("Ann" :> ann) @@ ("pw" :> pw)
Number == ("0" :> 0) @@ ("1" :> 1) @@ ("+1" :> 1) @@ ("5" :> 5) @@
          ("3306" :> 3306) @@ ("65537" :> 65537) @@ ("-1" :> -1)

MCValues ==
    [username |-> {Empty, ann}, world |-> {0}, charguid |-> {0, -1},
     item |-> {0, 1}, count |-> {0, 5}, host |-> {Empty}, name |-> {Empty},
     port |-> {0, 1, 3306, 65537}, db_username |-> {Empty},
     password |-> {Empty, pw}]

\* Shown as it is kept, for names; in decimals, for numbers.
MCShow == [k \in AllKeys |-> [v \in MCValues[k] |->
    IF k \in Names THEN CHOOSE t \in DOMAIN Name : Name[t] = v
    ELSE CHOOSE t \in DOMAIN Number : Number[t] = v /\ t # "+1"]]

Odd(k) == CASE k = "item" -> {"x", "+1"} [] k = "port" -> {"x"} [] OTHER -> {}

MCTexts == [k \in AllKeys |-> {MCShow[k][v] : v \in MCValues[k]} \cup Odd(k)]

MCRead == [k \in AllKeys |-> [t \in MCTexts[k] \ {"x"} |->
    IF k \in Names THEN Name[t] ELSE Number[t]]]

\* A new file, one that was saved, and one that was edited by hand.
MCLoads == {Constructed,
    [k \in AllKeys |-> CASE k = "username" -> ann [] k = "port" -> 3306
                         [] k = "item" -> 1 [] k = "count" -> 5
                         [] OTHER -> Constructed[k]],
    [k \in AllKeys |-> CASE k = "charguid" -> -1 [] k = "port" -> 1
                         [] k = "password" -> pw [] OTHER -> Constructed[k]]}
=============================================================================
