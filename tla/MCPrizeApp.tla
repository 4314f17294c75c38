----------------------------- MODULE MCPrizeApp -----------------------------
(***************************************************************************)
(* A small instance of PrizeApp: the user name and the port vary.          *)
(***************************************************************************)
EXTENDS PrizeAppProps, TLC

CONSTANTS c1, c2, ann, quoted

Name == ("" :> Empty) @@ ("Ann" :> ann) @@ ("'Ann'" :> quoted)
Number == ("0" :> 0) @@ ("1" :> 1) @@ ("3306" :> 3306)

MCValues ==
    [username |-> {Empty, ann, quoted}, world |-> {0}, charguid |-> {0},
     item |-> {0, 1}, count |-> {0, 1}, host |-> {Empty}, name |-> {Empty},
     port |-> {0, 1, 3306}, db_username |-> {Empty}, password |-> {Empty}]

MCShow == [k \in AllKeys |-> [v \in MCValues[k] |->
    IF k \in Names THEN CHOOSE t \in DOMAIN Name : Name[t] = v
    ELSE CHOOSE t \in DOMAIN Number : Number[t] = v]]
MCTexts == [k \in AllKeys |-> {MCShow[k][v] : v \in MCValues[k]}]
MCRead == [k \in AllKeys |-> [t \in MCTexts[k] |->
    IF k \in Names THEN Name[t] ELSE Number[t]]]

\* Both forms are rejected until a user name and a port are typed.
MCTyped == [k \in AllKeys |->
    CASE k = "username" -> {"'Ann'"} [] k = "port" -> {"1"} [] OTHER -> {}]

\* Loading takes the quotes off, and has a default for every field.
MCFileTexts == [k \in AllKeys |-> MCTexts[k] \cup {Absent}]
MCReread == [k \in AllKeys |-> [t \in MCFileTexts[k] |->
    CASE t = Absent -> IF k = "port" THEN 3306 ELSE Constructed[k]
      [] t = "'Ann'" -> ann [] OTHER -> MCRead[k][t]]]

\* A file with a port out of range and an order without a user name.
MCFiles == {[k \in AllKeys |-> CASE k = "port" -> "0"
                                 [] k \in {"item", "count"} -> "1"
                                 [] OTHER -> Absent]}

Symmetry == Permutations(Copies)
=============================================================================
