----------------------------- MODULE MCAppConfig -----------------------------
(***************************************************************************)
(* Small instances of AppConfig: two keys of the database and one of the   *)
(* prize stand for the ten.  The last has one value, and differs in files  *)
(* that lack it.                                                           *)
(***************************************************************************)
EXTENDS AppConfigProps, TLC

CONSTANTS c1, c2, x, y

MCKeys == <<"port", "password", "item">>
MCGroups == {{"port", "password"}, {"item"}}
MCValues == [k \in KeySet |-> IF k = "item" THEN {x} ELSE {x, y}]
MCTexts == [k \in KeySet |-> {"1", Absent} \cup
                                 (IF k = "item" THEN {} ELSE {"2"})]
MCWritten == [k \in KeySet |-> IF k = "item" THEN x :> "1"
                               ELSE (x :> "1") @@ (y :> "2")]

\* The password y is read as x, as one in quotes is read without them.
MCReread == [k \in KeySet |-> [t \in MCTexts[k] |->
                               IF k = "port" /\ t = "2" THEN y ELSE x]]
MCConstructed == [k \in KeySet |-> x]

\* No file, and one that was edited by hand.
MCFiles == {[k \in KeySet |-> Absent],
            [port |-> "2", password |-> "2", item |-> Absent]}

Symmetry == Permutations(Copies)

AllFaults == {"read", "write", "kill_saving", "overlap"}
=============================================================================
