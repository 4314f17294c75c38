----------------------------- MODULE PrizeFields -----------------------------
(***************************************************************************)
(* The fields of CAppConfig, which the two dialogs show and config.ini     *)
(* keeps: five that describe a prize and five for the database.            *)
(***************************************************************************)
EXTENDS Integers, Sequences

PrizeKeys == {"username", "world", "charguid", "item", "count"}
DbKeys == {"host", "port", "name", "db_username", "password"}
AllKeys == PrizeKeys \cup DbKeys
Names == {"username", "host", "name", "db_username", "password"}

CONSTANTS
    Values,    \* what each field can be: CStrings for Names, else integers
    Empty      \* the empty CString

\* A part of the configuration, or the members of a dialog, for the keys K.
Parts(K) == {m \in [K -> UNION {Values[k] : k \in K}] :
                 \A k \in K : m[k] \in Values[k]}

\* The values of an unsigned short, and what an int becomes when it is cast to one.
Shorts == 0..65535
AsShort(v) == v % 65536

\* A CAppConfig: its m_port is an unsigned short, those of the dialogs are ints.
AppConfigs == {m \in Parts(AllKeys) : m["port"] \in Shorts}

\* m_appConfig as its constructors leave it.
Constructed == [k \in AllKeys |-> IF k \in Names THEN Empty ELSE 0]

\* The order in which loadFromFile and saveToFile access the file.
FileKeys == <<"host", "port", "name", "db_username", "password",
              "username", "world", "charguid", "item", "count">>

Part(m, K) == [k \in K |-> m[k]]

ASSUME FieldAssumption ==
    /\ \A k \in AllKeys : Constructed[k] \in Values[k]
    /\ \A k \in AllKeys \ Names : Values[k] \subseteq Int
    /\ \A v \in Values["port"] : AsShort(v) \in Values["port"]
=============================================================================
