----------------------------- MODULE ConfigStore -----------------------------
(***************************************************************************)
(* What config.ini is for: a store that a copy of the tool reads as a      *)
(* whole when it opens and replaces as a whole when it closes.  A copy     *)
(* that dies leaves it as it is; of two copies, the last to close wins.    *)
(***************************************************************************)
CONSTANTS
    Copies,   \* those who use the store
    KeySet,   \* its keys
    Groups,   \* the sets of keys that are assigned together
    Configs,  \* what a copy can hold in memory
    Written,  \* the text that is stored for each value of each key
    Reread,   \* what a copy that opens makes of each text of each key
    Blank     \* the memory of a copy that is not open

VARIABLES stored,  \* the store
          open,    \* the copies that are open
          memory   \* the configuration of each

vars == <<stored, open, memory>>

Init == open = {} /\ memory = [c \in Copies |-> Blank]

Open(c) ==
    /\ c \notin open /\ open' = open \cup {c}
    /\ memory' = [memory EXCEPT ![c] = [k \in KeySet |-> Reread[k][stored[k]]]]
    /\ UNCHANGED stored

\* Only the keys of one group change, to anything a copy can hold.
Assign(c, G) ==
    /\ c \in open
    /\ memory'[c] \in Configs
    /\ \A k \in KeySet \ G : memory'[c][k] = memory[c][k]
    /\ memory' = [memory EXCEPT ![c] = memory'[c]]
    /\ UNCHANGED <<stored, open>>

Leave(c) == /\ c \in open /\ open' = open \ {c}
            /\ memory' = [memory EXCEPT ![c] = Blank]

Save(c) == Leave(c) /\ stored' = [k \in KeySet |-> Written[k][memory[c][k]]]

Die(c) == Leave(c) /\ UNCHANGED stored

Next == \E c \in Copies : \/ Open(c) \/ Save(c) \/ Die(c)
                          \/ \E G \in Groups : Assign(c, G)

Spec == Init /\ [][Next]_vars
=============================================================================
