------------------------------ MODULE RowValues ------------------------------
(***************************************************************************)
(* The numbers of a row of account_prize: what insertPrize makes of a      *)
(* valid form and of the clock, and what the columns, created by           *)
(* checkPrizeTable, keep of it.  PrizeSend says when a row is inserted and *)
(* leaves its values alone.                                                *)
(***************************************************************************)
EXTENDS Integers, Sequences

CONSTANTS
    Half,     \* half the values of an int: 2^31
    Times,    \* bound: the values of the clock (a 64-bit time_t)
    MaxRows   \* bound: rows inserted

Ints == -Half..(Half - 1)

\* What DoDataExchange lets through.
Forms == [world : Ints, charguid : Ints, item : 1..(Half - 1),
          count : 1..(Half - 1)]

ASSUME WidthAssumption == Half \in Nat \ {0} /\ Times \subseteq Nat

Unsigned == {"charguid", "itemid"}

\* A row as the client sends it, and as its columns hold it.
Params == [world : Ints, charguid : Ints, itemid : Ints, itemnum : Ints,
           isget : {0}, validtime : Ints]
Rows == {r \in Params : \A k \in Unsigned : r[k] >= 0}

VARIABLES
    now,      \* CTime::GetCurrentTime
    strict,   \* the sql_mode of the server (external)
    rows      \* the rows; form is history: what was sent

vars == <<now, strict, rows>>

Init == now \in Times /\ strict \in BOOLEAN /\ rows = << >>
-----------------------------------------------------------------------------
\* timestamp & 0xFFFFFFFF
LowBits(t) == t % (2 * Half)

\* Mutant: the 32 bits are taken as they are.
AsIntUncast(u) == u

\* The cast of 32 bits to an int.
AsInt(u) == IF u < Half THEN u ELSE u - 2 * Half

\* Mutant: two parameters change places.
BindSwapped(f, t) ==
    [world |-> f.charguid, charguid |-> f.world, itemid |-> f.item,
     itemnum |-> f.count, isget |-> 0, validtime |-> AsInt(LowBits(t))]

\* The parameters of the INSERT, in the order of its columns.
Bind(f, t) ==
    [world |-> f.world, charguid |-> f.charguid, itemid |-> f.item,
     itemnum |-> f.count, isget |-> 0, validtime |-> AsInt(LowBits(t))]

\* The server refuses a number that its column does not have, or takes the
\* nearest one (external).
Refuses(p) == strict /\ \E k \in Unsigned : p[k] < 0
Kept(p) == [k \in DOMAIN p |-> IF k \in Unsigned /\ p[k] < 0 THEN 0 ELSE p[k]]

\* A send of the form f reaches insertPrize.
InsertPrize(f) ==
    /\ Len(rows) < MaxRows
    /\ ~Refuses(Bind(f, now))
    /\ rows' = Append(rows, [form |-> f, row |-> Kept(Bind(f, now))])
    /\ UNCHANGED <<now, strict>>

Tick == /\ \E t \in Times : t > now /\ now' = t
        /\ UNCHANGED <<strict, rows>>

Next == Tick \/ \E f \in Forms : InsertPrize(f)

Spec == Init /\ [][Next]_vars
=============================================================================
