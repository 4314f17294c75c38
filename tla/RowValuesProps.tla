---------------------------- MODULE RowValuesProps ----------------------------
(***************************************************************************)
(* What the values of a row must satisfy.                                  *)
(***************************************************************************)
EXTENDS RowValues

\* Every variable keeps its type: what is bound as a FIELD_TYPE_LONG is an int, that
\* of validtime on both sides of 2038 and of 2106, and the columns are what
\* checkPrizeTable creates.
TypeOK ==
    /\ now \in Times /\ strict \in BOOLEAN
    /\ rows \in Seq([form : Forms, row : Rows])

\* A row grants the item, the count and the world of the form, and grants them
\* to its character; only a server that is not strict stores another charguid,
\* 0, for a negative one.
RowAsForm ==
    \A i \in DOMAIN rows :
        LET f == rows[i].form
            r == rows[i].row
        IN  /\ r.itemid = f.item /\ r.itemnum = f.count /\ r.world = f.world
            /\ IF f.charguid >= 0 THEN r.charguid = f.charguid
               ELSE r.charguid = 0 /\ ~strict
=============================================================================
