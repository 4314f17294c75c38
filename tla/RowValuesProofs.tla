--------------------------- MODULE RowValuesProofs ---------------------------
(***************************************************************************)
(* What a row keeps of the form and of the clock, for ints of any width.   *)
(***************************************************************************)
EXTENDS RowValuesProps, TLAPS

USE WidthAssumption DEF WidthAssumption

\* What the cast leaves of the low bits of a time is an int.
LEMMA BoundTime ==
  ASSUME NEW t \in Nat
  PROVE  AsInt(LowBits(t)) \in Ints
<1> DEFINE w == 2 * Half
           u == LowBits(t)
<1>1. w \in Nat \ {0}  BY SMT
<1>2. u \in 0..(w - 1)
  <2> HIDE DEF w
  <2>1. t % w \in 0..(w - 1)  BY <1>1, SMT
  <2> QED  BY <2>1 DEF LowBits, w
<1> HIDE DEF u
<1>3. AsInt(u) \in Ints  BY <1>2, SMT DEF AsInt, Ints
<1> QED  BY <1>3 DEF u
-----------------------------------------------------------------------------
\* What is bound has its type, and what a column keeps of it, too.
LEMMA BoundType ==
  ASSUME NEW f \in Forms, NEW t \in Nat
  PROVE  /\ Bind(f, t) \in Params
         /\ ~Refuses(Bind(f, t)) => Kept(Bind(f, t)) \in Rows
<1> DEFINE p == Bind(f, t)
           r == Kept(p)
<1>1. /\ f.world \in Ints /\ f.charguid \in Ints
      /\ f.item \in 1..(Half - 1) /\ f.count \in 1..(Half - 1)
  BY DEF Forms
<1>2. 1..(Half - 1) \subseteq Ints /\ 0 \in Ints  BY SMT DEF Ints
<1>3. AsInt(LowBits(t)) \in Ints  BY BoundTime
<1>4. p \in Params  BY <1>1, <1>2, <1>3 DEF Bind, Params
<1> HIDE DEF p
<1>5. /\ DOMAIN p = {"world", "charguid", "itemid", "itemnum", "isget",
                     "validtime"}
      /\ p.world \in Ints /\ p.charguid \in Ints /\ p.itemid \in Ints
      /\ p.itemnum \in Ints /\ p.isget \in {0} /\ p.validtime \in Ints
  BY <1>4 DEF Params
<1>6. r = [world |-> p.world,
           charguid |-> IF p.charguid < 0 THEN 0 ELSE p.charguid,
           itemid |-> IF p.itemid < 0 THEN 0 ELSE p.itemid,
           itemnum |-> p.itemnum, isget |-> p.isget, validtime |-> p.validtime]
  BY <1>4 DEF Kept, Unsigned, Params
<1>7. r \in Params  BY <1>2, <1>5, <1>6 DEF Params
<1>8. r.charguid >= 0 /\ r.itemid >= 0  BY <1>5, <1>6 DEF Ints
<1>9. r \in Rows  BY <1>7, <1>8 DEF Rows, Unsigned
<1> QED  BY <1>4, <1>9 DEF p

\* Every variable keeps its type.
THEOREM TypeCorrect == Spec => []TypeOK
<1>1. Init => TypeOK
  BY DEF Init, TypeOK
<1>2. TypeOK /\ [Next]_vars => TypeOK'
  <2> SUFFICES ASSUME TypeOK, [Next]_vars PROVE TypeOK'  OBVIOUS
  <2>1. CASE UNCHANGED vars  BY <2>1 DEF vars, TypeOK
  <2>2. CASE Tick  BY <2>2 DEF Tick, TypeOK
  <2>3. ASSUME NEW f \in Forms, InsertPrize(f) PROVE TypeOK'
    <3> DEFINE new == [form |-> f, row |-> Kept(Bind(f, now))]
               Entries == [form : Forms, row : Rows]
    <3>1. now \in Times /\ now \in Nat  BY DEF TypeOK
    <3>2. Kept(Bind(f, now)) \in Rows
      BY <2>3, <3>1, BoundType DEF InsertPrize
    <3>3. new \in Entries  BY <3>1, <3>2
    <3>4. rows' = Append(rows, new)  BY <2>3 DEF InsertPrize
    <3> HIDE DEF new
    <3>5. rows' \in Seq(Entries)
      <4> rows \in Seq(Entries)  BY DEF TypeOK
      <4> HIDE DEF Entries
      <4> QED  BY <3>3, <3>4
    <3> QED  BY <2>3, <3>5 DEF InsertPrize, TypeOK
  <2> QED  BY <2>1, <2>2, <2>3 DEF Next
<1> QED  BY <1>1, <1>2, PTL DEF Spec

\* The rows of a step: those of before, and perhaps the one of InsertPrize.
LEMMA RowsOfStep ==
  ASSUME TypeOK, [Next]_vars, NEW i \in DOMAIN rows'
  PROVE  \/ i \in DOMAIN rows /\ rows'[i] = rows[i]
         \/ \E f \in Forms :
               /\ ~Refuses(Bind(f, now)) /\ strict' = strict
               /\ rows'[i] = [form |-> f, row |-> Kept(Bind(f, now))]
<1>1. CASE UNCHANGED rows  BY <1>1
<1>2. ASSUME NEW f \in Forms, InsertPrize(f)
      PROVE  \/ i \in DOMAIN rows /\ rows'[i] = rows[i]
             \/ /\ ~Refuses(Bind(f, now)) /\ strict' = strict
                /\ rows'[i] = [form |-> f, row |-> Kept(Bind(f, now))]
  <2> DEFINE new == [form |-> f, row |-> Kept(Bind(f, now))]
  <2>1. rows' = Append(rows, new)  BY <1>2 DEF InsertPrize
  <2> HIDE DEF new
  <2>2. \E S : rows \in Seq(S)  BY DEF TypeOK
  <2>3. \/ i \in DOMAIN rows /\ rows'[i] = rows[i]
        \/ rows'[i] = new
    BY <2>1, <2>2
  <2> QED  BY <1>2, <2>3 DEF InsertPrize, new
<1> QED  BY <1>1, <1>2 DEF Next, Tick, vars

\* What a row must be for the form f that was sent at the time t.
Grants(f, r) ==
    /\ r.itemid = f.item /\ r.itemnum = f.count /\ r.world = f.world
    /\ IF f.charguid >= 0 THEN r.charguid = f.charguid
       ELSE r.charguid = 0 /\ ~strict

\* The row that InsertPrize adds is such a row.
LEMMA NewRow ==
  ASSUME NEW f \in Forms, NEW t \in Nat, ~Refuses(Bind(f, t)),
         strict \in BOOLEAN
  PROVE  Grants(f, Kept(Bind(f, t)))
<1> DEFINE p == Bind(f, t)
           r == Kept(p)
           v == AsInt(LowBits(t))
<1>1. /\ f.world \in Ints /\ f.charguid \in Ints
      /\ f.item \in 1..(Half - 1) /\ f.count \in 1..(Half - 1)
  BY DEF Forms
<1>2. p = [world |-> f.world, charguid |-> f.charguid, itemid |-> f.item,
           itemnum |-> f.count, isget |-> 0, validtime |-> v]
  BY DEF Bind
<1>3. strict => f.charguid >= 0
  <2>1. ~(strict /\ p.charguid < 0)  BY DEF Refuses, Unsigned
  <2>2. p.charguid = f.charguid  BY <1>2
  <2> QED  BY <1>1, <2>1, <2>2 DEF Ints
<1> HIDE DEF p, v
<1>4. /\ r.world = p.world /\ r.itemnum = p.itemnum
      /\ r.itemid = IF p.itemid < 0 THEN 0 ELSE p.itemid
      /\ r.charguid = IF p.charguid < 0 THEN 0 ELSE p.charguid
  BY <1>2 DEF Kept, Unsigned
<1> HIDE DEF r
<1>5. r.itemid = f.item  BY <1>1, <1>2, <1>4
<1>6. IF f.charguid >= 0 THEN r.charguid = f.charguid
      ELSE r.charguid = 0 /\ ~strict
  <2>1. f.charguid \in Int /\ (f.charguid >= 0 <=> ~(f.charguid < 0))
    BY <1>1 DEF Ints
  <2> QED  BY <1>2, <1>3, <1>4, <2>1
<1>7. Grants(f, r)  BY <1>2, <1>4, <1>5, <1>6 DEF Grants
<1> QED  BY <1>7 DEF r, p

\* A row grants what the form says to the character of the form.
THEOREM RowIsAsForm == Spec => []RowAsForm
<1>1. RowAsForm <=> \A i \in DOMAIN rows : Grants(rows[i].form, rows[i].row)
  BY DEF RowAsForm, Grants
<1>2. Init => RowAsForm  BY DEF Init, RowAsForm
<1>3. TypeOK /\ RowAsForm /\ [Next]_vars => RowAsForm'
  <2> SUFFICES ASSUME TypeOK, RowAsForm, [Next]_vars, NEW i \in DOMAIN rows'
               PROVE  Grants(rows[i].form, rows[i].row)'
    BY DEF RowAsForm, Grants
  <2>1. strict' = strict  BY DEF Next, Tick, InsertPrize, vars
  <2>2. CASE i \in DOMAIN rows /\ rows'[i] = rows[i]
    BY <1>1, <2>1, <2>2 DEF Grants
  <2>3. ASSUME NEW f \in Forms, ~Refuses(Bind(f, now)),
               rows'[i] = [form |-> f, row |-> Kept(Bind(f, now))]
        PROVE  Grants(rows[i].form, rows[i].row)'
    <3>1. Grants(f, Kept(Bind(f, now)))  BY <2>3, NewRow DEF TypeOK
    <3>2. rows'[i].form = f /\ rows'[i].row = Kept(Bind(f, now))  BY <2>3
    <3> QED  BY <2>1, <3>1, <3>2 DEF Grants
  <2> QED  BY <2>2, <2>3, RowsOfStep
<1> QED  BY <1>2, <1>3, TypeCorrect, PTL DEF Spec
=============================================================================
