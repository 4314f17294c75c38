--------------------------- MODULE PrizeSendProofs ---------------------------
(***************************************************************************)
(* What PrizeSend satisfies for any number of copies, accounts, clicks and *)
(* whatever may fail.                                                      *)
(***************************************************************************)
EXTENDS PrizeSendProps, TLAPS

USE SendAssumption

\* A copy that runs a send has clicked, so its send has an identity.
Started == \A s \in Senders : pc[s] \in Running => clicks[s] \in 1..MaxClicks

TypeInv == TypeOK /\ Started

\* The order made from a validated form is one that a row can hold.
LEMMA OrderType == \A f \in Forms : Order(f) \in Orders
  BY DEF Order, Forms, Orders

\* The send that a copy runs has an identity.
LEMMA CurrentType ==
  ASSUME TypeInv, NEW s \in Senders, pc[s] \in Running
  PROVE  Current(s) \in Ids
  BY DEF TypeInv, Started, Current, Ids

\* A sequence over a set stays one when an element of the set is appended.
LEMMA AppendType ==
  ASSUME NEW S, NEW q \in Seq(S), NEW e \in S
  PROVE  Append(q, e) \in Seq(S)
  OBVIOUS

\* Giving handles to the library keeps the type of misuse.
LEMMA UsesType ==
  ASSUME TypeOK, NEW s \in Senders, NEW H \in SUBSET Handles, Uses(s, H)
  PROVE  misuse' \in [Senders -> SUBSET Handles]
  BY DEF TypeOK, Uses

\* The handles of each failure branch are handles.
LEMMA ClosesType == \A c : Closes(c) \in SUBSET Handles
  BY DEF Closes, Handles

\* A message box about a running send keeps the type of reports.
LEMMA TellType ==
  ASSUME TypeInv, NEW s \in Senders, pc[s] \in Running, NEW at \in Ends,
         Tell(s, at)
  PROVE  reports' \in SUBSET [by : Ids, at : Ends]
<1>1. Current(s) \in Ids  BY CurrentType
<1>2. [by |-> Current(s), at |-> at] \in [by : Ids, at : Ends]  BY <1>1
<1> QED  BY <1>2 DEF Tell, TypeInv, TypeOK

\* The initial states have the types of TypeOK.
LEMMA TypeInit == Init => TypeInv
  BY DEF Init, TypeInv, TypeOK, Started, Steps, Running, ThrowingCalls,
         StmtCalls, Handles

\* The steps of the send handler keep the types.
LEMMA TypeSendStep ==
  ASSUME TypeInv, NEW s \in Senders, SendStep(s)
  PROVE  TypeInv'
<1> USE DEF TypeInv, TypeOK, Started, Steps, Running, ThrowingCalls, StmtCalls,
            Handles, Goto, Open, Free, ui, database, sent, history
<1>0. /\ {"conn"} \in SUBSET Handles
      /\ Handles \in SUBSET Handles
  OBVIOUS
<1>1. CASE MysqlInit(s)  BY <1>1 DEF MysqlInit
<1>2. CASE SetOptions(s)  BY <1>2 DEF SetOptions
<1>3. CASE Connect(s)
  <2>1. CASE Goto(s, "settings", "connect")  BY <1>3, <2>1 DEF Connect
  <2>2. CASE Goto(s, "connect", "account_name")  BY <1>3, <2>2, <1>0, UsesType DEF Connect
  <2>3. CASE Goto(s, "account_name", "account_init")
    BY <1>3, <2>3 DEF Connect
  <2> QED  BY <1>3, <2>1, <2>2, <2>3 DEF Connect
<1>4. CASE ConvertFails(s)  BY <1>4 DEF ConvertFails
<1>5. CASE CallFails(s)
  <2>1. misuse' \in [Senders -> SUBSET Handles]
    BY <1>5, ClosesType, UsesType DEF CallFails
  <2>2. reports' \in SUBSET [by : Ids, at : Ends]
    BY <1>5, TellType DEF CallFails, Throw, Ends
  <2>3. handle' \in [Senders -> [Handles -> {"null", "open", "freed"}]]
    BY <1>5 DEF CallFails
  <2>4. pc' \in [Senders -> Steps] /\ pc'[s] = "failed"
    BY <1>5 DEF CallFails, Throw
  <2>5. \A t \in Senders : t # s => pc'[t] = pc[t]
    BY <1>5 DEF CallFails, Throw
  <2>6. /\ unread' \in [Senders -> BOOLEAN]
        /\ reply' \in [Senders -> {"none", "ok", "error"}]
    BY <1>5 DEF CallFails
  <2>7. UNCHANGED <<clicks, form, button, found, accounts, known, prizeTable,
                    rows, createSent, insertSent, asked>>
    BY <1>5 DEF CallFails, Throw, Tell
  <2> QED  BY <2>1, <2>2, <2>3, <2>4, <2>5, <2>6, <2>7
<1>6. CASE StmtInit(s)  BY <1>6, <1>0, UsesType DEF StmtInit
<1>7. CASE StmtPrepare(s)
  <2>1. misuse' \in [Senders -> SUBSET Handles]
    BY <1>7, <1>0, UsesType DEF StmtPrepare
  <2> QED  BY <1>7, <2>1 DEF StmtPrepare
<1>8. CASE AccountExecute(s)
  <2>1. misuse' \in [Senders -> SUBSET Handles]
    BY <1>8, <1>0, UsesType DEF AccountExecute
  <2>2. found' \in [Senders -> BOOLEAN]  BY <1>8 DEF AccountExecute
  <2> QED  BY <1>8, <2>1, <2>2 DEF AccountExecute
<1>9. CASE StoreResult(s)
  <2>1. CASE Goto(s, "account_store", "account_close")
    BY <1>9, <2>1, <1>0, UsesType DEF StoreResult
  <2>2. CASE Goto(s, "table_store", "insert_init")
    BY <1>9, <2>2, <1>0, UsesType DEF StoreResult
  <2> QED  BY <1>9, <2>1, <2>2 DEF StoreResult
<1>10. CASE AccountExists(s)  BY <1>10, <1>0, UsesType DEF AccountExists
<1>11. CASE AccountMissing(s)
  <2>1. misuse' \in [Senders -> SUBSET Handles]
    BY <1>11, <1>0, UsesType DEF AccountMissing
  <2>2. reports' \in SUBSET [by : Ids, at : Ends]
    BY <1>11, TellType DEF AccountMissing, Throw, Ends
  <2> QED  BY <1>11, <2>1, <2>2 DEF AccountMissing, Throw, Tell
<1>12. CASE AccountCloseFails(s)
  <2>1. reports' \in SUBSET [by : Ids, at : Ends]
    BY <1>12, TellType DEF AccountCloseFails, Throw, Ends
  <2> QED  BY <1>12, <2>1 DEF AccountCloseFails, Throw, Tell
<1>13. CASE TableSelect(s)  BY <1>13, <1>0, UsesType DEF TableSelect
<1>14. CASE TableCreate(s)
  <2>1. misuse' \in [Senders -> SUBSET Handles]
    BY <1>14, <1>0, UsesType DEF TableCreate
  <2> QED  BY <1>14, <2>1, CurrentType DEF TableCreate
<1>15. CASE InsertExecute(s)
  <2>1. misuse' \in [Senders -> SUBSET Handles]
    BY <1>15, <1>0, UsesType DEF InsertExecute
  <2>2. [by |-> Current(s), order |-> Order(form[s])] \in Inserts
    <3>1. Current(s) \in Ids  BY <1>15, CurrentType DEF InsertExecute
    <3>2. Order(form[s]) \in Orders  BY OrderType
    <3> QED  BY <3>1, <3>2 DEF Inserts
  <2>3. insertSent' \in SUBSET Inserts  BY <1>15, <2>2 DEF InsertExecute
  <2> QED  BY <1>15, <2>1, <2>3 DEF InsertExecute
<1>16. CASE Answered(s)  BY <1>16 DEF Answered
<1>17. CASE InsertClose(s)  BY <1>17, <1>0, UsesType DEF InsertClose
<1>18. CASE Succeed(s)
  <2>1. misuse' \in [Senders -> SUBSET Handles]
    BY <1>18, <1>0, UsesType DEF Succeed
  <2>2. reports' \in SUBSET [by : Ids, at : Ends]
    BY <1>18, TellType DEF Succeed, Ends
  <2> QED  BY <1>18, <2>1, <2>2 DEF Succeed, Tell
<1> QED
  BY <1>1, <1>2, <1>3, <1>4, <1>5, <1>6, <1>7, <1>8, <1>9, <1>10, <1>11, <1>12,
     <1>13, <1>14, <1>15, <1>16, <1>17, <1>18 DEF SendStep

\* Every step keeps the types.
LEMMA TypeStep == TypeInv /\ [Next]_vars => TypeInv'
<1> SUFFICES ASSUME TypeInv, [Next]_vars PROVE TypeInv'
  OBVIOUS
<1> USE DEF TypeInv, TypeOK, Started, Steps, Running, ThrowingCalls, StmtCalls,
            Handles, Goto, ui, database, sent, history
<1>1. ASSUME NEW s \in Senders, SendStep(s) PROVE TypeInv'
  BY <1>1, TypeSendStep
<1>2. ASSUME NEW s \in Senders, Dismiss(s) PROVE TypeInv'
  BY <1>2 DEF Dismiss
<1>3. ASSUME NEW s \in Senders, ProcessEnds(s) PROVE TypeInv'
  BY <1>3 DEF ProcessEnds
<1>4. ASSUME NEW s \in Senders, Launch(s) PROVE TypeInv'
  BY <1>4 DEF Launch
<1>5. ASSUME NEW s \in Senders, NEW f \in Forms, Click(s, f) PROVE TypeInv'
  BY <1>5, OrderType DEF Click, Ids, Inserts
<1>6. ASSUME NEW i \in createSent, ServerCreates(i) PROVE TypeInv'
  BY <1>6 DEF ServerCreates, Answer, Ids
<1>7. ASSUME NEW m \in insertSent, ServerInserts(m) PROVE TypeInv'
  <2>1. rows' \in Seq(Inserts)
    <3>1. m \in Inserts  OBVIOUS
    <3>2. rows' = rows \/ rows' = Append(rows, m)
      BY <1>7 DEF ServerInserts
    <3>3. rows \in Seq(Inserts)  OBVIOUS
    <3> HIDE DEF TypeInv, TypeOK
    <3> QED  BY <3>1, <3>2, <3>3, AppendType
  <2>2. reply' \in [Senders -> {"none", "ok", "error"}]
    BY <1>7 DEF ServerInserts, Answer
  <2> QED  BY <1>7, <2>1, <2>2 DEF ServerInserts
<1>8. CASE MessageLost  BY <1>8 DEF MessageLost
<1>9. ASSUME NEW a \in Accounts, AccountsChange(a) PROVE TypeInv'
  BY <1>9 DEF AccountsChange
<1>10. CASE UNCHANGED vars  BY <1>10 DEF vars
<1> QED
  BY <1>1, <1>2, <1>3, <1>4, <1>5, <1>6, <1>7, <1>8, <1>9, <1>10
     DEF Next, Server

\* The types hold in every reachable state.
THEOREM TypeInvariant == Spec => []TypeInv
  BY TypeInit, TypeStep, PTL DEF Spec

\* Type correctness: every variable keeps its type in every reachable state.
THEOREM TypeCorrect == Spec => []TypeOK
  BY TypeInvariant, PTL DEF TypeInv
-----------------------------------------------------------------------------
\* Nothing is asked, sent or told at first.
LEMMA DeliveryInit == Init => DeliveryInv
  BY DEF Init, DeliveryInv, OrdersAsked, OneInsert, SendPhase, HasRow, InFlight,
         Told, DeliveredAsAsked, DeliveredAtMostOnce, SuccessMeansDelivered,
         FailureMeansNothing, BeforeInsert, Running, ThrowingCalls, StmtCalls

\* A step that touches neither table account_prize nor what was asked or told,
\* sends no INSERT and moves within a phase of the send, or from an answered
\* INSERT to the next phase.
Quiet ==
    /\ UNCHANGED <<clicks, rows, asked, reports>>
    /\ insertSent' \subseteq insertSent
    /\ \A s \in Senders :
        /\ pc'[s] \in Running => pc[s] \in Running /\ form'[s] = form[s]
        /\ pc'[s] \in BeforeInsert => pc[s] \in BeforeInsert
        /\ pc'[s] = "insert_wait" /\ reply'[s] = "ok" =>
               pc[s] = "insert_wait" /\ reply[s] = "ok"
        /\ pc'[s] \in {"insert_close", "close"} =>
               \/ pc[s] \in {"insert_close", "close"}
               \/ pc[s] = "insert_wait" /\ reply[s] = "ok"
        /\ reply'[s] # "none" => pc'[s] \in {"table_wait", "insert_wait"}

\* Such a step keeps the invariant.
LEMMA QuietStep ==
  ASSUME DeliveryInv, Quiet
  PROVE  DeliveryInv'
<1>1. OrdersAsked'
  BY DEF Quiet, DeliveryInv, OrdersAsked, DeliveredAsAsked, Current
<1>2. OneInsert'
  BY DEF Quiet, DeliveryInv, OneInsert, DeliveredAtMostOnce, HasRow
<1>3. SendPhase'
  <2>1. \A i : (HasRow(i)' <=> HasRow(i)) /\ (InFlight(i)' => InFlight(i))
               /\ (Told(i)' <=> Told(i))
    BY DEF Quiet, HasRow, InFlight, Told
  <2>2. \A s \in Senders : Current(s)' = Current(s)
    BY DEF Quiet, Current
  <2> QED  BY <2>1, <2>2 DEF Quiet, DeliveryInv, SendPhase
<1>4. SuccessMeansDelivered' /\ FailureMeansNothing'
  BY DEF Quiet, DeliveryInv, SuccessMeansDelivered, FailureMeansNothing
<1> QED  BY <1>1, <1>2, <1>3, <1>4 DEF DeliveryInv

\* A message box opened by a send that has not reached its INSERT, that failed
\* in it, or that has its row, keeps the invariant.
LEMMA ReportStep ==
  ASSUME TypeInv, DeliveryInv, NEW s \in Senders, pc[s] \in Running, NEW at,
         Tell(s, at), UNCHANGED <<clicks, form, rows, insertSent>>,
         \/ pc[s] \in BeforeInsert /\ at # "done"
         \/ pc[s] = "insert_wait" /\ at = "insert_wait"
         \/ pc[s] = "close" /\ at = "done",
         NEW q \in {"failed", "succeeded"}, pc' = [pc EXCEPT ![s] = q],
         reply' = reply \/ reply' = [reply EXCEPT ![s] = "none"],
         pc[s] \in {"table_wait", "insert_wait"} => reply'[s] = "none"
  PROVE  DeliveryInv'
<1> DEFINE r == [by |-> Current(s), at |-> at]
<1>1. reports' = reports \cup {r} /\ asked' = asked  BY DEF Tell
<1>2. pc \in [Senders -> Steps] /\ clicks \in [Senders -> 0..MaxClicks]
      /\ reply \in [Senders -> {"none", "ok", "error"}]
  BY DEF TypeInv, TypeOK
<1>3. \A t \in Senders : t # s => pc'[t] = pc[t] /\ reply'[t] = reply[t]
  BY <1>2
<1>4. pc'[s] = q /\ q \notin Running
  BY <1>2 DEF Running, ThrowingCalls, StmtCalls
<1>5. reply'[s] = "none"
  BY <1>2 DEF DeliveryInv, SendPhase
<1>6. OrdersAsked'
  <2>1. r.by[2] <= clicks[r.by[1]]  BY <1>2 DEF Current
  <2> QED  BY <1>1, <1>3, <1>4, <2>1
           DEF DeliveryInv, OrdersAsked, DeliveredAsAsked, Current
<1>7. OneInsert'
  BY DEF DeliveryInv, OneInsert, DeliveredAtMostOnce, HasRow
<1>8. SendPhase'
  <2> SUFFICES ASSUME NEW t \in Senders, t # s
               PROVE  SendPhase!(t)'
    BY <1>4, <1>5 DEF SendPhase, BeforeInsert, Running, ThrowingCalls, StmtCalls
  <2>1. Current(t)' = Current(t) /\ Current(t) # Current(s)  BY DEF Current
  <2>2. Told(Current(t))' => Told(Current(t))  BY <1>1, <2>1 DEF Told
  <2>3. HasRow(Current(t))' <=> HasRow(Current(t))  BY <2>1 DEF HasRow
  <2>4. InFlight(Current(t))' <=> InFlight(Current(t))  BY <2>1 DEF InFlight
  <2> QED  BY <1>3, <2>2, <2>3, <2>4 DEF DeliveryInv, SendPhase
<1>9. SuccessMeansDelivered'
  <2>1. at = "done" => HasRow(r.by)
    BY DEF DeliveryInv, SendPhase, BeforeInsert
  <2> QED  BY <1>1, <2>1 DEF DeliveryInv, SuccessMeansDelivered, HasRow
<1>10. FailureMeansNothing'
  <2>1. at \notin InDoubt \cup {"done"} => ~HasRow(r.by) /\ ~InFlight(r.by)
    BY DEF DeliveryInv, SendPhase, InDoubt
  <2> QED
    BY <1>1, <2>1 DEF DeliveryInv, FailureMeansNothing, HasRow, InFlight
<1> QED  BY <1>6, <1>7, <1>8, <1>9, <1>10 DEF DeliveryInv

\* InsertExecute puts one INSERT under way for a click that had none.
LEMMA InsertExecuteStep ==
  ASSUME TypeInv, DeliveryInv, NEW s \in Senders, InsertExecute(s)
  PROVE  DeliveryInv'
<1> DEFINE m == [by |-> Current(s), order |-> Order(form[s])]
<1>1. /\ pc[s] = "insert_execute" /\ pc' = [pc EXCEPT ![s] = "insert_wait"]
      /\ insertSent' = insertSent \cup {m}
      /\ UNCHANGED <<clicks, form, reply, rows, asked, reports>>
  BY DEF InsertExecute, Goto, ui, database, history
<1>2. pc \in [Senders -> Steps]  BY DEF TypeInv, TypeOK
<1>3. /\ \A t \in Senders : t # s => pc'[t] = pc[t]
      /\ pc'[s] = "insert_wait"
  BY <1>1, <1>2
<1>4. pc[s] \in Running /\ pc[s] \in BeforeInsert
  BY <1>1 DEF BeforeInsert, Running, ThrowingCalls, StmtCalls
<1>5. /\ m \in asked /\ ~Told(m.by) /\ ~HasRow(m.by) /\ ~InFlight(m.by)
      /\ reply[s] = "none"
  BY <1>1, <1>4 DEF DeliveryInv, OrdersAsked, SendPhase
<1>6. OrdersAsked'
  BY <1>1, <1>3, <1>4, <1>5
     DEF DeliveryInv, OrdersAsked, DeliveredAsAsked, Current
<1>7. OneInsert'
  BY <1>1, <1>5
     DEF DeliveryInv, OneInsert, DeliveredAtMostOnce, HasRow, InFlight
<1>8. SendPhase'
  <2> SUFFICES ASSUME NEW t \in Senders PROVE SendPhase!(t)'
    BY DEF SendPhase
  <2>1. /\ Current(t)' = Current(t)
        /\ \A i : (HasRow(i)' <=> HasRow(i)) /\ (Told(i)' <=> Told(i))
    BY <1>1 DEF Current, HasRow, Told
  <2>2. CASE t = s
    BY <1>1, <1>3, <1>5, <2>1, <2>2 DEF BeforeInsert
  <2>3. CASE t # s
    <3>1. InFlight(Current(t))' <=> InFlight(Current(t))
      BY <1>1, <2>1, <2>3 DEF InFlight, Current
    <3> QED  BY <1>1, <1>3, <2>1, <2>3, <3>1 DEF DeliveryInv, SendPhase
  <2> QED  BY <2>2, <2>3
<1>9. SuccessMeansDelivered'
  BY <1>1 DEF DeliveryInv, SuccessMeansDelivered
<1>10. FailureMeansNothing'
  BY <1>1, <1>5 DEF DeliveryInv, FailureMeansNothing, Told
<1> QED  BY <1>6, <1>7, <1>8, <1>9, <1>10 DEF DeliveryInv

\* The server turns an INSERT under way into a row, or refuses it.
LEMMA ServerInsertsStep ==
  ASSUME TypeInv, DeliveryInv, NEW m \in insertSent, ServerInserts(m)
  PROVE  DeliveryInv'
<1>1. /\ insertSent' = insertSent \ {m}
      /\ UNCHANGED <<pc, clicks, form, asked, reports>>
  BY DEF ServerInserts, ui, history
<1>2. /\ m \in Inserts /\ rows \in Seq(Inserts)
      /\ reply \in [Senders -> {"none", "ok", "error"}]
  BY DEF TypeInv, TypeOK
<1>3. m \in asked /\ ~HasRow(m.by) /\ InFlight(m.by)
  BY DEF DeliveryInv, OrdersAsked, OneInsert, InFlight
<1>4. /\ \A i : InFlight(i)' => InFlight(i) /\ i # m.by
      /\ \A i : Told(i)' <=> Told(i)
      /\ \A t \in Senders : Current(t)' = Current(t)
  BY <1>1 DEF DeliveryInv, OneInsert, InFlight, Told, Current
<1>5. \A t \in Senders : reply'[t] # reply[t] =>
          pc[t] = "insert_wait" /\ Current(t) = m.by
  BY <1>2 DEF ServerInserts, Answer, Waits, Current, Inserts, Ids
<1>6. CASE rows' = rows /\ Answer(m.by, "insert_wait", "error")
  <2>1. \A i : HasRow(i)' <=> HasRow(i)  BY <1>6 DEF HasRow
  <2>2. \A t \in Senders : reply'[t] = "ok" => reply[t] = "ok"
    BY <1>2, <1>6 DEF Answer
  <2>3. OrdersAsked'
    BY <1>1, <1>6 DEF DeliveryInv, OrdersAsked, DeliveredAsAsked, Current
  <2>4. OneInsert'
    BY <1>1, <1>6 DEF DeliveryInv, OneInsert, DeliveredAtMostOnce, HasRow
  <2>5. SendPhase'
    BY <1>1, <1>4, <1>5, <2>1, <2>2 DEF DeliveryInv, SendPhase
  <2>6. SuccessMeansDelivered' /\ FailureMeansNothing'
    BY <1>1, <1>6 DEF DeliveryInv, SuccessMeansDelivered, FailureMeansNothing
  <2> QED  BY <2>3, <2>4, <2>5, <2>6 DEF DeliveryInv
<1>7. CASE rows' = Append(rows, m)
  <2>1. /\ DOMAIN rows' = 1..Len(rows) + 1 /\ rows'[Len(rows) + 1] = m
        /\ \A k \in DOMAIN rows : rows'[k] = rows[k]
        /\ DOMAIN rows = 1..Len(rows) /\ Len(rows) \in Nat
    BY <1>2, <1>7
  <2>2. \A i : HasRow(i)' <=> HasRow(i) \/ i = m.by
    BY <2>1 DEF HasRow
  <2>3. OrdersAsked'
    BY <1>1, <1>3, <2>1 DEF DeliveryInv, OrdersAsked, DeliveredAsAsked, Current
  <2>4. OneInsert'
    <3>1. DeliveredAtMostOnce'
      BY <1>3, <2>1 DEF DeliveryInv, OneInsert, DeliveredAtMostOnce, HasRow
    <3> QED  BY <1>1, <2>2, <3>1 DEF DeliveryInv, OneInsert
  <2>5. SendPhase'
    <3> SUFFICES ASSUME NEW t \in Senders PROVE SendPhase!(t)'
      BY DEF SendPhase
    <3>1. CASE Current(t) = m.by
      <4>1. pc[t] \notin BeforeInsert
        BY <1>3, <3>1 DEF DeliveryInv, SendPhase
      <4> QED
        BY <1>1, <1>4, <1>5, <2>2, <3>1, <4>1 DEF DeliveryInv, SendPhase
    <3>2. CASE Current(t) # m.by
      BY <1>1, <1>4, <1>5, <2>2, <3>2 DEF DeliveryInv, SendPhase
    <3> QED  BY <3>1, <3>2
  <2>6. SuccessMeansDelivered'
    BY <1>1, <2>2 DEF DeliveryInv, SuccessMeansDelivered, HasRow
  <2>7. FailureMeansNothing'
    <3>1. \A p \in reports : p.at \notin InDoubt \cup {"done"} => p.by # m.by
      BY DEF DeliveryInv, FailureMeansNothing
    <3> QED
      BY <1>1, <2>1, <2>2, <3>1 DEF DeliveryInv, FailureMeansNothing, HasRow
  <2> QED  BY <2>3, <2>4, <2>5, <2>6, <2>7 DEF DeliveryInv
<1> QED  BY <1>6, <1>7 DEF ServerInserts

\* A click starts a send under an identity that nothing has used yet.
LEMMA ClickStep ==
  ASSUME TypeInv, DeliveryInv, NEW s \in Senders, NEW f \in Forms, Click(s, f)
  PROVE  DeliveryInv'
<1> DEFINE i == <<s, clicks[s] + 1>>
<1>1. /\ pc[s] = "idle" /\ pc' = [pc EXCEPT ![s] = "init"]
      /\ clicks' = [clicks EXCEPT ![s] = @ + 1]
      /\ form' = [form EXCEPT ![s] = f]
      /\ asked' = asked \cup {[by |-> i, order |-> Order(f)]}
      /\ UNCHANGED <<reply, rows, insertSent, reports>>
  BY DEF Click, Goto, database, sent
<1>2. /\ pc \in [Senders -> Steps] /\ clicks \in [Senders -> 0..MaxClicks]
      /\ form \in [Senders -> Forms]
      /\ asked \in SUBSET Inserts /\ insertSent \in SUBSET Inserts
      /\ reports \in SUBSET [by : Ids, at : Ends]
  BY DEF TypeInv, TypeOK
<1>3. /\ \A t \in Senders : t # s =>
             /\ pc'[t] = pc[t] /\ clicks'[t] = clicks[t] /\ form'[t] = form[t]
             /\ Current(t)' = Current(t)
      /\ pc'[s] = "init" /\ clicks'[s] = clicks[s] + 1 /\ form'[s] = f
      /\ Current(s)' = i
  BY <1>1, <1>2 DEF Current
<1>4. \A j \in Ids : clicks[j[1]] <= clicks'[j[1]] /\ clicks'[j[1]] \in Nat
                     /\ clicks[j[1]] \in Nat /\ j[2] \in Nat
  BY <1>2, <1>3 DEF Ids
<1>5. OrdersAsked'
  <2>1. \A a \in asked' : a.by[2] <= clicks'[a.by[1]]
    BY <1>1, <1>2, <1>3, <1>4 DEF DeliveryInv, OrdersAsked, Inserts
  <2>2. \A p \in reports' : p.by[2] <= clicks'[p.by[1]]
    BY <1>1, <1>2, <1>4 DEF DeliveryInv, OrdersAsked
  <2>3. insertSent' \subseteq asked' /\ DeliveredAsAsked'
    BY <1>1 DEF DeliveryInv, OrdersAsked, DeliveredAsAsked
  <2>4. \A t \in Senders : pc'[t] \in Running =>
            [by |-> Current(t)', order |-> Order(form'[t])] \in asked'
    BY <1>1, <1>3 DEF DeliveryInv, OrdersAsked
  <2> QED  BY <2>1, <2>2, <2>3, <2>4 DEF OrdersAsked, Order
<1>6. OneInsert'
  BY <1>1 DEF DeliveryInv, OneInsert, DeliveredAtMostOnce, HasRow
<1>7. SendPhase'
  <2>1. ~Told(i) /\ ~HasRow(i) /\ ~InFlight(i)
    BY <1>2 DEF DeliveryInv, OrdersAsked, DeliveredAsAsked, Told, HasRow,
                InFlight
  <2>2. \A j : (HasRow(j)' <=> HasRow(j)) /\ (InFlight(j)' <=> InFlight(j))
               /\ (Told(j)' <=> Told(j))
    BY <1>1 DEF HasRow, InFlight, Told
  <2>3. reply[s] = "none"
    BY <1>1 DEF DeliveryInv, SendPhase
  <2> QED  BY <1>1, <1>3, <2>1, <2>2, <2>3 DEF DeliveryInv, SendPhase
<1>8. SuccessMeansDelivered' /\ FailureMeansNothing'
  BY <1>1 DEF DeliveryInv, SuccessMeansDelivered, FailureMeansNothing
<1> QED  BY <1>5, <1>6, <1>7, <1>8 DEF DeliveryInv

\* The steps of the send handler keep the invariant.
LEMMA DeliverySendStep ==
  ASSUME TypeInv, DeliveryInv, NEW s \in Senders, SendStep(s)
  PROVE  DeliveryInv'
<1>0. /\ pc \in [Senders -> Steps]
      /\ reply \in [Senders -> {"none", "ok", "error"}]
      /\ reply[s] # "none" => pc[s] \in {"table_wait", "insert_wait"}
      /\ \A t \in Senders :
             reply[t] # "none" => pc[t] \in {"table_wait", "insert_wait"}
  BY DEF TypeInv, TypeOK, DeliveryInv, SendPhase
<1> USE DEF Goto, ui, database, sent, history
<1>1. CASE \/ MysqlInit(s) \/ SetOptions(s) \/ Connect(s) \/ ConvertFails(s)
           \/ StmtInit(s) \/ StmtPrepare(s)
  <2>1. Quiet
    BY <1>0, <1>1 DEF MysqlInit, SetOptions, Connect, ConvertFails, StmtInit,
       StmtPrepare, Quiet, BeforeInsert, Running, ThrowingCalls, StmtCalls
  <2> QED  BY <2>1, QuietStep
<1>2. CASE \/ AccountExecute(s) \/ StoreResult(s) \/ AccountExists(s)
           \/ TableSelect(s) \/ TableCreate(s)
  <2>1. Quiet
    BY <1>0, <1>2 DEF AccountExecute, StoreResult, AccountExists, TableSelect,
       TableCreate, Quiet, BeforeInsert, Running, ThrowingCalls, StmtCalls
  <2> QED  BY <2>1, QuietStep
<1>3. CASE Answered(s) \/ InsertClose(s)
  <2>1. Quiet
    BY <1>0, <1>3 DEF Answered, InsertClose, Quiet, BeforeInsert, Running,
       ThrowingCalls, StmtCalls
  <2> QED  BY <2>1, QuietStep
<1>4. CASE InsertExecute(s)  BY <1>4, InsertExecuteStep
<1>5. CASE CallFails(s)
  <2>1. /\ pc[s] \in Running /\ pc[s] # "done"
        /\ pc[s] \in BeforeInsert \/ pc[s] = "insert_wait"
    BY <1>5 DEF CallFails, BeforeInsert, Running, ThrowingCalls, StmtCalls
  <2>2. /\ Tell(s, pc[s]) /\ UNCHANGED <<clicks, form, rows, insertSent>>
        /\ pc' = [pc EXCEPT ![s] = "failed"]
        /\ reply' = [reply EXCEPT ![s] = "none"]
    BY <1>5 DEF CallFails, Throw
  <2>3. reply'[s] = "none"  BY <1>0, <2>2
  <2> QED  BY <2>1, <2>2, <2>3, ReportStep
<1>6. CASE AccountMissing(s)
  BY <1>6, ReportStep DEF AccountMissing, Throw, BeforeInsert, Running
<1>7. CASE AccountCloseFails(s)
  BY <1>7, ReportStep DEF AccountCloseFails, Throw, BeforeInsert, Running
<1>8. CASE Succeed(s)
  BY <1>8, ReportStep DEF Succeed, Running
<1> QED
  BY <1>1, <1>2, <1>3, <1>4, <1>5, <1>6, <1>7, <1>8 DEF SendStep

\* Every step keeps the invariant.
LEMMA DeliveryStep == TypeInv /\ DeliveryInv /\ [Next]_vars => DeliveryInv'
<1> SUFFICES ASSUME TypeInv, DeliveryInv, [Next]_vars PROVE DeliveryInv'
  OBVIOUS
<1>0. /\ pc \in [Senders -> Steps]
      /\ reply \in [Senders -> {"none", "ok", "error"}]
      /\ form \in [Senders -> Forms]
      /\ \A t \in Senders :
             reply[t] # "none" => pc[t] \in {"table_wait", "insert_wait"}
  BY DEF TypeInv, TypeOK, DeliveryInv, SendPhase
<1> USE DEF Goto, ui, database, sent, history
<1>1. ASSUME NEW s \in Senders, SendStep(s) PROVE DeliveryInv'
  BY <1>1, DeliverySendStep
<1>2. ASSUME NEW s \in Senders, Dismiss(s) \/ ProcessEnds(s) \/ Launch(s)
      PROVE  DeliveryInv'
  <2>1. Quiet
    BY <1>0, <1>2 DEF Dismiss, ProcessEnds, Launch, Quiet, BeforeInsert,
       Running, ThrowingCalls, StmtCalls
  <2> QED  BY <2>1, QuietStep
<1>3. ASSUME NEW s \in Senders, NEW f \in Forms, Click(s, f)
      PROVE  DeliveryInv'
  BY <1>3, ClickStep
<1>4. ASSUME NEW i \in createSent, ServerCreates(i) PROVE DeliveryInv'
  <2>1. \A t \in Senders : reply'[t] # reply[t] => pc[t] = "table_wait"
    BY <1>0, <1>4 DEF ServerCreates, Answer, Waits
  <2>2. Quiet  BY <1>0, <1>4, <2>1 DEF ServerCreates, Quiet
  <2> QED  BY <2>2, QuietStep
<1>5. ASSUME NEW m \in insertSent, ServerInserts(m) PROVE DeliveryInv'
  BY <1>5, ServerInsertsStep
<1>6. CASE MessageLost
  <2>1. Quiet  BY <1>0, <1>6 DEF MessageLost, Quiet
  <2> QED  BY <2>1, QuietStep
<1>7. ASSUME NEW a \in Accounts, AccountsChange(a) PROVE DeliveryInv'
  <2>1. Quiet  BY <1>0, <1>7 DEF AccountsChange, Quiet
  <2> QED  BY <2>1, QuietStep
<1>8. CASE UNCHANGED vars
  <2>1. Quiet  BY <1>0, <1>8 DEF vars, Quiet
  <2> QED  BY <2>1, QuietStep
<1> QED
  BY <1>1, <1>2, <1>3, <1>4, <1>5, <1>6, <1>7, <1>8 DEF Next, Server

\* The invariant holds in every reachable state.
THEOREM DeliveryInvariant == Spec => []DeliveryInv
  BY TypeInvariant, DeliveryInit, DeliveryStep, PTL DEF Spec

\* What a row grants, and to whom, was asked for by the click that caused it.
THEOREM DeliversAsAsked == Spec => []DeliveredAsAsked
<1>1. DeliveryInv => DeliveredAsAsked  BY DEF DeliveryInv, OrdersAsked
<1> QED  BY <1>1, DeliveryInvariant, PTL

\* A click delivers one row at most, through lost answers, retries and crashes.
THEOREM DeliversAtMostOnce == Spec => []DeliveredAtMostOnce
<1>1. DeliveryInv => DeliveredAtMostOnce  BY DEF DeliveryInv, OneInsert
<1> QED  BY <1>1, DeliveryInvariant, PTL

\* The success box is shown for delivered prizes only.
THEOREM SuccessIsTrue == Spec => []SuccessMeansDelivered
<1>1. DeliveryInv => SuccessMeansDelivered  BY DEF DeliveryInv
<1> QED  BY <1>1, DeliveryInvariant, PTL

\* A failure box that does not name the execution of the INSERT is shown for
\* prizes only that are not, and never will be, delivered.
THEOREM FailureIsTrue == Spec => []FailureMeansNothing
<1>1. DeliveryInv => FailureMeansNothing  BY DEF DeliveryInv
<1> QED  BY <1>1, DeliveryInvariant, PTL
-----------------------------------------------------------------------------
\* What PrizeDelivery sees of the message boxes.
verdicts == {[by |-> p.by, verdict |-> Verdict(p.at)] : p \in reports}

\* A message box is the verdict on the order that the copy is sending.
LEMMA PromiseTell ==
  ASSUME TypeInv, DeliveryInv, NEW s \in Senders, pc[s] \in Running, NEW at,
         Tell(s, at), UNCHANGED rows,
         \/ pc[s] \in BeforeInsert /\ at # "done"
         \/ pc[s] = "insert_wait" /\ at = "insert_wait"
         \/ pc[s] = "close" /\ at = "done"
  PROVE  Promise!Next
<1> DEFINE i == Current(s)
           a == [by |-> i, order |-> Order(form[s])]
<1>1. a \in asked /\ ~Told(i)
  BY DEF DeliveryInv, OrdersAsked, SendPhase
<1>2. verdicts' = verdicts \cup {[by |-> i, verdict |-> Verdict(at)]}
  <2> DEFINE told(p) == [by |-> p.by, verdict |-> Verdict(p.at)]
             r == [by |-> i, at |-> at]
  <2>1. reports' = reports \cup {r}  BY DEF Tell
  <2>2. told(r) = [by |-> i, verdict |-> Verdict(at)]  OBVIOUS
  <2>3. /\ verdicts = {told(p) : p \in reports}
        /\ verdicts' = {told(p) : p \in reports'}
    BY DEF verdicts
  <2> HIDE DEF told, r
  <2> QED  BY <2>1, <2>2, <2>3
<1>3. \A v \in verdicts : v.by # i  BY <1>1 DEF verdicts, Told
<1>4. at = "done" => HasRow(i)
  BY DEF DeliveryInv, SendPhase, BeforeInsert
<1>5. Verdict(at) = "refused" => ~HasRow(i)
  BY DEF Verdict, InDoubt, DeliveryInv, SendPhase
<1>6. Verdict(at) \in {"sent", "refused", "in doubt"}
      /\ (Verdict(at) = "sent" => at = "done")
  BY DEF Verdict
<1>7. Promise!Tell(a.by, Verdict(at))
  BY <1>2, <1>3, <1>4, <1>5, <1>6
     DEF Promise!Tell, Promise!Told, Promise!Delivered, verdicts, HasRow, Tell
<1> QED  BY <1>1, <1>6, <1>7 DEF Promise!Next

\* Every step of PrizeSend is one of PrizeDelivery, or changes nothing there.
LEMMA PromiseStep ==
  TypeInv /\ DeliveryInv /\ [Next]_vars => [Promise!Next]_(Promise!vars)
<1> SUFFICES ASSUME TypeInv, DeliveryInv, [Next]_vars
             PROVE  Promise!Next \/ UNCHANGED <<asked, reports, rows>>
  BY DEF Promise!vars
<1> USE DEF ui, database, sent, history
<1>1. ASSUME NEW s \in Senders, SendStep(s)
      PROVE  Promise!Next \/ UNCHANGED <<asked, reports, rows>>
  <2>1. CASE CallFails(s)
    <3>1. /\ pc[s] \in Running /\ pc[s] # "done"
          /\ pc[s] \in BeforeInsert \/ pc[s] = "insert_wait"
      BY <2>1 DEF CallFails, BeforeInsert, Running, ThrowingCalls, StmtCalls
    <3> QED  BY <2>1, <3>1, PromiseTell DEF CallFails, Throw
  <2>2. CASE AccountMissing(s)
    BY <2>2, PromiseTell DEF AccountMissing, Throw, BeforeInsert, Running
  <2>3. CASE AccountCloseFails(s)
    BY <2>3, PromiseTell DEF AccountCloseFails, Throw, BeforeInsert, Running
  <2>4. CASE Succeed(s)
    BY <2>4, PromiseTell DEF Succeed, Running, Goto
  <2>5. CASE \/ MysqlInit(s) \/ SetOptions(s) \/ Connect(s) \/ ConvertFails(s)
             \/ StmtInit(s) \/ StmtPrepare(s) \/ AccountExecute(s)
             \/ StoreResult(s) \/ AccountExists(s) \/ TableSelect(s)
             \/ TableCreate(s) \/ InsertExecute(s) \/ Answered(s)
             \/ InsertClose(s)
    BY <2>5 DEF MysqlInit, SetOptions, Connect, ConvertFails, StmtInit,
       StmtPrepare, AccountExecute, StoreResult, AccountExists, TableSelect,
       TableCreate, InsertExecute, Answered, InsertClose
  <2> QED  BY <1>1, <2>1, <2>2, <2>3, <2>4, <2>5 DEF SendStep
<1>2. ASSUME NEW s \in Senders, Dismiss(s) \/ ProcessEnds(s) \/ Launch(s)
      PROVE  UNCHANGED <<asked, reports, rows>>
  BY <1>2 DEF Dismiss, ProcessEnds, Launch
<1>3. ASSUME NEW s \in Senders, NEW f \in Forms, Click(s, f)
      PROVE  Promise!Next
  <2>1. clicks[s] \in 0..MaxClicks /\ clicks[s] < MaxClicks
    BY <1>3 DEF Click, TypeInv, TypeOK
  <2>2. <<s, clicks[s] + 1>> \in Ids  BY <2>1 DEF Ids
  <2>3. \A a \in asked : a.by # <<s, clicks[s] + 1>>
    BY <2>1 DEF DeliveryInv, OrdersAsked
  <2>4. Promise!Ask(<<s, clicks[s] + 1>>, Order(f))
    BY <1>3, <2>3 DEF Promise!Ask, Click
  <2> QED  BY <2>2, <2>4, OrderType DEF Promise!Next
<1>4. ASSUME NEW m \in insertSent, ServerInserts(m)
      PROVE  Promise!Next \/ UNCHANGED <<asked, reports, rows>>
  <2>1. CASE rows' = rows  BY <1>4, <2>1 DEF ServerInserts
  <2>2. CASE rows' = Append(rows, m)
    <3>1. m \in asked /\ ~HasRow(m.by)
      BY DEF DeliveryInv, OrdersAsked, OneInsert
    <3>2. \A p \in reports : p.by = m.by => Verdict(p.at) = "in doubt"
      BY <3>1 DEF DeliveryInv, SuccessMeansDelivered, FailureMeansNothing,
                  HasRow, Verdict
    <3>3. reports' = reports /\ asked' = asked  BY <1>4 DEF ServerInserts
    <3>4. verdicts' = verdicts  BY <3>3 DEF verdicts
    <3>5. \A v \in verdicts : v.by = m.by => v.verdict = "in doubt"
      <4> SUFFICES ASSUME NEW v \in verdicts, v.by = m.by
                   PROVE  v.verdict = "in doubt"
        OBVIOUS
      <4>1. PICK p \in reports : v = [by |-> p.by, verdict |-> Verdict(p.at)]
        BY DEF verdicts
      <4>2. p.by = m.by  BY <4>1
      <4>3. Verdict(p.at) = "in doubt"  BY <3>2, <4>2
      <4> QED  BY <4>1, <4>3
    <3>6. Promise!Deliver(m)
      BY <2>2, <3>1, <3>3, <3>4, <3>5
         DEF Promise!Deliver, Promise!Delivered, HasRow, verdicts
    <3> QED  BY <3>1, <3>6 DEF Promise!Next
  <2> QED  BY <1>4, <2>1, <2>2 DEF ServerInserts
<1>5. ASSUME NEW i \in createSent, ServerCreates(i)
      PROVE  UNCHANGED <<asked, reports, rows>>
  BY <1>5 DEF ServerCreates
<1>6. CASE MessageLost \/ \E a \in Accounts : AccountsChange(a)
  BY <1>6 DEF MessageLost, AccountsChange
<1>7. CASE UNCHANGED vars  BY <1>7 DEF vars
<1> QED
  BY <1>1, <1>2, <1>3, <1>4, <1>5, <1>6, <1>7 DEF Next, Server

\* Sending prizes implements the delivery service of PrizeDelivery.
THEOREM Implements == Spec => KeepsPromise
<1>1. Init => Promise!Init
  BY DEF Init, Promise!Init
<1> QED
  BY <1>1, PromiseStep, TypeInvariant, DeliveryInvariant, PTL
     DEF Spec, KeepsPromise, Promise!Spec
=============================================================================
