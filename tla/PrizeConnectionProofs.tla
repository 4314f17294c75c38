------------------------ MODULE PrizeConnectionProofs ------------------------
(***************************************************************************)
(* What holds of the two checks, the connection and its handles at every   *)
(* point of a send, for any number of copies and whatever may fail.        *)
(***************************************************************************)
EXTENDS PrizeSendProofs

\* A result is unread only until the call that fetches it.
ResultInv ==
    \A s \in Senders : unread[s] => pc[s] \in {"account_store", "table_store"}

\* The table is there once checkPrizeTable has found or created it.
TableInv ==
    /\ TableReady
    /\ \A s \in Senders : pc[s] = "table_wait" /\ reply[s] = "ok" => prizeTable

\* The points between a lookup that found the account and the INSERT.
PastLookup == {"table_select", "table_create", "table_wait", "table_store",
               "insert_init", "insert_prepare", "insert_execute"}

\* An account that was found is known, and so is that of every order sent.
AccountInv ==
    /\ OnlyRegisteredAccounts /\ accounts \subseteq known
    /\ \A m \in insertSent : m.order.account \in known
    /\ \A s \in Senders : pc[s] \in PastLookup =>
           Order(form[s]).account \in known
    /\ \A s \in Senders : pc[s] \in {"account_store", "account_close"} =>
           (found[s] => Order(form[s]).account \in known)

ChecksInv == ResultInv /\ TableInv /\ AccountInv

\* Nothing is sent, found or unread at first.
LEMMA ChecksInit == Init => ChecksInv
  BY DEF Init, ChecksInv, ResultInv, TableInv, TableReady, PastLookup,
         AccountInv, OnlyRegisteredAccounts

\* The steps of the send handler keep the three invariants.
LEMMA ChecksSendStep ==
  ASSUME TypeInv, DeliveryInv, ChecksInv, NEW s \in Senders, SendStep(s)
  PROVE  ChecksInv'
<1>0. /\ pc \in [Senders -> Steps] /\ form \in [Senders -> Forms]
      /\ found \in [Senders -> BOOLEAN] /\ unread \in [Senders -> BOOLEAN]
      /\ reply \in [Senders -> {"none", "ok", "error"}]
      /\ reply[s] # "none" => pc[s] \in {"table_wait", "insert_wait"}
  BY DEF TypeInv, TypeOK, DeliveryInv, SendPhase
<1>1. /\ UNCHANGED <<form, rows, accounts, known, prizeTable>>
      /\ \A t \in Senders : t # s =>
            /\ pc'[t] = pc[t] /\ unread'[t] = unread[t] /\ reply'[t] = reply[t]
            /\ found'[t] = found[t]
  BY <1>0 DEF SendStep, MysqlInit, SetOptions, Connect, ConvertFails, CallFails,
     StmtInit, StmtPrepare, AccountExecute, StoreResult, AccountExists,
     AccountMissing, AccountCloseFails, TableSelect, TableCreate, InsertExecute,
     Answered, InsertClose, Succeed, Throw, Goto, ui, database
<1>2. ResultInv'
  <2>1. unread'[s] => pc'[s] \in {"account_store", "table_store"}
    BY <1>0 DEF ChecksInv, ResultInv, SendStep, MysqlInit, SetOptions, Connect,
       ConvertFails, CallFails, StmtInit, StmtPrepare, AccountExecute,
       StoreResult, AccountExists, AccountMissing, AccountCloseFails,
       TableSelect, TableCreate, InsertExecute, Answered, InsertClose, Succeed,
       Throw, Goto
  <2> QED  BY <1>1, <2>1 DEF ChecksInv, ResultInv
<1>3. TableInv'
  <2>1. CASE TableSelect(s)
    BY <1>0, <1>1, <2>1
       DEF ChecksInv, TableInv, TableReady, TableSelect, Goto
  <2>2. CASE TableCreate(s)
    BY <1>0, <1>1, <2>2
       DEF ChecksInv, TableInv, TableReady, TableCreate, Goto
  <2>3. CASE Answered(s)
    BY <1>0, <1>1, <2>3 DEF ChecksInv, TableInv, TableReady, Answered, Goto
  <2>4. CASE \/ StmtInit(s) \/ StmtPrepare(s) \/ StoreResult(s)
             \/ InsertExecute(s) \/ InsertClose(s)
    BY <1>0, <1>1, <2>4 DEF ChecksInv, TableInv, TableReady, StmtInit,
       StmtPrepare, StoreResult, InsertExecute, InsertClose, Goto
  <2>5. CASE \/ MysqlInit(s) \/ SetOptions(s) \/ Connect(s) \/ ConvertFails(s)
             \/ CallFails(s) \/ AccountExecute(s) \/ AccountExists(s)
             \/ AccountMissing(s) \/ AccountCloseFails(s) \/ Succeed(s)
    BY <1>0, <1>1, <2>5 DEF ChecksInv, TableInv, TableReady, MysqlInit,
       SetOptions, Connect, ConvertFails, CallFails, AccountExecute,
       AccountExists, AccountMissing, AccountCloseFails, Succeed, Throw, Goto
  <2> QED  BY <2>1, <2>2, <2>3, <2>4, <2>5 DEF SendStep
<1>4. AccountInv'
  <2>1. OnlyRegisteredAccounts' /\ (accounts \subseteq known)'
    BY <1>1 DEF ChecksInv, AccountInv, OnlyRegisteredAccounts
  <2>2. \A f : Order(f)' = Order(f)  BY DEF Order
  <2>3. CASE InsertExecute(s)
    <3>1. pc[s] \in PastLookup /\ pc'[s] = "insert_wait"
      BY <1>0, <2>3 DEF InsertExecute, Goto, PastLookup
    <3>2. insertSent' = insertSent \cup
              {[by |-> Current(s), order |-> Order(form[s])]}
      BY <2>3 DEF InsertExecute
    <3> QED  BY <1>0, <1>1, <2>1, <2>2, <3>1, <3>2
             DEF ChecksInv, AccountInv, PastLookup
  <2>4. CASE AccountExecute(s)
    <3>1. /\ pc'[s] = "account_store" /\ insertSent' = insertSent
          /\ found'[s] => Order(form[s]).account \in accounts
      BY <1>0, <2>4 DEF AccountExecute, Goto, sent
    <3> QED  BY <1>0, <1>1, <2>1, <2>2, <3>1
             DEF ChecksInv, AccountInv, PastLookup
  <2>5. CASE ~InsertExecute(s) /\ ~AccountExecute(s)
    <3>1. insertSent' = insertSent /\ found' = found
      BY <2>5 DEF SendStep, MysqlInit, SetOptions, Connect, ConvertFails,
         CallFails, StmtInit, StmtPrepare, StoreResult, AccountExists,
         AccountMissing, AccountCloseFails, TableSelect, TableCreate, Answered,
         InsertClose, Succeed, sent
    <3>2. pc'[s] \in PastLookup => \/ pc[s] \in PastLookup
                                   \/ pc[s] = "account_close" /\ found[s]
      BY <1>0, <2>5 DEF SendStep, MysqlInit, SetOptions, Connect, ConvertFails,
         CallFails, StmtInit, StmtPrepare, StoreResult, AccountExists,
         AccountMissing, AccountCloseFails, TableSelect, TableCreate, Answered,
         InsertClose, Succeed, Throw, Goto, PastLookup
    <3>3. pc'[s] \in {"account_store", "account_close"} =>
              pc[s] = "account_store"
      BY <1>0, <2>5 DEF SendStep, MysqlInit, SetOptions, Connect, ConvertFails,
         CallFails, StmtInit, StmtPrepare, StoreResult, AccountExists,
         AccountMissing, AccountCloseFails, TableSelect, TableCreate, Answered,
         InsertClose, Succeed, Throw, Goto
    <3> QED  BY <1>0, <1>1, <2>1, <2>2, <3>1, <3>2, <3>3
             DEF ChecksInv, AccountInv
  <2> QED  BY <2>3, <2>4, <2>5
<1> QED  BY <1>2, <1>3, <1>4 DEF ChecksInv

\* Every step keeps the three invariants.
LEMMA ChecksStep ==
  TypeInv /\ DeliveryInv /\ ChecksInv /\ [Next]_vars => ChecksInv'
<1> SUFFICES ASSUME TypeInv, DeliveryInv, ChecksInv, [Next]_vars
             PROVE  ChecksInv'
  OBVIOUS
<1>0. /\ pc \in [Senders -> Steps] /\ form \in [Senders -> Forms]
      /\ unread \in [Senders -> BOOLEAN] /\ found \in [Senders -> BOOLEAN]
      /\ reply \in [Senders -> {"none", "ok", "error"}]
      /\ rows \in Seq(Inserts) /\ insertSent \in SUBSET Inserts
      /\ prizeTable \in BOOLEAN
  BY DEF TypeInv, TypeOK
<1>1. \A t \in Senders : unread[t] => pc[t] \in {"account_store", "table_store"}
  BY DEF ChecksInv, ResultInv
<1>2. \A f : Order(f)' = Order(f)  BY DEF Order
<1> USE DEF ChecksInv, ui, database, sent, history
<1>3. ASSUME NEW s \in Senders, SendStep(s) PROVE ChecksInv'
  BY <1>3, ChecksSendStep
<1>4. ASSUME NEW s \in Senders, Dismiss(s) \/ ProcessEnds(s) \/ Launch(s)
      PROVE  ChecksInv'
  <2>1. /\ UNCHANGED <<rows, accounts, known, prizeTable, insertSent>>
        /\ pc'[s] \in {"idle", "closed"}
        /\ \A t \in Senders : t # s =>
              /\ pc'[t] = pc[t] /\ unread'[t] = unread[t]
              /\ reply'[t] = reply[t] /\ found'[t] = found[t]
              /\ form'[t] = form[t]
    BY <1>0, <1>4 DEF Dismiss, ProcessEnds, Launch, Goto
  <2>2. ~unread'[s]
    BY <1>0, <1>1, <1>4 DEF Dismiss, ProcessEnds, Launch, Goto
  <2>3. ResultInv'  BY <2>1, <2>2 DEF ResultInv
  <2>4. TableInv'  BY <2>1 DEF TableInv, TableReady
  <2>5. AccountInv'
    BY <1>2, <2>1 DEF AccountInv, OnlyRegisteredAccounts, PastLookup
  <2> QED  BY <2>3, <2>4, <2>5
<1>5. ASSUME NEW s \in Senders, NEW f \in Forms, Click(s, f)
      PROVE  ChecksInv'
  <2>1. /\ UNCHANGED <<rows, accounts, known, prizeTable, insertSent, unread,
                       reply, found>>
        /\ pc[s] = "idle" /\ pc'[s] = "init"
        /\ \A t \in Senders : t # s => pc'[t] = pc[t] /\ form'[t] = form[t]
    BY <1>0, <1>5 DEF Click, Goto
  <2>2. ResultInv'  BY <1>1, <2>1 DEF ResultInv
  <2>3. TableInv'  BY <2>1 DEF TableInv, TableReady
  <2>4. AccountInv'
    BY <1>2, <2>1 DEF AccountInv, OnlyRegisteredAccounts, PastLookup
  <2> QED  BY <2>2, <2>3, <2>4
<1>6. ASSUME NEW i \in createSent, ServerCreates(i) PROVE ChecksInv'
  <2>1. /\ UNCHANGED <<pc, form, unread, found, rows, accounts, known,
                       insertSent>>
        /\ prizeTable => prizeTable'
        /\ \A t \in Senders : reply'[t] = "ok" => reply[t] = "ok" \/ prizeTable'
    BY <1>0, <1>6 DEF ServerCreates, Answer
  <2>2. ResultInv' /\ TableInv'  BY <2>1 DEF ResultInv, TableInv, TableReady
  <2>3. AccountInv'  BY <1>2, <2>1 DEF AccountInv, OnlyRegisteredAccounts
  <2> QED  BY <2>2, <2>3
<1>7. ASSUME NEW m \in insertSent, ServerInserts(m) PROVE ChecksInv'
  <2>1. /\ UNCHANGED <<pc, form, unread, found, accounts, known, prizeTable>>
        /\ insertSent' = insertSent \ {m}
        /\ rows' = rows \/ rows' = Append(rows, m)
        /\ \A t \in Senders : reply'[t] = "ok" => reply[t] = "ok" \/ prizeTable
    BY <1>0, <1>7 DEF ServerInserts, Answer
  <2>2. ResultInv' /\ TableInv'  BY <2>1 DEF ResultInv, TableInv, TableReady
  <2>3. OnlyRegisteredAccounts'
    <3>1. m.order.account \in known  BY DEF AccountInv
    <3> QED  BY <1>0, <2>1, <3>1 DEF AccountInv, OnlyRegisteredAccounts
  <2>4. AccountInv'  BY <1>2, <2>1, <2>3 DEF AccountInv
  <2> QED  BY <2>2, <2>4
<1>8. CASE MessageLost
  <2>1. /\ UNCHANGED <<pc, form, unread, found, rows, accounts, known,
                       prizeTable>>
        /\ insertSent' \subseteq insertSent
        /\ \A t \in Senders : reply'[t] = "ok" => reply[t] = "ok"
    BY <1>0, <1>8 DEF MessageLost
  <2>2. ResultInv' /\ TableInv'  BY <2>1 DEF ResultInv, TableInv, TableReady
  <2>3. AccountInv'  BY <1>2, <2>1 DEF AccountInv, OnlyRegisteredAccounts
  <2> QED  BY <2>2, <2>3
<1>9. ASSUME NEW a \in Accounts, AccountsChange(a) PROVE ChecksInv'
  <2>1. /\ UNCHANGED <<pc, form, unread, found, rows, prizeTable, reply,
                       insertSent>>
        /\ known \subseteq known' /\ accounts' \subseteq known'
    BY <1>9 DEF AccountsChange
  <2>2. ResultInv' /\ TableInv'  BY <2>1 DEF ResultInv, TableInv, TableReady
  <2>3. AccountInv'  BY <1>2, <2>1 DEF AccountInv, OnlyRegisteredAccounts
  <2> QED  BY <2>2, <2>3
<1>10. CASE UNCHANGED vars
  <2>1. ResultInv' /\ TableInv'
    BY <1>10 DEF vars, ResultInv, TableInv, TableReady
  <2>2. AccountInv'
    BY <1>2, <1>10 DEF vars, AccountInv, OnlyRegisteredAccounts
  <2> QED  BY <2>1, <2>2
<1> QED
  BY <1>3, <1>4, <1>5, <1>6, <1>7, <1>8, <1>9, <1>10 DEF Next, Server

\* The three invariants hold in every reachable state.
LEMMA ChecksInvariant == Spec => []ChecksInv
  BY TypeInvariant, DeliveryInvariant, ChecksInit, ChecksStep, PTL DEF Spec

\* checkPrizeTable returns only when the table is there, whoever created it.
THEOREM TableIsReady == Spec => []TableReady
<1>1. ChecksInv => TableReady  BY DEF ChecksInv, TableInv
<1> QED  BY <1>1, ChecksInvariant, PTL

\* No row is for an account that was never registered.
THEOREM AccountsAreRegistered == Spec => []OnlyRegisteredAccounts
<1>1. ChecksInv => OnlyRegisteredAccounts  BY DEF ChecksInv, AccountInv
<1> QED  BY <1>1, ChecksInvariant, PTL

\* No command is sent while a result of the connection is unread.
THEOREM CommandsAreInSync == Spec => []CommandsInSync
<1>1. ChecksInv => CommandsInSync
  BY DEF ChecksInv, ResultInv, CommandsInSync, InSync
<1> QED  BY <1>1, ChecksInvariant, PTL
-----------------------------------------------------------------------------
\* The points at which a send has a statement.
StmtPoints == StmtCalls \cup {"account_close", "insert_close"}

\* A statement is open only at those points, a connection only while the send
\* runs, or once an uncaught exception has left the button disabled.
HandleInv ==
    \A s \in Senders :
        /\ handle[s]["stmt"] = "open" => pc[s] \in StmtPoints
        /\ handle[s]["conn"] = "open" =>
               \/ pc[s] \in Running \ {"init"}
               \/ pc[s] = "idle" /\ button[s] = "disabled"
        /\ pc[s] \in Running => button[s] = "disabled"

\* The steps of the send handler keep it: every exit closes what is open.
LEMMA HandleSendStep ==
  ASSUME TypeInv, HandleInv, NEW s \in Senders, SendStep(s)
  PROVE  HandleInv'
<1>0. /\ pc \in [Senders -> Steps]
      /\ handle \in [Senders -> [Handles -> {"null", "open", "freed"}]]
      /\ button \in [Senders -> {"enabled", "disabled"}]
      /\ "conn" \in Handles /\ "stmt" \in Handles
  BY DEF TypeInv, TypeOK, Handles
<1>1. \A t \in Senders : t # s =>
          pc'[t] = pc[t] /\ handle'[t] = handle[t] /\ button'[t] = button[t]
  BY <1>0 DEF SendStep, MysqlInit, SetOptions, Connect, ConvertFails, CallFails,
     StmtInit, StmtPrepare, AccountExecute, StoreResult, AccountExists,
     AccountMissing, AccountCloseFails, TableSelect, TableCreate, InsertExecute,
     Answered, InsertClose, Succeed, Throw, Goto, Open, Free, ui
<1>2. SUFFICES HandleInv!(s)'
  BY <1>1 DEF HandleInv
<1> USE DEF HandleInv, StmtPoints, Running, ThrowingCalls, StmtCalls, Goto, ui
<1>3. CASE MysqlInit(s) \/ SetOptions(s)
  BY <1>0, <1>3 DEF MysqlInit, SetOptions, Open, Free
<1>4. CASE Connect(s) \/ ConvertFails(s)
  BY <1>0, <1>4 DEF Connect, ConvertFails
<1>5. CASE CallFails(s)
  BY <1>0, <1>5 DEF CallFails, Throw, Free, Closes
<1>6. CASE StmtInit(s) \/ StmtPrepare(s)
  BY <1>0, <1>6 DEF StmtInit, StmtPrepare, Open
<1>7. CASE AccountExecute(s) \/ StoreResult(s)
  BY <1>0, <1>7 DEF AccountExecute, StoreResult, Handles
<1>8. CASE AccountExists(s) \/ AccountMissing(s) \/ AccountCloseFails(s)
  BY <1>0, <1>8
     DEF AccountExists, AccountMissing, AccountCloseFails, Throw, Free
<1>9. CASE TableSelect(s) \/ TableCreate(s)
  BY <1>0, <1>9 DEF TableSelect, TableCreate
<1>10. CASE InsertExecute(s) \/ Answered(s)
  BY <1>0, <1>10 DEF InsertExecute, Answered
<1>11. CASE InsertClose(s) \/ Succeed(s)
  BY <1>0, <1>11 DEF InsertClose, Succeed, Free
<1> QED
  BY <1>3, <1>4, <1>5, <1>6, <1>7, <1>8, <1>9, <1>10, <1>11 DEF SendStep

\* Every step keeps it.
LEMMA HandleStep == TypeInv /\ HandleInv /\ [Next]_vars => HandleInv'
<1> SUFFICES ASSUME TypeInv, HandleInv, [Next]_vars PROVE HandleInv'
  OBVIOUS
<1>0. /\ pc \in [Senders -> Steps]
      /\ handle \in [Senders -> [Handles -> {"null", "open", "freed"}]]
      /\ button \in [Senders -> {"enabled", "disabled"}]
      /\ "conn" \in Handles /\ "stmt" \in Handles
  BY DEF TypeInv, TypeOK, Handles
<1> USE DEF ui, database, sent, history
<1>1. ASSUME NEW s \in Senders, SendStep(s) PROVE HandleInv'
  BY <1>1, HandleSendStep
<1>2. ASSUME NEW s \in Senders,
             Dismiss(s) \/ ProcessEnds(s) \/ Launch(s)
             \/ \E f \in Forms : Click(s, f)
      PROVE  HandleInv'
  <2>1. \A t \in Senders : t # s =>
            pc'[t] = pc[t] /\ handle'[t] = handle[t] /\ button'[t] = button[t]
    BY <1>0, <1>2 DEF Dismiss, ProcessEnds, Launch, Click, Goto
  <2>2. HandleInv!(s)'
    BY <1>0, <1>2 DEF HandleInv, StmtPoints, Running, ThrowingCalls, StmtCalls,
       Dismiss, ProcessEnds, Launch, Click, Goto
  <2> QED  BY <2>1, <2>2 DEF HandleInv
<1>3. CASE Server \/ MessageLost \/ (\E a \in Accounts : AccountsChange(a))
           \/ UNCHANGED vars
  BY <1>3 DEF Server, ServerCreates, ServerInserts, MessageLost,
     AccountsChange, vars, HandleInv
<1> QED  BY <1>1, <1>2, <1>3 DEF Next

\* It holds in every reachable state.
LEMMA HandleInvariant == Spec => []HandleInv
<1>1. Init => HandleInv
  <2> SUFFICES ASSUME Init, NEW s \in Senders PROVE HandleInv!(s)
    BY DEF HandleInv
  <2>1. pc[s] = "idle"  BY DEF Init
  <2>2. \A h \in Handles : handle[s][h] = "null"  BY DEF Init
  <2> QED  BY <2>1, <2>2 DEF Handles, Running, ThrowingCalls, StmtCalls
<1> QED  BY <1>1, HandleStep, TypeInvariant, PTL DEF Spec

\* By whichever exit a send ends, its statement and connection are closed.
THEOREM NothingStaysOpen == Spec => []NothingLeftOpen
<1>1. HandleInv /\ TypeInv => NothingLeftOpen
  BY DEF HandleInv, NothingLeftOpen, TypeInv, TypeOK, Handles, StmtPoints,
     Running, ThrowingCalls, StmtCalls
<1> QED  BY <1>1, HandleInvariant, TypeInvariant, PTL

\* As long as the two calls after which the code uses a freed handle succeed, a
\* send has an open connection and statement wherever it uses one.
CleanInv ==
    \A s \in Senders :
        /\ misuse[s] = {}
        /\ pc[s] \in Running \ {"init"} => handle[s]["conn"] = "open"
        /\ pc[s] \in StmtPoints => handle[s]["stmt"] = "open"

\* A step of a send keeps it.
LEMMA CleanSendStep ==
  ASSUME TypeInv, DeliveryInv, ResultInv, HandleInv, CleanInv,
         {"options", "account_close"} \cap Faults = {},
         NEW s \in Senders, SendStep(s)
  PROVE  CleanInv'
<1>0. /\ pc \in [Senders -> Steps]
      /\ handle \in [Senders -> [Handles -> {"null", "open", "freed"}]]
      /\ misuse \in [Senders -> SUBSET Handles]
      /\ "conn" \in Handles /\ "stmt" \in Handles
      /\ \A h \in Handles : h = "conn" \/ h = "stmt"
  BY DEF TypeInv, TypeOK, Handles
<1>1. \A t \in Senders : t # s =>
          pc'[t] = pc[t] /\ handle'[t] = handle[t] /\ misuse'[t] = misuse[t]
  BY <1>0 DEF SendStep, MysqlInit, SetOptions, Connect, ConvertFails, CallFails,
     StmtInit, StmtPrepare, AccountExecute, StoreResult, AccountExists,
     AccountMissing, AccountCloseFails, TableSelect, TableCreate, InsertExecute,
     Answered, InsertClose, Succeed, Throw, Goto, Open, Free, Uses
<1>2. SUFFICES CleanInv!(s)'
  BY <1>1 DEF CleanInv
<1>3. ~AccountCloseFails(s)
  <2>1. ASSUME pc[s] = "account_close" PROVE ~MayFail(s, "account_close")
    <3>1. handle[s]["conn"] = "open"
      BY <2>1 DEF CleanInv, Running
    <3>2. ~unread[s] /\ reply[s] = "none"
      BY <2>1 DEF ResultInv, DeliveryInv, SendPhase
    <3> QED  BY <3>1, <3>2 DEF MayFail
  <2> QED  BY <2>1 DEF AccountCloseFails
<1> USE DEF CleanInv, StmtPoints, Running, ThrowingCalls, StmtCalls, Goto
<1>4. CASE MysqlInit(s) \/ SetOptions(s) \/ ConvertFails(s)
  BY <1>0, <1>4 DEF MysqlInit, SetOptions, ConvertFails, Open
<1>5. CASE Connect(s)
  <2>1. handle[s]["conn"] = "open" /\ handle' = handle
    BY <1>5 DEF Connect
  <2>2. misuse'[s] = {}  BY <1>0, <1>5, <2>1 DEF Connect, Uses
  <2>3. pc'[s] \in {"connect", "account_name", "account_init"}
    BY <1>0, <1>5 DEF Connect
  <2> QED  BY <2>1, <2>2, <2>3
<1>6. CASE CallFails(s)
  <2>1. \A h \in Closes(pc[s]) : handle[s][h] # "freed"
    BY <1>6 DEF CallFails, Closes
  <2>2. misuse'[s] = {}  BY <1>0, <1>6, <2>1 DEF CallFails, Uses
  <2>3. pc'[s] = "failed"  BY <1>0, <1>6 DEF CallFails, Throw
  <2> QED  BY <2>2, <2>3
<1>7. CASE StmtInit(s)  BY <1>0, <1>7 DEF StmtInit, Uses, Open
<1>8. CASE StmtPrepare(s)
  <2>1. /\ handle[s]["conn"] = "open" /\ handle[s]["stmt"] = "open"
        /\ handle' = handle
    BY <1>8 DEF StmtPrepare
  <2>2. misuse'[s] = {}  BY <1>0, <1>8, <2>1 DEF StmtPrepare, Uses
  <2> QED  BY <1>0, <1>8, <2>1, <2>2 DEF StmtPrepare
<1>9. CASE AccountExecute(s)  BY <1>0, <1>9 DEF AccountExecute, Uses
<1>10. CASE StoreResult(s)
  <2>1. /\ handle[s]["conn"] = "open" /\ handle' = handle
        /\ pc[s] = "account_store" => handle[s]["stmt"] = "open"
    BY <1>10 DEF StoreResult
  <2>2. misuse'[s] = {}  BY <1>0, <1>10, <2>1 DEF StoreResult, Uses
  <2>3. \/ pc[s] = "account_store" /\ pc'[s] = "account_close"
        \/ pc'[s] = "insert_init"
    BY <1>0, <1>10 DEF StoreResult
  <2> QED  BY <2>1, <2>2, <2>3
<1>11. CASE AccountExists(s)  BY <1>0, <1>11 DEF AccountExists, Uses, Free
<1>12. CASE AccountMissing(s)
  BY <1>0, <1>12 DEF AccountMissing, Uses, Throw
<1>13. CASE TableSelect(s) \/ TableCreate(s)
  BY <1>0, <1>13 DEF TableSelect, TableCreate, Uses
<1>14. CASE InsertExecute(s)
  <2>1. /\ handle[s]["conn"] = "open" /\ handle[s]["stmt"] = "open"
        /\ handle' = handle
    BY <1>14 DEF InsertExecute
  <2>2. misuse'[s] = {}  BY <1>0, <1>14, <2>1 DEF InsertExecute, Uses
  <2> QED  BY <1>0, <1>14, <2>1, <2>2 DEF InsertExecute
<1>17. CASE Answered(s)  BY <1>0, <1>17 DEF Answered
<1>15. CASE InsertClose(s)  BY <1>0, <1>15 DEF InsertClose, Uses, Free
<1>16. CASE Succeed(s)  BY <1>0, <1>16 DEF Succeed, Uses
<1> QED
  BY <1>3, <1>4, <1>5, <1>6, <1>7, <1>8, <1>9, <1>10, <1>11, <1>12, <1>13,
     <1>14, <1>15, <1>16, <1>17 DEF SendStep

\* Every step keeps it.
LEMMA CleanStep ==
  ASSUME {"options", "account_close"} \cap Faults = {}
  PROVE  TypeInv /\ DeliveryInv /\ ChecksInv /\ HandleInv /\ CleanInv
         /\ [Next]_vars => CleanInv'
<1> SUFFICES ASSUME TypeInv, DeliveryInv, ChecksInv, HandleInv, CleanInv,
                    [Next]_vars
             PROVE  CleanInv'
  OBVIOUS
<1>0. /\ pc \in [Senders -> Steps]
      /\ handle \in [Senders -> [Handles -> {"null", "open", "freed"}]]
      /\ misuse \in [Senders -> SUBSET Handles]
  BY DEF TypeInv, TypeOK
<1> USE DEF ui, database, sent, history
<1>1. ASSUME NEW s \in Senders, SendStep(s) PROVE CleanInv'
  BY <1>1, CleanSendStep DEF ChecksInv
<1>2. ASSUME NEW s \in Senders,
             Dismiss(s) \/ ProcessEnds(s) \/ Launch(s)
             \/ \E f \in Forms : Click(s, f)
      PROVE  CleanInv'
  <2>1. \A t \in Senders : t # s =>
            pc'[t] = pc[t] /\ handle'[t] = handle[t] /\ misuse'[t] = misuse[t]
    BY <1>0, <1>2 DEF Dismiss, ProcessEnds, Launch, Click, Goto
  <2>2. misuse'[s] = {} /\ pc'[s] \in {"idle", "closed", "init"}
    BY <1>0, <1>2 DEF CleanInv, Dismiss, ProcessEnds, Launch, Click, Goto
  <2> QED  BY <2>1, <2>2
           DEF CleanInv, StmtPoints, Running, ThrowingCalls, StmtCalls
<1>3. CASE Server \/ MessageLost \/ (\E a \in Accounts : AccountsChange(a))
           \/ UNCHANGED vars
  BY <1>3 DEF Server, ServerCreates, ServerInserts, MessageLost,
     AccountsChange, vars, CleanInv
<1> QED  BY <1>1, <1>2, <1>3 DEF Next

\* No freed handle is used unless mysql_optionsv or the mysql_stmt_close of
\* checkAccountExists fails, whatever else does.
THEOREM NoFreedHandleUsed ==
  ASSUME {"options", "account_close"} \cap Faults = {}
  PROVE  Spec => []NoUseAfterClose
<1>1. Init => CleanInv
  BY DEF Init, CleanInv, StmtPoints, Running, ThrowingCalls, StmtCalls
<1>2. TypeInv /\ DeliveryInv /\ ChecksInv /\ HandleInv /\ CleanInv
      /\ [Next]_vars => CleanInv'
  BY CleanStep
<1>3. CleanInv => NoUseAfterClose  BY DEF CleanInv, NoUseAfterClose
<1> QED
  BY <1>1, <1>2, <1>3, TypeInvariant, DeliveryInvariant, ChecksInvariant,
     HandleInvariant, PTL DEF Spec
-----------------------------------------------------------------------------
\* A copy that is started finds its button enabled.
ButtonInv == \A s \in Senders :
                 pc[s] \in {"idle", "closed"} => button[s] = "enabled"

\* A step that leaves no copy newly idle or closed, or enables the button of
\* the one that it does, keeps it; the step back to the message loop that does
\* not enable the button is ConvertFails.
LEMMA ButtonStep ==
  ASSUME {"settings", "account_name"} \cap Faults = {}
  PROVE  TypeInv /\ ButtonInv /\ [Next]_vars => ButtonInv'
<1> SUFFICES ASSUME TypeInv, ButtonInv, [Next]_vars PROVE ButtonInv'
  OBVIOUS
<1>0. /\ pc \in [Senders -> Steps]
      /\ button \in [Senders -> {"enabled", "disabled"}]
  BY DEF TypeInv, TypeOK
<1> USE DEF ui, database, sent, history
<1>1. ASSUME NEW s \in Senders, SendStep(s) PROVE ButtonInv'
  <2>1. ~ConvertFails(s)  BY DEF ConvertFails
  <2>2. \A t \in Senders : t # s => pc'[t] = pc[t] /\ button'[t] = button[t]
    BY <1>0, <1>1 DEF SendStep, MysqlInit, SetOptions, Connect, ConvertFails,
       CallFails, StmtInit, StmtPrepare, AccountExecute, StoreResult,
       AccountExists, AccountMissing, AccountCloseFails, TableSelect,
       TableCreate, InsertExecute, Answered, InsertClose, Succeed, Throw, Goto
  <2>3. pc'[s] \notin {"idle", "closed"}
    BY <1>0, <1>1, <2>1 DEF SendStep, MysqlInit, SetOptions, Connect,
       CallFails, StmtInit, StmtPrepare, AccountExecute, StoreResult,
       AccountExists, AccountMissing, AccountCloseFails, TableSelect,
       TableCreate, InsertExecute, Answered, InsertClose, Succeed, Throw, Goto
  <2> QED  BY <2>2, <2>3 DEF ButtonInv
<1>2. ASSUME NEW s \in Senders,
             Dismiss(s) \/ ProcessEnds(s) \/ Launch(s)
             \/ \E f \in Forms : Click(s, f)
      PROVE  ButtonInv'
  <2>1. \A t \in Senders : t # s => pc'[t] = pc[t] /\ button'[t] = button[t]
    BY <1>0, <1>2 DEF Dismiss, ProcessEnds, Launch, Click, Goto
  <2>2. button'[s] = "enabled" \/ pc'[s] = "init"
    BY <1>0, <1>2 DEF ButtonInv, Dismiss, ProcessEnds, Launch, Click, Goto
  <2> QED  BY <2>1, <2>2 DEF ButtonInv
<1>3. CASE Server \/ MessageLost \/ (\E a \in Accounts : AccountsChange(a))
           \/ UNCHANGED vars
  BY <1>3 DEF Server, ServerCreates, ServerInserts, MessageLost,
     AccountsChange, vars, ButtonInv
<1> QED  BY <1>1, <1>2, <1>3 DEF Next

\* The operator can send again whenever no send runs and no box is open, as
\* long as no CStringA copy runs out of memory.
THEOREM ButtonComesBack ==
  ASSUME {"settings", "account_name"} \cap Faults = {}
  PROVE  Spec => []ButtonUsable
<1>1. Init => ButtonInv  BY DEF Init, ButtonInv
<1>2. TypeInv /\ ButtonInv /\ [Next]_vars => ButtonInv'  BY ButtonStep
<1>3. ButtonInv => ButtonUsable  BY DEF ButtonInv, ButtonUsable
<1> QED  BY <1>1, <1>2, <1>3, TypeInvariant, PTL DEF Spec
-----------------------------------------------------------------------------
\* The branches of a send lead from each call to a later one, or end the send.
LEMMA SendStepMovesOn ==
  ASSUME TypeInv, NEW s \in Senders, SendStep(s),
         pc'[s] \in Running, pc'[s] # pc[s]
  PROVE  Stage[pc[s]] < Stage[pc'[s]]
<1>0. pc \in [Senders -> Steps]  BY DEF TypeInv, TypeOK
<1> USE DEF Goto, Running, ThrowingCalls, StmtCalls, Stage
<1>1. ~ConvertFails(s) /\ ~CallFails(s) /\ ~AccountMissing(s)
      /\ ~AccountCloseFails(s) /\ ~Succeed(s)
  BY <1>0 DEF ConvertFails, CallFails, AccountMissing, AccountCloseFails,
              Succeed, Throw
<1>2. CASE MysqlInit(s) \/ SetOptions(s)
  BY <1>0, <1>2 DEF MysqlInit, SetOptions
<1>3. CASE Connect(s)  BY <1>0, <1>3 DEF Connect
<1>4. CASE StmtInit(s) \/ StmtPrepare(s)
  BY <1>0, <1>4 DEF StmtInit, StmtPrepare
<1>5. CASE AccountExecute(s) \/ StoreResult(s) \/ AccountExists(s)
  BY <1>0, <1>5 DEF AccountExecute, StoreResult, AccountExists
<1>6. CASE TableSelect(s) \/ TableCreate(s)
  BY <1>0, <1>6 DEF TableSelect, TableCreate
<1>7. CASE InsertExecute(s) \/ Answered(s) \/ InsertClose(s)
  BY <1>0, <1>7 DEF InsertExecute, Answered, InsertClose
<1> QED  BY <1>1, <1>2, <1>3, <1>4, <1>5, <1>6, <1>7 DEF SendStep

\* A send makes at most twenty calls, none of them twice.
THEOREM NoCallTwice == Spec => SendsMoveOn
<1> DEFINE A == \A s \in Senders :
               pc[s] \in Running /\ pc'[s] \in Running /\ pc'[s] # pc[s] =>
                   Stage[pc[s]] < Stage[pc'[s]]
<1>1. TypeInv /\ [Next]_vars => [A]_vars
  <2> SUFFICES ASSUME TypeInv, Next, NEW s \in Senders,
                      pc[s] \in Running, pc'[s] \in Running, pc'[s] # pc[s]
               PROVE  Stage[pc[s]] < Stage[pc'[s]]
    OBVIOUS
  <2>0. pc \in [Senders -> Steps]  BY DEF TypeInv, TypeOK
  <2>1. ASSUME NEW t \in Senders, SendStep(t) PROVE t = s
    BY <2>0, <2>1 DEF SendStep, MysqlInit, SetOptions, Connect, ConvertFails,
       CallFails, StmtInit, StmtPrepare, AccountExecute, StoreResult,
       AccountExists, AccountMissing, AccountCloseFails, TableSelect,
       TableCreate, InsertExecute, Answered, InsertClose, Succeed, Throw, Goto
  <2>2. ASSUME NEW t \in Senders,
               Dismiss(t) \/ ProcessEnds(t) \/ Launch(t)
               \/ \E f \in Forms : Click(t, f)
        PROVE  FALSE
    BY <2>0, <2>2 DEF Dismiss, ProcessEnds, Launch, Click, Goto, Running,
                      ThrowingCalls, StmtCalls
  <2>3. CASE Server \/ MessageLost \/ \E a \in Accounts : AccountsChange(a)
    BY <2>3 DEF Server, ServerCreates, ServerInserts, MessageLost,
                AccountsChange
  <2> QED  BY <2>1, <2>2, <2>3, SendStepMovesOn DEF Next
<1> QED  BY <1>1, TypeInvariant, PTL DEF Spec, SendsMoveOn
-----------------------------------------------------------------------------
\* As long as mysql_optionsv succeeds, a running send has an open connection,
\* even where the statement of checkAccountExists is used after it was closed.
ConnInv ==
    \A s \in Senders :
        /\ "conn" \notin misuse[s]
        /\ pc[s] \in Running \ {"init"} => handle[s]["conn"] = "open"

\* A step of a send keeps it.
LEMMA ConnSendStep ==
  ASSUME TypeInv, ConnInv, "options" \notin Faults,
         NEW s \in Senders, SendStep(s)
  PROVE  ConnInv'
<1>0. /\ pc \in [Senders -> Steps]
      /\ handle \in [Senders -> [Handles -> {"null", "open", "freed"}]]
      /\ misuse \in [Senders -> SUBSET Handles]
      /\ "conn" \in Handles /\ "stmt" \in Handles
  BY DEF TypeInv, TypeOK, Handles
<1>1. \A t \in Senders : t # s =>
          pc'[t] = pc[t] /\ handle'[t] = handle[t] /\ misuse'[t] = misuse[t]
  BY <1>0 DEF SendStep, MysqlInit, SetOptions, Connect, ConvertFails, CallFails,
     StmtInit, StmtPrepare, AccountExecute, StoreResult, AccountExists,
     AccountMissing, AccountCloseFails, TableSelect, TableCreate, InsertExecute,
     Answered, InsertClose, Succeed, Throw, Goto, Open, Free, Uses
<1>2. SUFFICES ConnInv!(s)'
  BY <1>1 DEF ConnInv
<1>3. \/ pc[s] = "init" /\ UNCHANGED misuse
      \/ handle[s]["conn"] = "open"
      \/ pc[s] = "init" /\ CallFails(s)
  BY <1>0 DEF ConnInv, Running, ThrowingCalls, StmtCalls, SendStep, MysqlInit,
     SetOptions, Connect, ConvertFails, CallFails, StmtInit, StmtPrepare,
     AccountExecute, StoreResult, AccountExists, AccountMissing,
     AccountCloseFails, TableSelect, TableCreate, InsertExecute, Answered,
     InsertClose, Succeed, Goto
<1>4. "conn" \notin misuse'[s]
  <2>1. CASE pc[s] = "init" /\ CallFails(s)
    <3>1. Closes(pc[s]) = {}  BY <2>1 DEF Closes, StmtCalls
    <3> QED  BY <1>0, <2>1, <3>1 DEF CallFails, Uses, ConnInv
  <2>2. CASE handle[s]["conn"] = "open"
    BY <1>0, <2>2 DEF ConnInv, SendStep, MysqlInit,
       SetOptions, Connect, ConvertFails, CallFails, StmtInit, StmtPrepare,
       AccountExecute, StoreResult, AccountExists, AccountMissing,
       AccountCloseFails, TableSelect, TableCreate, InsertExecute, Answered,
       InsertClose, Succeed, Uses
  <2> QED  BY <1>3, <2>1, <2>2 DEF ConnInv
<1>5. pc'[s] \in Running \ {"init"} => handle'[s]["conn"] = "open"
  <2> USE DEF Goto, Running, ThrowingCalls, StmtCalls, ConnInv
  <2>1. CASE MysqlInit(s) \/ SetOptions(s) \/ Connect(s)
    BY <1>0, <2>1 DEF MysqlInit, SetOptions, Connect, Open
  <2>2. CASE \/ ConvertFails(s) \/ CallFails(s) \/ AccountMissing(s)
             \/ AccountCloseFails(s) \/ Succeed(s)
    BY <1>0, <2>2 DEF ConvertFails, CallFails, AccountMissing,
                      AccountCloseFails, Succeed, Throw
  <2>3. CASE StmtInit(s) \/ StmtPrepare(s)
    BY <1>0, <2>3 DEF StmtInit, StmtPrepare, Open
  <2>4. CASE AccountExecute(s) \/ StoreResult(s) \/ AccountExists(s)
    BY <1>0, <2>4 DEF AccountExecute, StoreResult, AccountExists, Free
  <2>5. CASE TableSelect(s) \/ TableCreate(s) \/ InsertExecute(s)
    BY <1>0, <2>5 DEF TableSelect, TableCreate, InsertExecute
  <2>6. CASE Answered(s) \/ InsertClose(s)
    BY <1>0, <2>6 DEF Answered, InsertClose, Free
  <2> QED  BY <2>1, <2>2, <2>3, <2>4, <2>5, <2>6 DEF SendStep
<1> QED  BY <1>4, <1>5

\* Every step keeps it.
LEMMA ConnStep ==
  ASSUME "options" \notin Faults
  PROVE  TypeInv /\ ConnInv /\ [Next]_vars => ConnInv'
<1> SUFFICES ASSUME TypeInv, ConnInv, [Next]_vars PROVE ConnInv'
  OBVIOUS
<1>0. /\ pc \in [Senders -> Steps]
      /\ handle \in [Senders -> [Handles -> {"null", "open", "freed"}]]
      /\ misuse \in [Senders -> SUBSET Handles]
  BY DEF TypeInv, TypeOK
<1> USE DEF ui, database, sent, history
<1>1. ASSUME NEW s \in Senders, SendStep(s) PROVE ConnInv'
  BY <1>1, ConnSendStep
<1>2. ASSUME NEW s \in Senders,
             Dismiss(s) \/ ProcessEnds(s) \/ Launch(s)
             \/ \E f \in Forms : Click(s, f)
      PROVE  ConnInv'
  <2>1. \A t \in Senders : t # s =>
            pc'[t] = pc[t] /\ handle'[t] = handle[t] /\ misuse'[t] = misuse[t]
    BY <1>0, <1>2 DEF Dismiss, ProcessEnds, Launch, Click, Goto
  <2>2. "conn" \notin misuse'[s] /\ pc'[s] \in {"idle", "closed", "init"}
    BY <1>0, <1>2 DEF ConnInv, Dismiss, ProcessEnds, Launch, Click, Goto
  <2> QED  BY <2>1, <2>2 DEF ConnInv, Running, ThrowingCalls, StmtCalls
<1>3. CASE Server \/ MessageLost \/ (\E a \in Accounts : AccountsChange(a))
           \/ UNCHANGED vars
  BY <1>3 DEF Server, ServerCreates, ServerInserts, MessageLost,
     AccountsChange, vars, ConnInv
<1> QED  BY <1>1, <1>2, <1>3 DEF Next

\* It holds in every reachable state.
LEMMA ConnInvariant ==
  ASSUME "options" \notin Faults
  PROVE  Spec => []ConnInv
<1>1. Init => ConnInv
  BY DEF Init, ConnInv, Running, ThrowingCalls, StmtCalls
<1> QED  BY <1>1, ConnStep, TypeInvariant, PTL DEF Spec

\* A connection is used after it was closed only if mysql_optionsv failed: of the
\* two calls that lead to a freed handle, this is the one that costs it.
THEOREM ConnectionStaysValid ==
  ASSUME "options" \notin Faults
  PROVE  Spec => [](\A s \in Senders : "conn" \notin misuse[s])
<1>1. ConnInv => \A s \in Senders : "conn" \notin misuse[s]  BY DEF ConnInv
<1> QED  BY <1>1, ConnInvariant, PTL
-----------------------------------------------------------------------------
\* The answer to a CREATE TABLE is an error only where the table is there, and a
\* send that was ended by it has left the table.
RaceInv ==
    /\ \A s \in Senders :
           pc[s] = "table_wait" /\ reply[s] = "error" => prizeTable
    /\ \A p \in reports : p.at = "table_wait" => prizeTable

\* Every step keeps it, where nothing but the lost race fails a CREATE TABLE.
LEMMA RaceStep ==
  ASSUME {"table_wait", "create_refused"} \cap Faults = {}
  PROVE  TypeInv /\ DeliveryInv /\ ResultInv /\ ConnInv /\ RaceInv /\ [Next]_vars
             => RaceInv'
<1> SUFFICES ASSUME TypeInv, DeliveryInv, ResultInv, ConnInv, RaceInv,
                    [Next]_vars
             PROVE  RaceInv'
  OBVIOUS
<1>0. /\ pc \in [Senders -> Steps] /\ prizeTable \in BOOLEAN
      /\ reply \in [Senders -> {"none", "ok", "error"}]
      /\ \A t \in Senders :
             reply[t] # "none" => pc[t] \in {"table_wait", "insert_wait"}
  BY DEF TypeInv, TypeOK, DeliveryInv, SendPhase
<1> USE DEF ui, database, sent, history, Goto
<1>1. ASSUME prizeTable' = prizeTable, reports' = reports,
             \A t \in Senders :
                 pc'[t] = "table_wait" /\ reply'[t] = "error" =>
                     pc[t] = "table_wait" /\ reply[t] = "error"
      PROVE  RaceInv'
  BY <1>1 DEF RaceInv
<1>2. ASSUME NEW s \in Senders, SendStep(s) PROVE RaceInv'
  <2>1. /\ prizeTable' = prizeTable
        /\ \A t \in Senders : t # s => pc'[t] = pc[t] /\ reply'[t] = reply[t]
        /\ pc'[s] = "table_wait" => pc[s] = "table_create" /\ reply' = reply
    BY <1>0, <1>2 DEF SendStep, MysqlInit, SetOptions, Connect, ConvertFails,
       CallFails, StmtInit, StmtPrepare, AccountExecute, StoreResult,
       AccountExists, AccountMissing, AccountCloseFails, TableSelect,
       TableCreate, InsertExecute, Answered, InsertClose, Succeed, Throw
  <2>2. CASE CallFails(s)
    <3>1. reports' = reports \cup {[by |-> Current(s), at |-> pc[s]]}
      BY <2>2 DEF CallFails, Throw, Tell
    <3>2. ASSUME pc[s] = "table_wait" PROVE prizeTable
      <4>1. handle[s]["conn"] = "open" /\ ~unread[s]
        BY <3>2 DEF ConnInv, ResultInv, Running, ThrowingCalls
      <4>2. reply[s] = "error"
        BY <2>2, <3>2, <4>1 DEF CallFails, MayFail
      <4> QED  BY <3>2, <4>2 DEF RaceInv
    <3> QED  BY <1>0, <2>1, <3>1, <3>2 DEF RaceInv
  <2>3. CASE AccountMissing(s) \/ AccountCloseFails(s) \/ Succeed(s)
    <3>1. \E at \in {"account_missing", "account_close", "done"} :
              reports' = reports \cup {[by |-> Current(s), at |-> at]}
      BY <2>3 DEF AccountMissing, AccountCloseFails, Succeed, Throw, Tell
    <3> QED  BY <1>0, <2>1, <3>1 DEF RaceInv
  <2>4. CASE \/ MysqlInit(s) \/ SetOptions(s) \/ Connect(s) \/ ConvertFails(s)
             \/ StmtInit(s) \/ StmtPrepare(s) \/ AccountExecute(s)
             \/ StoreResult(s) \/ AccountExists(s) \/ TableSelect(s)
             \/ TableCreate(s) \/ InsertExecute(s) \/ Answered(s)
             \/ InsertClose(s)
    <3>1. reports' = reports
      BY <2>4 DEF MysqlInit, SetOptions, Connect, ConvertFails, StmtInit,
         StmtPrepare, AccountExecute, StoreResult, AccountExists, TableSelect,
         TableCreate, InsertExecute, Answered, InsertClose
    <3> QED  BY <1>0, <1>1, <2>1, <3>1
  <2> QED  BY <1>2, <2>2, <2>3, <2>4 DEF SendStep
<1>3. ASSUME NEW s \in Senders,
             Dismiss(s) \/ ProcessEnds(s) \/ Launch(s)
             \/ \E f \in Forms : Click(s, f)
      PROVE  RaceInv'
  BY <1>0, <1>1, <1>3 DEF Dismiss, ProcessEnds, Launch, Click
<1>4. ASSUME NEW i \in createSent, ServerCreates(i) PROVE RaceInv'
  <2>1. UNCHANGED <<pc, reports>> /\ prizeTable'
    BY <1>0, <1>4 DEF ServerCreates
  <2> QED  BY <2>1 DEF RaceInv
<1>5. ASSUME NEW m \in insertSent, ServerInserts(m) PROVE RaceInv'
  <2>1. /\ UNCHANGED <<pc, reports, prizeTable>>
        /\ \A t \in Senders : reply'[t] # reply[t] => pc[t] = "insert_wait"
    BY <1>0, <1>5 DEF ServerInserts, Answer, Waits
  <2> QED  BY <1>1, <2>1
<1>6. CASE MessageLost \/ (\E a \in Accounts : AccountsChange(a))
           \/ UNCHANGED vars
  <2>1. UNCHANGED <<pc, reports, prizeTable>>
    BY <1>6 DEF MessageLost, AccountsChange, vars
  <2>2. \A t \in Senders : reply'[t] = "error" => reply[t] = "error"
    BY <1>0, <1>6 DEF MessageLost, AccountsChange, vars
  <2> QED  BY <1>1, <2>1, <2>2
<1> QED  BY <1>2, <1>3, <1>4, <1>5, <1>6 DEF Next, Server

\* The send that TableCheckPasses does not cover, the one that lost the race for
\* the creation of account_prize, leaves the table behind: clicking again helps.
THEOREM LostRaceLeavesTable ==
  ASSUME {"table_wait", "create_refused", "options"} \cap Faults = {}
  PROVE  Spec => [](TableCheckPasses \/ prizeTable)
<1>1. Init => RaceInv  BY DEF Init, RaceInv
<1>2. RaceInv => TableCheckPasses \/ prizeTable
  BY DEF RaceInv, TableCheckPasses
<1>3. ChecksInv => ResultInv  BY DEF ChecksInv
<1>4. TypeInv /\ DeliveryInv /\ ResultInv /\ ConnInv /\ RaceInv /\ [Next]_vars
          => RaceInv'
  BY RaceStep
<1>5. Spec => []ConnInv  BY ConnInvariant
<1> QED
  BY <1>1, <1>2, <1>3, <1>4, <1>5, TypeInvariant, DeliveryInvariant,
     ChecksInvariant, PTL DEF Spec

\* Where the table is settled, no step ends a send for it or unsettles it.
LEMMA SettledStep ==
  TypeInv /\ TableSettled /\ [Next]_vars
      => TableSettled' /\ NoTableFailure
<1> SUFFICES ASSUME TypeInv, TableSettled, [Next]_vars
             PROVE  TableSettled' /\ NoTableFailure
  OBVIOUS
<1>0. pc \in [Senders -> Steps]  BY DEF TypeInv, TypeOK
<1> USE DEF ui, database, sent, history, Goto
<1>1. ASSUME NEW s \in Senders, SendStep(s)
      PROVE  TableSettled' /\ NoTableFailure
  <2>1. /\ prizeTable' = prizeTable
        /\ \A t \in Senders : t # s => pc'[t] = pc[t]
        /\ pc'[s] \notin {"table_create", "table_wait"}
    BY <1>0, <1>1 DEF TableSettled, SendStep, MysqlInit, SetOptions, Connect,
       ConvertFails, CallFails, StmtInit, StmtPrepare, AccountExecute,
       StoreResult, AccountExists, AccountMissing, AccountCloseFails,
       TableSelect, TableCreate, InsertExecute, Answered, InsertClose, Succeed,
       Throw
  <2>2. \/ reports' = reports
        \/ \E at : /\ at \notin {"table_create", "table_wait"}
                   /\ reports' = reports \cup {[by |-> Current(s), at |-> at]}
    BY <1>1 DEF TableSettled, SendStep, MysqlInit, SetOptions, Connect,
       ConvertFails, CallFails, StmtInit, StmtPrepare, AccountExecute,
       StoreResult, AccountExists, AccountMissing, AccountCloseFails,
       TableSelect, TableCreate, InsertExecute, Answered, InsertClose, Succeed,
       Throw, Tell
  <2> QED  BY <2>1, <2>2 DEF TableSettled, NoTableFailure
<1>2. ASSUME NEW s \in Senders,
             Dismiss(s) \/ ProcessEnds(s) \/ Launch(s)
             \/ \E f \in Forms : Click(s, f)
      PROVE  TableSettled' /\ NoTableFailure
  BY <1>0, <1>2 DEF TableSettled, NoTableFailure, Dismiss, ProcessEnds, Launch,
                    Click
<1>3. CASE Server
  BY <1>3 DEF Server, ServerCreates, ServerInserts, TableSettled, NoTableFailure
<1>4. CASE MessageLost \/ (\E a \in Accounts : AccountsChange(a))
           \/ UNCHANGED vars
  BY <1>4 DEF MessageLost, AccountsChange, vars, TableSettled, NoTableFailure
<1> QED  BY <1>1, <1>2, <1>3, <1>4 DEF Next

\* Once account_prize is there and no copy is about to create it, no send ends
\* because of the table ever again, whatever fails: the race that violates
\* TableCheckPasses is one of the first sends only.
THEOREM TableFailsFirst == Spec => TableFailsAtFirst
<1> DEFINE A == TableSettled => TableSettled' /\ NoTableFailure
<1>1. TypeInv /\ [Next]_vars => [A]_vars  BY SettledStep
<1> QED  BY <1>1, TypeInvariant, PTL DEF Spec, TableFailsAtFirst
=============================================================================
