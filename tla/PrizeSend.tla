------------------------------ MODULE PrizeSend ------------------------------
(***************************************************************************)
(* Sending a prize: CTlPrizeSenderDlg::OnSendBnClicked and what it calls   *)
(* in dbAction.cpp, for running copies of the tool that share a database.  *)
(* A step of a copy is one call of the client library with the code up to  *)
(* the next call; everything between two calls may interleave with other   *)
(* copies.  CREATE TABLE and INSERT are sent in one step, executed by the  *)
(* server in a second and answered in a third: the connection may break in *)
(* between.  The handler is synchronous, so a copy runs one send at a time *)
(* and ends it with a modal message box.                                   *)
(***************************************************************************)
EXTENDS Naturals, Sequences

CONSTANTS
    Senders,    \* running copies of TlPrizeSender.exe
    Accounts,   \* account names, as the bytes of column account.name
    Usernames,  \* user names, as typed into the Unicode edit control
    Ansi,       \* what CStringA(username) makes of a user name
    Prizes,     \* values of world, charguid, item and count
    Faults,     \* the calls that may fail in this run, and "crash"
    MaxClicks   \* bound: how often the button of one copy is clicked

ASSUME SendAssumption == Ansi \in [Usernames -> Accounts] /\ MaxClicks \in Nat

(***************************************************************************)
(* The calls whose failure throws std::runtime_error; that of StmtCalls    *)
(* closes the statement too.  The two _prepare stand for the statement's   *)
(* mysql_stmt_prepare and mysql_stmt_bind_param, which fail alike, and the *)
(* two _wait for a CREATE TABLE or INSERT blocked on the server's answer.  *)
(***************************************************************************)
StmtCalls == {"account_prepare", "account_execute", "account_store",
              "insert_prepare", "insert_execute", "insert_wait"}

ThrowingCalls ==
    StmtCalls \cup {"init", "connect", "account_init", "table_select",
                    "table_create", "table_wait", "table_store", "insert_init"}

\* Mutant: the branches that close the statement forget the connection.
ClosesOnlyOne(c) == IF c \in StmtCalls THEN {"stmt"}
                    ELSE IF c = "init" THEN {} ELSE {"conn"}

\* The handles that the failure branch of call c closes before it throws.
Closes(c) == (IF c \in StmtCalls THEN {"stmt"} ELSE {})
                 \cup (IF c = "init" THEN {} ELSE {"conn"})

\* The points of a send.  "settings" and "account_name" are CStringA copies.
Running == ThrowingCalls \cup {"options", "settings", "account_name",
                               "account_close", "insert_close", "close"}

\* The message loop, the two message boxes, and a copy that is not running.
Steps == Running \cup {"idle", "succeeded", "failed", "closed"}

\* What ended a send with a box: a call, a missing account, or its success.
Ends == Running \cup {"account_missing", "done"}

Handles == {"conn", "stmt"}
Forms == [username : Usernames, prize : Prizes]
Orders == [account : Accounts, prize : Prizes]   \* what a row grants to whom
Ids == Senders \X (1..MaxClicks)                \* the n-th click of a copy
Inserts == [by : Ids, order : Orders]

VARIABLES
    \* each copy of the tool
    pc,          \* the call it is in
    clicks,      \* the sends it started
    form,        \* m_username .. m_count, from which m_prizeConfig is copied
    button,      \* m_sendButton
    handle,      \* its MYSQL and MYSQL_STMT
    misuse,      \* history: handles given to the library after being freed
    found,       \* num_rows # 0 in checkAccountExists
    unread,      \* the connection holds a result nobody has fetched
    reply,       \* the answer to its CREATE TABLE or INSERT
    \* the database
    accounts,    \* table account
    known,       \* history: accounts ever registered
    prizeTable,  \* whether table account_prize exists
    rows,        \* its rows, in AUTO_INCREMENT order; field by is history
    createSent,  \* CREATE TABLE statements yet to be executed, by sender
    insertSent,  \* INSERT statements yet to be executed
    \* history of the dialog between operators and tool
    asked,       \* the sends asked for
    reports      \* the message boxes that ended one

ui       == <<clicks, form, button>>
database == <<accounts, known, prizeTable, rows>>
sent     == <<createSent, insertSent>>
history  == <<asked, reports>>
vars     == <<pc, ui, handle, misuse, found, unread, reply, database, sent,
              history>>

Init ==
    /\ pc = [s \in Senders |-> "idle"]
    /\ clicks = [s \in Senders |-> 0]
    /\ \E f \in Forms : form = [s \in Senders |-> f]   \* the same config.ini
    /\ button = [s \in Senders |-> "enabled"]
    /\ handle = [s \in Senders |-> [h \in Handles |-> "null"]]
    /\ misuse = [s \in Senders |-> {}]
    /\ found = [s \in Senders |-> FALSE]
    /\ unread = [s \in Senders |-> FALSE]
    /\ reply = [s \in Senders |-> "none"]
    /\ accounts \in SUBSET Accounts /\ known = accounts
    /\ prizeTable \in BOOLEAN /\ rows = << >>
    /\ createSent = {} /\ insertSent = {}
    /\ asked = {} /\ reports = {}
-----------------------------------------------------------------------------
Current(s) == <<s, clicks[s]>>

Goto(s, c, d) == pc[s] = c /\ pc' = [pc EXCEPT ![s] = d]

Open(s, h) == handle' = [handle EXCEPT ![s][h] = "open"]

Free(s, H) == handle' = [handle EXCEPT
    ![s] = [h \in Handles |-> IF h \in H THEN "freed" ELSE @[h]]]

\* The library is given the handles H.
Uses(s, H) ==
    misuse' = [misuse EXCEPT ![s] = @ \cup {h \in H : handle[s][h] = "freed"}]

\* The library refuses a command while a result is unread.
InSync(s) == ~unread[s]

\* Besides a fault of this run: a call that is out of sync, was answered with
\* an error or misses account_prize fails; one on freed memory may.
MayFail(s, c) == \/ c \in Faults
                 \/ unread[s] \/ reply[s] = "error"
                 \/ handle[s]["conn"] = "freed"
                 \/ c = "insert_prepare" /\ ~prizeTable

\* Mutant: the row gets the user name as it was typed.
OrderUnconverted(f) == [account |-> f.username, prize |-> f.prize]

\* The row that processSendPrize inserts for the form f.
Order(f) == [account |-> Ansi[f.username], prize |-> f.prize]

\* The message box that ends a send.
Tell(s, at) == /\ reports' = reports \cup {[by |-> Current(s), at |-> at]}
               /\ UNCHANGED asked

\* std::runtime_error, up to the box in the catch block of OnSendBnClicked.
Throw(s, at) == pc' = [pc EXCEPT ![s] = "failed"] /\ Tell(s, at)

\* Mutant: the form of the previous click is sent.
ClickStaleForm(s, f) ==
    /\ Goto(s, "idle", "init")
    /\ button[s] = "enabled" /\ clicks[s] < MaxClicks
    /\ clicks' = [clicks EXCEPT ![s] = @ + 1]
    /\ button' = [button EXCEPT ![s] = "disabled"]
    /\ handle' = [handle EXCEPT ![s] = [h \in Handles |-> "null"]]
    /\ asked' = asked \cup {[by |-> <<s, clicks[s] + 1>>, order |-> Order(f)]}
    /\ UNCHANGED <<form, misuse, found, unread, reply, database, sent, reports>>

(***************************************************************************)
(* OnSendBnClicked, once the dialog has validated the form f.              *)
(***************************************************************************)
Click(s, f) ==
    /\ Goto(s, "idle", "init")
    /\ button[s] = "enabled" /\ clicks[s] < MaxClicks
    /\ clicks' = [clicks EXCEPT ![s] = @ + 1]
    /\ form' = [form EXCEPT ![s] = f]
    /\ button' = [button EXCEPT ![s] = "disabled"]
    /\ handle' = [handle EXCEPT ![s] = [h \in Handles |-> "null"]]
    /\ asked' = asked \cup {[by |-> <<s, clicks[s] + 1>>, order |-> Order(f)]}
    /\ UNCHANGED <<misuse, found, unread, reply, database, sent, reports>>

MysqlInit(s) ==
    /\ Goto(s, "init", "options")
    /\ Open(s, "conn")
    /\ UNCHANGED <<ui, misuse, found, unread, reply, database, sent, history>>

\* When mysql_optionsv fails, the code closes the connection and goes on.
SetOptions(s) ==
    /\ Goto(s, "options", "settings")
    /\ \/ UNCHANGED handle
       \/ "options" \in Faults /\ Free(s, {"conn"})
    /\ UNCHANGED <<ui, misuse, found, unread, reply, database, sent, history>>

Connect(s) ==
    /\ \/ Goto(s, "settings", "connect") /\ UNCHANGED misuse
       \/ Goto(s, "connect", "account_name") /\ Uses(s, {"conn"})
       \/ Goto(s, "account_name", "account_init") /\ UNCHANGED misuse
    /\ UNCHANGED <<ui, handle, found, unread, reply, database, sent, history>>

\* A CStringA copy throws CMemoryException, which OnSendBnClicked does not
\* catch: the framework resumes the message loop.
ConvertFails(s) ==
    /\ pc[s] \in {"settings", "account_name"} \cap Faults
    /\ pc' = [pc EXCEPT ![s] = "idle"]
    /\ UNCHANGED <<ui, handle, misuse, found, unread, reply, database, sent,
                   history>>

\* Mutant: an INSERT that got no answer is sent again.
CallFailsResends(s) ==
    /\ pc[s] \in ThrowingCalls /\ MayFail(s, pc[s])
    /\ IF pc[s] = "insert_wait"
       THEN pc' = [pc EXCEPT ![s] = "insert_execute"]
            /\ UNCHANGED <<handle, misuse, history>>
       ELSE Uses(s, Closes(pc[s])) /\ Free(s, Closes(pc[s])) /\ Throw(s, pc[s])
    /\ unread' = [unread EXCEPT ![s] = FALSE]
    /\ reply' = [reply EXCEPT ![s] = "none"]
    /\ UNCHANGED <<ui, found, database, sent>>

\* The failure branch of the calls that throw.
CallFails(s) ==
    /\ pc[s] \in ThrowingCalls /\ MayFail(s, pc[s])
    /\ Uses(s, Closes(pc[s])) /\ Free(s, Closes(pc[s]))
    /\ Throw(s, pc[s])
    /\ unread' = [unread EXCEPT ![s] = FALSE]
    /\ reply' = [reply EXCEPT ![s] = "none"]
    /\ UNCHANGED <<ui, found, database, sent>>

StmtInit(s) ==
    /\ \/ Goto(s, "account_init", "account_prepare")
       \/ Goto(s, "insert_init", "insert_prepare")
    /\ Uses(s, {"conn"}) /\ Open(s, "stmt")
    /\ UNCHANGED <<ui, found, unread, reply, database, sent, history>>

StmtPrepare(s) ==
    /\ \/ Goto(s, "account_prepare", "account_execute")
       \/ Goto(s, "insert_prepare", "insert_execute") /\ prizeTable
    /\ InSync(s) /\ Uses(s, Handles)
    /\ UNCHANGED <<ui, handle, found, unread, reply, database, sent, history>>

\* SELECT 1 FROM account WHERE name = ? LIMIT 1
AccountExecute(s) ==
    /\ Goto(s, "account_execute", "account_store")
    /\ InSync(s) /\ Uses(s, Handles)
    /\ found' = [found EXCEPT ![s] = Order(form[s]).account \in accounts]
    /\ unread' = [unread EXCEPT ![s] = TRUE]
    /\ UNCHANGED <<ui, handle, reply, database, sent, history>>

\* Mutant: the result of SELECT EXISTS is not fetched.
StoreResultSkipsTable(s) ==
    /\ \/ Goto(s, "account_store", "account_close") /\ Uses(s, Handles)
          /\ unread' = [unread EXCEPT ![s] = FALSE]
       \/ Goto(s, "table_store", "insert_init") /\ Uses(s, {"conn"})
          /\ UNCHANGED unread
    /\ UNCHANGED <<ui, handle, found, reply, database, sent, history>>

StoreResult(s) ==
    /\ \/ Goto(s, "account_store", "account_close") /\ Uses(s, Handles)
       \/ Goto(s, "table_store", "insert_init") /\ Uses(s, {"conn"})
    /\ unread' = [unread EXCEPT ![s] = FALSE]
    /\ UNCHANGED <<ui, handle, found, reply, database, sent, history>>

\* Mutant: num_rows is not looked at.
AccountExistsUnchecked(s) ==
    /\ Goto(s, "account_close", "table_select")
    /\ Uses(s, Handles) /\ Free(s, {"stmt"})
    /\ UNCHANGED <<ui, found, unread, reply, database, sent, history>>

AccountExists(s) ==
    /\ found[s]
    /\ Goto(s, "account_close", "table_select")
    /\ Uses(s, Handles) /\ Free(s, {"stmt"})
    /\ UNCHANGED <<ui, found, unread, reply, database, sent, history>>

AccountMissing(s) ==
    /\ pc[s] = "account_close" /\ ~found[s]
    /\ Uses(s, Handles) /\ Free(s, Handles)
    /\ Throw(s, "account_missing")
    /\ UNCHANGED <<ui, found, unread, reply, database, sent>>

\* mysql_stmt_close frees the statement whatever it returns; when it returns
\* an error, the code asks the statement for the message.
AccountCloseFails(s) ==
    /\ pc[s] = "account_close" /\ MayFail(s, "account_close")
    /\ misuse' = [misuse EXCEPT
           ![s] = @ \cup {"stmt"} \cup {h \in Handles : handle[s][h] = "freed"}]
    /\ Free(s, Handles)
    /\ Throw(s, "account_close")
    /\ UNCHANGED <<ui, found, unread, reply, database, sent>>

\* Mutant: ER_NO_SUCH_TABLE is taken for an existing, empty table.
TableSelectNoCreate(s) ==
    /\ \/ /\ prizeTable
          /\ Goto(s, "table_select", "table_store")
          /\ unread' = [unread EXCEPT ![s] = TRUE]
       \/ /\ ~prizeTable
          /\ Goto(s, "table_select", "insert_init")
          /\ UNCHANGED unread
    /\ InSync(s) /\ Uses(s, {"conn"})
    /\ UNCHANGED <<ui, handle, found, reply, database, sent, history>>

\* Mutant: the table is created whatever the SELECT returns.
TableSelectCreates(s) ==
    /\ Goto(s, "table_select", "table_create")
    /\ InSync(s) /\ Uses(s, {"conn"})
    /\ UNCHANGED <<ui, handle, found, unread, reply, database, sent, history>>

\* SELECT EXISTS(SELECT 1 FROM account_prize): a result, or ER_NO_SUCH_TABLE.
TableSelect(s) ==
    /\ \/ /\ prizeTable
          /\ Goto(s, "table_select", "table_store")
          /\ unread' = [unread EXCEPT ![s] = TRUE]
       \/ /\ ~prizeTable
          /\ Goto(s, "table_select", "table_create")
          /\ UNCHANGED unread
    /\ InSync(s) /\ Uses(s, {"conn"})
    /\ UNCHANGED <<ui, handle, found, reply, database, sent, history>>

TableCreate(s) ==
    /\ Goto(s, "table_create", "table_wait")
    /\ InSync(s) /\ Uses(s, {"conn"})
    /\ createSent' = createSent \cup {Current(s)}
    /\ UNCHANGED <<ui, handle, found, unread, reply, database, insertSent,
                   history>>

InsertExecute(s) ==
    /\ Goto(s, "insert_execute", "insert_wait")
    /\ InSync(s) /\ Uses(s, Handles)
    /\ insertSent' = insertSent \cup
                         {[by |-> Current(s), order |-> Order(form[s])]}
    /\ UNCHANGED <<ui, handle, found, unread, reply, database, createSent,
                   history>>

\* Mutant: what mysql_stmt_execute returns is not looked at.
AnsweredUnchecked(s) ==
    /\ \/ Goto(s, "table_wait", "insert_init")
       \/ Goto(s, "insert_wait", "insert_close")
    /\ reply[s] # "none"
    /\ reply' = [reply EXCEPT ![s] = "none"]
    /\ UNCHANGED <<ui, handle, misuse, found, unread, database, sent, history>>

Answered(s) ==
    /\ \/ Goto(s, "table_wait", "insert_init")
       \/ Goto(s, "insert_wait", "insert_close")
    /\ reply[s] = "ok"
    /\ reply' = [reply EXCEPT ![s] = "none"]
    /\ UNCHANGED <<ui, handle, misuse, found, unread, database, sent, history>>

\* Mutant: insertPrize throws when mysql_stmt_close fails after the INSERT, as
\* the lines it has in a comment would.
InsertCloseThrows(s) ==
    /\ pc[s] = "insert_close" /\ Uses(s, Handles)
    /\ \/ Free(s, {"stmt"}) /\ pc' = [pc EXCEPT ![s] = "close"]
          /\ UNCHANGED history
       \/ Free(s, Handles) /\ Throw(s, "insert_close")
    /\ UNCHANGED <<ui, found, unread, reply, database, sent>>

\* Mutant: insertPrize closes the connection that processSendPrize closes.
InsertCloseBoth(s) ==
    /\ Goto(s, "insert_close", "close")
    /\ Uses(s, Handles) /\ Free(s, Handles)
    /\ UNCHANGED <<ui, found, unread, reply, database, sent, history>>

\* insertPrize ignores what mysql_stmt_close returns.
InsertClose(s) ==
    /\ Goto(s, "insert_close", "close")
    /\ Uses(s, Handles) /\ Free(s, {"stmt"})
    /\ UNCHANGED <<ui, found, unread, reply, database, sent, history>>

\* mysql_close, and the end of OnSendBnClicked with its success box.
Succeed(s) ==
    /\ Goto(s, "close", "succeeded")
    /\ Uses(s, {"conn"}) /\ Free(s, {"conn"})
    /\ button' = [button EXCEPT ![s] = "enabled"]
    /\ Tell(s, "done")
    /\ UNCHANGED <<clicks, form, found, unread, reply, database, sent>>

\* Mutant: the button is enabled after a success only.
DismissDisabled(s) ==
    /\ Goto(s, "failed", "idle") \/ Goto(s, "succeeded", "idle")
    /\ UNCHANGED <<ui, handle, misuse, found, unread, reply, database, sent,
                   history>>

\* The operator closes the box; after a failure only now the button is enabled.
Dismiss(s) ==
    /\ Goto(s, "failed", "idle") \/ Goto(s, "succeeded", "idle")
    /\ button' = [button EXCEPT ![s] = "enabled"]
    /\ UNCHANGED <<clicks, form, handle, misuse, found, unread, reply,
                   database, sent, history>>
-----------------------------------------------------------------------------
(***************************************************************************)
(* A copy ends in the message loop, when it is killed, or when it crashes  *)
(* after it used freed memory; the statements it sent live on.             *)
(***************************************************************************)
ProcessEnds(s) ==
    /\ \/ pc[s] = "idle"
       \/ pc[s] # "closed" /\ ("crash" \in Faults \/ misuse[s] # {})
    /\ pc' = [pc EXCEPT ![s] = "closed"]
    /\ button' = [button EXCEPT ![s] = "enabled"]
    /\ handle' = [handle EXCEPT ![s] = [h \in Handles |-> "null"]]
    /\ misuse' = [misuse EXCEPT ![s] = {}]
    /\ found' = [found EXCEPT ![s] = FALSE]
    /\ unread' = [unread EXCEPT ![s] = FALSE]
    /\ reply' = [reply EXCEPT ![s] = "none"]
    /\ UNCHANGED <<clicks, form, database, sent, history>>

\* The form is filled from config.ini, whatever that holds by then.
Launch(s) ==
    /\ Goto(s, "closed", "idle")
    /\ \E f \in Forms : form' = [form EXCEPT ![s] = f]
    /\ UNCHANGED <<clicks, button, handle, misuse, found, unread, reply,
                   database, sent, history>>

(***************************************************************************)
(* The MySQL server (external) executes a statement at most once, in any   *)
(* order, and answers a copy that still waits for it.  A statement whose   *)
(* connection is gone may be executed late.                                *)
(***************************************************************************)
Waits(i, c) == pc[i[1]] = c /\ clicks[i[1]] = i[2]

Answer(i, c, r) ==
    reply' = IF Waits(i, c) THEN [reply EXCEPT ![i[1]] = r] ELSE reply

ServerCreates(i) ==
    /\ createSent' = createSent \ {i}
    /\ \/ /\ ~prizeTable /\ prizeTable' = TRUE
          /\ Answer(i, "table_wait", "ok")
       \/ /\ prizeTable \/ "create_refused" \in Faults
          /\ UNCHANGED prizeTable
          /\ Answer(i, "table_wait", "error")
    /\ UNCHANGED <<pc, ui, handle, misuse, found, unread, accounts, known, rows,
                   insertSent, history>>

ServerInserts(m) ==
    /\ insertSent' = insertSent \ {m}
    /\ \/ /\ prizeTable /\ rows' = Append(rows, m)
          /\ Answer(m.by, "insert_wait", "ok")
       \/ /\ ~prizeTable \/ "insert_refused" \in Faults
          /\ UNCHANGED rows
          /\ Answer(m.by, "insert_wait", "error")
    /\ UNCHANGED <<pc, ui, handle, misuse, found, unread, accounts, known,
                   prizeTable, createSent, history>>

(***************************************************************************)
(* A statement or its answer is lost, whether or not the copy still waits. *)
(* dbAction.cpp sets no timeout: when the library does not see the break   *)
(* (its error is a fault of table_wait or insert_wait) it waits for ever.  *)
(***************************************************************************)
MessageLost ==
    /\ \/ \E i \in createSent : createSent' = createSent \ {i}
          /\ UNCHANGED <<insertSent, reply>>
       \/ \E m \in insertSent : insertSent' = insertSent \ {m}
          /\ UNCHANGED <<createSent, reply>>
       \/ \E s \in Senders : reply[s] # "none"
          /\ reply' = [reply EXCEPT ![s] = "none"] /\ UNCHANGED sent
    /\ UNCHANGED <<pc, ui, handle, misuse, found, unread, database, history>>

\* Other programs register and remove accounts (external).
AccountsChange(a) ==
    /\ \/ a \notin accounts /\ accounts' = accounts \cup {a}
       \/ a \in accounts /\ accounts' = accounts \ {a}
    /\ known' = known \cup accounts'
    /\ UNCHANGED <<pc, ui, handle, misuse, found, unread, reply, prizeTable,
                   rows, sent, history>>
-----------------------------------------------------------------------------
SendStep(s) ==
    \/ MysqlInit(s) \/ SetOptions(s) \/ Connect(s) \/ ConvertFails(s)
    \/ CallFails(s) \/ StmtInit(s) \/ StmtPrepare(s) \/ AccountExecute(s)
    \/ StoreResult(s) \/ AccountExists(s) \/ AccountMissing(s)
    \/ AccountCloseFails(s) \/ TableSelect(s) \/ TableCreate(s)
    \/ InsertExecute(s) \/ Answered(s) \/ InsertClose(s) \/ Succeed(s)

Server == \/ \E i \in createSent : ServerCreates(i)
          \/ \E m \in insertSent : ServerInserts(m)

Next ==
    \/ \E s \in Senders : \/ SendStep(s) \/ Dismiss(s) \/ ProcessEnds(s)
                          \/ Launch(s) \/ \E f \in Forms : Click(s, f)
    \/ Server \/ MessageLost
    \/ \E a \in Accounts : AccountsChange(a)

Spec == Init /\ [][Next]_vars

(***************************************************************************)
(* The UI thread runs a send on, and the server executes and answers what  *)
(* reaches it.  Nobody has to click, to close a message box or to register *)
(* an account, and nothing has to be lost.                                 *)
(***************************************************************************)
FairSpec == /\ Spec /\ WF_vars(Server)
            /\ \A s \in Senders : WF_vars(SendStep(s))
=============================================================================
