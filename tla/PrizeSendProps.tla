--------------------------- MODULE PrizeSendProps ---------------------------
(***************************************************************************)
(* What sending prizes must satisfy: the type invariant, safety and        *)
(* liveness properties of PrizeSend, and that it implements PrizeDelivery. *)
(***************************************************************************)
EXTENDS PrizeSend

\* Every variable keeps its type.
TypeOK ==
    /\ pc \in [Senders -> Steps]
    /\ clicks \in [Senders -> 0..MaxClicks]
    /\ form \in [Senders -> Forms]
    /\ button \in [Senders -> {"enabled", "disabled"}]
    /\ handle \in [Senders -> [Handles -> {"null", "open", "freed"}]]
    /\ misuse \in [Senders -> SUBSET Handles]
    /\ found \in [Senders -> BOOLEAN]
    /\ unread \in [Senders -> BOOLEAN]
    /\ reply \in [Senders -> {"none", "ok", "error"}]
    /\ accounts \in SUBSET Accounts
    /\ known \in SUBSET Accounts
    /\ prizeTable \in BOOLEAN
    /\ rows \in Seq(Inserts)
    /\ createSent \in SUBSET Ids
    /\ insertSent \in SUBSET Inserts
    /\ asked \in SUBSET Inserts
    /\ reports \in SUBSET [by : Ids, at : Ends]

\* A row grants what the click that caused it asked for: the prize of its form
\* to the account that its user name converts to, even when that send was killed
\* or reported as failed, and whatever was clicked since.
DeliveredAsAsked == \A k \in DOMAIN rows : rows[k] \in asked

\* One click delivers at most one row, whatever is lost, clicked again by the
\* operator or executed late by the server after the connection broke.
DeliveredAtMostOnce ==
    \A j, k \in DOMAIN rows : rows[j].by = rows[k].by => j = k

\* A send reported as successful ("done") has put its row into account_prize
\* before OnSendBnClicked shows the success box.
SuccessMeansDelivered ==
    \A p \in reports : p.at = "done" => \E k \in DOMAIN rows : rows[k].by = p.by

\* The failures that the box tells as "mysql_stmt_execute() failed": the second
\* is the one where the INSERT has been sent.
InDoubt == {"insert_execute", "insert_wait"}

\* A send reported as failed has delivered nothing and never will, so clicking
\* again is safe, unless the box names the execution of the INSERT
\* ("mysql_stmt_execute() failed"): then the row may be there or still come.
FailureMeansNothing ==
    \A p \in reports : p.at \notin InDoubt \cup {"done"} =>
        /\ \A k \in DOMAIN rows : rows[k].by # p.by
        /\ \A m \in insertSent : m.by # p.by

-----------------------------------------------------------------------------
HasRow(i) == \E k \in DOMAIN rows : rows[k].by = i
InFlight(i) == \E m \in insertSent : m.by = i
Told(i) == \E p \in reports : p.by = i

BeforeInsert == Running \ {"insert_wait", "insert_close", "close"}

\* What is sent to the server or told to the operator belongs to a click made,
\* and a running send has its order among those asked for.
OrdersAsked ==
    /\ \A a \in asked : a.by[2] <= clicks[a.by[1]]
    /\ \A p \in reports : p.by[2] <= clicks[p.by[1]]
    /\ insertSent \subseteq asked /\ DeliveredAsAsked
    /\ \A s \in Senders : pc[s] \in Running =>
           [by |-> Current(s), order |-> Order(form[s])] \in asked

\* At most one INSERT is under way for a click, and none once it has its row.
OneInsert ==
    /\ \A m, n \in insertSent : m.by = n.by => m = n
    /\ \A m \in insertSent : ~HasRow(m.by)
    /\ DeliveredAtMostOnce

\* How far a running send is, seen from the server and from the operator.
SendPhase ==
    \A s \in Senders :
        /\ pc[s] \in Running => ~Told(Current(s))
        /\ pc[s] \in BeforeInsert =>
               ~HasRow(Current(s)) /\ ~InFlight(Current(s))
        /\ pc[s] = "insert_wait" /\ reply[s] = "ok" => HasRow(Current(s))
        /\ pc[s] \in {"insert_close", "close"} => HasRow(Current(s))
        /\ reply[s] # "none" => pc[s] \in {"table_wait", "insert_wait"}

\* The inductive invariant behind the promises of a send: at every point of it,
\* whether its order may still arrive or has arrived is what the point says.
DeliveryInv == /\ OrdersAsked /\ OneInsert /\ SendPhase
               /\ SuccessMeansDelivered /\ FailureMeansNothing
-----------------------------------------------------------------------------
\* A row is for an account that is, or once was, registered: checkAccountExists
\* guards insertPrize, though no transaction spans the two.
OnlyRegisteredAccounts == \A k \in DOMAIN rows : rows[k].order.account \in known

\* When checkPrizeTable has returned, account_prize exists, whichever copy
\* created it: insertPrize never meets ER_NO_SUCH_TABLE.
TableReady ==
    \A s \in Senders :
        pc[s] \in {"table_store", "insert_init", "insert_prepare",
                   "insert_execute", "insert_wait", "insert_close", "close"}
            => prizeTable

\* No command is sent on a connection that still holds an unread result: what
\* mysql_stmt_store_result in checkAccountExists and mysql_store_result in
\* checkPrizeTable are there for.
CommandsInSync ==
    \A s \in Senders :
        pc[s] \in {"account_prepare", "account_execute", "table_select",
                   "table_create", "insert_prepare", "insert_execute"}
            => InSync(s)

\* By whichever of its exits a send leaves, its statement and its connection
\* are closed when its message box opens; only a send ended by an uncaught
\* exception, which leaves the button disabled, keeps them.
NothingLeftOpen ==
    \A s \in Senders :
        (\/ pc[s] \in {"failed", "succeeded"}
         \/ pc[s] = "idle" /\ button[s] = "enabled")
            => \A h \in Handles : handle[s][h] # "open"

\* No freed handle is given to the library.  It holds as long as neither
\* mysql_optionsv nor the mysql_stmt_close of checkAccountExists fails.
NoUseAfterClose == \A s \in Senders : misuse[s] = {}

\* The operator can send again whenever no send runs and no box is open.  It
\* holds as long as no CStringA copy runs out of memory.
ButtonUsable == \A s \in Senders : pc[s] = "idle" => button[s] = "enabled"

\* checkPrizeTable, which promises to create a missing table (dbAction.h:9),
\* never ends a send because of the table.  It is claimed where nothing fails;
\* another copy that creates the table between SELECT and CREATE violates it.
TableCheckPasses == \A p \in reports : p.at # "table_wait"

\* The table is there, and no copy is about to create it.
TableSettled ==
    prizeTable /\ \A s \in Senders : pc[s] \notin {"table_create", "table_wait"}

\* The step does not end a send because of the table.
NoTableFailure ==
    \A p \in reports' \ reports : p.at \notin {"table_create", "table_wait"}

\* That race is one of the first sends: once account_prize is there and no copy is
\* about to create it, no copy tries to again, and no send ends because of it.
TableFailsAtFirst == [][TableSettled => TableSettled' /\ NoTableFailure]_vars

\* What a lost statement or answer leaves: the copy waits, the answer is not
\* there, and the server has no statement left that it would answer.
Stranded(s) ==
    /\ reply[s] = "none"
    /\ \/ pc[s] = "table_wait" /\ Current(s) \notin createSent
       \/ pc[s] = "insert_wait" /\ ~InFlight(Current(s))


\* Where a call stands in a send.
Stage == [init |-> 1, options |-> 2, settings |-> 3, connect |-> 4,
          account_name |-> 5, account_init |-> 6, account_prepare |-> 7,
          account_execute |-> 8, account_store |-> 9, account_close |-> 10,
          table_select |-> 11, table_create |-> 12, table_wait |-> 13,
          table_store |-> 14, insert_init |-> 15, insert_prepare |-> 16,
          insert_execute |-> 17, insert_wait |-> 18, insert_close |-> 19,
          close |-> 20]

\* A send makes no call twice, however its calls and the statements it sent
\* fail: processSendPrize has no loop and no retry, so that a send is at most
\* twenty calls, and a second INSERT takes a second click.
SendsMoveOn ==
    [][\A s \in Senders :
           pc[s] \in Running /\ pc'[s] \in Running /\ pc'[s] # pc[s] =>
               Stage[pc[s]] < Stage[pc'[s]]]_vars
-----------------------------------------------------------------------------
\* What the operator may conclude from the box that ended a send.
Verdict(at) == IF at = "done" THEN "sent"
               ELSE IF at \in InDoubt THEN "in doubt" ELSE "refused"

Promise == INSTANCE PrizeDelivery WITH
               Requests  <- Ids,
               verdicts  <- {[by |-> p.by, verdict |-> Verdict(p.at)] :
                                p \in reports},
               delivered <- rows

\* Sending implements the promise of PrizeDelivery, step by step: deliveries
\* and message boxes come in an order that the promise allows.
KeepsPromise == Promise!Spec
=============================================================================
