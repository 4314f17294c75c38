---------------------------- MODULE MCPrizeSend ----------------------------
(***************************************************************************)
(* Small instances of PrizeSend.                                           *)
(***************************************************************************)
EXTENDS PrizeSendProps, FiniteSets, TLC

CONSTANTS u1, u2, u3, a1, a2, p1, p2

\* u2 and u3 differ in a character that the ANSI code page does not have.
MCAnsi == (u1 :> a1) @@ (u2 :> a2) @@ (u3 :> a2)
MCAnsi1 == (u1 :> a1)

ServerFaults == {"create_refused", "insert_refused"}

AllFaults == Running \cup ServerFaults \cup {"crash"}

\* Without the two failures after which the code uses a freed handle, and
\* without the uncaught exceptions.
CleanFaults == AllFaults \ {"options", "account_close", "settings", "account_name"}

\* A copy that retries or is restarted after an INSERT or CREATE in doubt.
RetryFaults == {"table_wait", "insert_wait", "insert_refused", "crash"}

\* Failures for the liveness run: a call that waits for the server is ended by
\* its answer only, since nothing in the code bounds the wait; a fault of these
\* two calls would, under the fairness of a send, be a timeout.
AnsweredFaults == CleanFaults \ {"table_wait", "insert_wait"}

Symmetry == Permutations(Senders)
=============================================================================
