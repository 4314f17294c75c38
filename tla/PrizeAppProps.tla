---------------------------- MODULE PrizeAppProps ----------------------------
(***************************************************************************)
(* What the operator may expect of the tool as a whole.                    *)
(***************************************************************************)
EXTENDS PrizeApp

\* The windows of a copy are there when its configuration is loaded and not yet
\* being saved: nothing is edited or sent that the next access would overwrite.
WindowsMatch == \A c \in Copies : window[c] # "none" <=> phase[c] = "running"

\* What the operator of a copy has ordered: the prize that the form shows, in the
\* database that was confirmed last, or that was loaded.
Sent(c) == [by |-> Current(c),
            order |-> [prize |-> Dlg!Seen(controls[c]),
                       db |-> Part(accepted[c], DbKeys)]]

\* A send goes to that database with that prize while it runs; the answer that
\* ends it is about that order.
SendsAsConfirmed ==
    \A c \in Copies : window[c] = "sending" => Sent(c) \in asked

\* The box that ends a send is true of what the operator sees: after a success the
\* prize that the form shows has arrived in the database confirmed last, and after
\* a failure that does not name the execution of the INSERT nothing has.
TellsTruth ==
    [][\A c \in Copies : \A v \in verdicts' \ verdicts : v.by = Current(c) =>
           /\ v.verdict = "sent" =>
                  \E k \in DOMAIN delivered : delivered[k] = Sent(c)
           /\ v.verdict = "refused" =>
                  \A k \in DOMAIN delivered : delivered[k].by # v.by]_vars

\* What comes back of the configuration m after it was saved and loaded.
Survives(m) == [k \in AllKeys |-> Reread[k][Written[k][m[k]]]]

\* The step opens the copy c on the configuration m, as far as the file keeps it.
OpensWith(c, m) ==
    /\ accepted'[c] = Survives(m)
    /\ controls'[c] = [k \in PrizeKeys |-> Show[k][Survives(m)[k]]]

\* A copy whose load nothing disturbs, of a file that an undisturbed save has left,
\* opens with all that the copy closed last had confirmed and nothing else: not
\* what was typed and not sent there, nor what a copy that crashed had confirmed,
\* whatever failed before.
OpensAsSaved ==
    [][\A c \in Copies :
           window[c] = "none" /\ window'[c] = "main" /\ alone'[c]
               /\ whole # NoFile /\ left # Constructed =>
               OpensWith(c, left)]_vars

\* Where accesses succeed, no process dies while it saves and copies are opened and
\* closed one after the other, every copy opens that way.
OpensAsLeft ==
    [][\A c \in Copies :
           window[c] = "none" /\ window'[c] = "main" /\ left # Constructed =>
               OpensWith(c, left)]_vars
-----------------------------------------------------------------------------
Files == INSTANCE AppConfigProps WITH
             Keys <- FileKeys, Groups <- {PrizeKeys, DbKeys}, Texts <- FileTexts

\* The ten accesses of a load or a save of config.ini are together one step of the
\* store that ConfigStore describes, whatever the dialogs and sends of the copies
\* do between them.  It is claimed where accesses succeed, no process dies while it
\* saves and copies are opened and closed one after the other.
KeepsStore == Files!KeepsStore
=============================================================================
