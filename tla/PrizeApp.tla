------------------------------- MODULE PrizeApp -------------------------------
(***************************************************************************)
(* The whole tool: AppConfig loads and saves the configuration that        *)
(* PrizeDialog shows and changes, and the sends are those of               *)
(* PrizeDelivery, which PrizeSend implements.  An action is the joint step *)
(* of the parts that a handler calls; InitInstance runs the main dialog    *)
(* and ends the process with it.                                           *)
(***************************************************************************)
EXTENDS PrizeFields, FiniteSets

CONSTANTS
    Copies,                             \* running copies of TlPrizeSender.exe
    Texts, Read, Show, Loads, NoDialog, \* of PrizeDialog
    FileTexts, Absent, Written, Reread, InitialFiles, NoFile, Faults,
                                        \* of AppConfig
    Typed,                              \* bound: the texts that are typed
    MaxSends                            \* bound: sends of all copies

VARIABLES
    file, phase, next, config, alone, whole, last,          \* of AppConfig
    window, controls, members, button, settings, accepted,  \* of PrizeDialog
    asked, verdicts, delivered,                             \* of PrizeDelivery
    sends,  \* how many sends each copy has started
    left    \* history: what the copy that was closed last had confirmed

storing == <<file, phase, next, config, alone, whole, last>>
showing == <<window, controls, members, button, settings, accepted>>
sending == <<asked, verdicts, delivered, sends>>
vars    == <<storing, showing, sending, left>>

Ids == Copies \X (1..MaxSends)
Orders == [prize : Parts(PrizeKeys), db : Parts(DbKeys)]

Cfg == INSTANCE AppConfig WITH
           Keys <- FileKeys, Groups <- {PrizeKeys, DbKeys}, Texts <- FileTexts

\* The dialogs see m_appConfig once it is loaded, and until it is saved.
InUse == [c \in Copies |->
             IF window[c] = "none" THEN Constructed ELSE config[c]]

Dlg == INSTANCE PrizeDialog WITH config <- InUse

Delivery == INSTANCE PrizeDelivery WITH Requests <- Ids

ASSUME AppAssumption ==
    /\ Cfg!ConfigAssumption /\ Dlg!DialogAssumption
    /\ \A k \in AllKeys : Typed[k] \subseteq Texts[k]
    \* loadFromFile casts the port to an unsigned short.
    /\ \A t \in FileTexts["port"] : Reread["port"][t] \in Shorts
    /\ MaxSends \in Nat

Init ==
    /\ Cfg!Init /\ Dlg!Init /\ Delivery!Init
    /\ sends = [c \in Copies |-> 0]
    /\ left = Constructed
-----------------------------------------------------------------------------
Current(c) == <<c, sends[c]>>

Launch(c) == Cfg!Start(c) /\ UNCHANGED <<showing, sending, left>>

\* Mutant: the dialog is filled after the first key, not after the last.
LoadOpensEarly(c) ==
    /\ Cfg!LoadKey(c)
    /\ IF next[c] = 1 THEN Dlg!Open(c, config'[c]) ELSE UNCHANGED showing
    /\ UNCHANGED <<sending, left>>

\* The last key is followed by the rest of OnInitDialog.
Load(c) ==
    /\ Cfg!LoadKey(c)
    /\ IF next[c] = Len(FileKeys) THEN Dlg!Open(c, config'[c])
       ELSE UNCHANGED showing
    /\ UNCHANGED <<sending, left>>

\* What the operator does in the dialogs without an effect on the configuration.
Edit(c) ==
    /\ UNCHANGED <<storing, sending, left>>
    /\ \/ \E k \in PrizeKeys : \E text \in Typed[k] : Dlg!Type(c, k, text)
       \/ \E k \in DbKeys : \E text \in Typed[k] : Dlg!TypeSetting(c, k, text)
       \/ Dlg!Reject(c) \/ Dlg!OpenSettings(c)
       \/ Dlg!RejectSettings(c) \/ Dlg!CancelSettings(c) \/ Dlg!Dismiss(c)

Confirm(c) ==
    /\ window[c] = "settings"
    /\ LET s == settings[c]
           m == Dlg!Exchanged(Dlg!SettingSteps, s.controls, s.members)
       IN  Cfg!Change(c, DbKeys, [k \in DbKeys |-> Dlg!Stored(k, m[k])])
    /\ Dlg!ConfirmSettings(c)
    /\ UNCHANGED <<sending, left>>

\* Mutant: the prize is taken from m_prizeConfig before the form is copied to it.
SendRecorded(c) ==
    /\ window[c] = "main" /\ Cardinality(asked) < MaxSends
    /\ LET m == Dlg!Exchanged(Dlg!FormSteps, controls[c], members[c])
       IN  /\ Cfg!Change(c, PrizeKeys, m)
           /\ Dlg!Send(c)
           /\ Delivery!Ask(<<c, sends[c] + 1>>,
                           [prize |-> Part(config[c], PrizeKeys),
                            db |-> Part(config[c], DbKeys)])
    /\ sends' = [sends EXCEPT ![c] = @ + 1]
    /\ UNCHANGED left

\* OnSendBnClicked up to processSendPrize(m_dbConfig, m_username, ..).
Send(c) ==
    /\ window[c] = "main" /\ Cardinality(asked) < MaxSends
    /\ LET m == Dlg!Exchanged(Dlg!FormSteps, controls[c], members[c])
       IN  /\ Cfg!Change(c, PrizeKeys, m)
           /\ Dlg!Send(c)
           /\ Delivery!Ask(<<c, sends[c] + 1>>,
                           [prize |-> m, db |-> Part(config[c], DbKeys)])
    /\ sends' = [sends EXCEPT ![c] = @ + 1]
    /\ UNCHANGED left

\* Mutant: the success box is shown whatever processSendPrize does.
TellSuccess(c, verdict) ==
    /\ window[c] = "sending"
    /\ UNCHANGED <<storing, sends, left, asked, delivered>>
    /\ verdicts' = verdicts \cup {[by |-> Current(c), verdict |-> "sent"]}
    /\ Dlg!SendTold(c, TRUE)

\* The box after processSendPrize; the database functions deliver before they return.
Tell(c, verdict) ==
    /\ window[c] = "sending"
    /\ UNCHANGED <<storing, sends, left>>
    /\ Delivery!Tell(Current(c), verdict)
    /\ Dlg!SendTold(c, verdict = "sent")

\* The exception that OnSendBnClicked does not catch.
Throw(c) ==
    /\ "uncaught" \in Faults
    /\ UNCHANGED <<storing, sending, left>>
    /\ Dlg!SendThrows(c)

\* An order arrives, perhaps after its copy is gone.
Deliver(a) == Delivery!Deliver(a) /\ UNCHANGED <<storing, showing, sends, left>>

\* Mutant: OnDestroy is not in the message map.
QuitUnsaved(c) ==
    /\ window[c] = "main"
    /\ Cfg!Kill(c) /\ Dlg!Close(c)
    /\ left' = accepted[c]
    /\ UNCHANGED sending

\* The main dialog ends, by OnOK on a form that passes or by OnCancel, and
\* OnDestroy saves.
Quit(c) ==
    /\ window[c] = "main"
    /\ Cfg!Close(c) /\ Dlg!Close(c)
    /\ left' = accepted[c]
    /\ UNCHANGED sending

Save(c) == Cfg!SaveKey(c) /\ UNCHANGED <<showing, sending, left>>

Kill(c) ==
    /\ Cfg!Kill(c)
    /\ IF window[c] = "none" THEN UNCHANGED showing ELSE Dlg!Close(c)
    /\ UNCHANGED <<sending, left>>
-----------------------------------------------------------------------------
Next ==
    \/ \E c \in Copies :
           \/ Launch(c) \/ Load(c) \/ Edit(c) \/ Confirm(c) \/ Send(c) \/ Throw(c)
           \/ \E verdict \in {"sent", "refused", "in doubt"} : Tell(c, verdict)
           \/ Quit(c) \/ Save(c) \/ Kill(c)
    \/ \E a \in asked : Deliver(a)

Spec == Init /\ [][Next]_vars
=============================================================================
