----------------------------- MODULE PrizeDialog -----------------------------
(***************************************************************************)
(* The windows of one copy of the tool: the form, whose edit controls are  *)
(* exchanged with the members m_username .. m_count of the dialog, those   *)
(* with the configuration that is saved, and the settings dialog, whose    *)
(* members are copied from and to the configuration.  The message boxes    *)
(* are modal: nothing else happens in the copy until they are closed.      *)
(***************************************************************************)
EXTENDS PrizeFields

CONSTANTS
    Copies,    \* running copies of TlPrizeSender.exe
    Texts,     \* what an edit control of each field can hold
    Read,      \* the values of the texts that its DDX_Text can read
    Show,      \* the text that its DDX_Text shows for each value
    Loads,     \* what loadFromFile may make of config.ini
    NoDialog   \* no settings dialog

\* The controls of a dialog.
Screens(K) == {t \in [K -> UNION {Texts[k] : k \in K}] :
                   \A k \in K : t[k] \in Texts[k]}

ASSUME DialogAssumption ==
    /\ \A k \in AllKeys : /\ DOMAIN Read[k] \subseteq Texts[k]
                           /\ Read[k] \in [DOMAIN Read[k] -> Values[k]]
                           /\ Show[k] \in [Values[k] -> Texts[k]]
    /\ Loads \subseteq AppConfigs
    /\ NoDialog \notin [controls : Screens(DbKeys), members : Parts(DbKeys)]

VARIABLES
    window,    \* of each copy: "none", "main", "settings", "sending" or, while a
               \* box is shown at the end of a send, "told"
    controls,  \* the edit controls of the form
    members,   \* m_username .. m_count
    button,    \* m_sendButton
    settings,  \* controls and members of the settings dialog
    config,    \* m_appConfig
    accepted   \* history: what was loaded, and then confirmed in the settings
               \* dialog or sent, as the operator saw it

vars == <<window, controls, members, button, settings, config, accepted>>

Init ==
    /\ window = [c \in Copies |-> "none"]
    /\ members = [c \in Copies |-> Part(Constructed, PrizeKeys)]
    /\ controls = [c \in Copies |-> [k \in PrizeKeys |-> Show[k][Constructed[k]]]]
    /\ button = [c \in Copies |-> "enabled"]
    /\ settings = [c \in Copies |-> NoDialog]
    /\ config = [c \in Copies |-> Constructed]
    /\ accepted = [c \in Copies |-> Constructed]
-----------------------------------------------------------------------------
DDX(k) == [call |-> "DDX_Text", key |-> k]
DDV(k) == [call |-> "DDV", key |-> k]

\* The calls of CTlPrizeSenderDlg::DoDataExchange.
FormSteps == <<DDX("username"), DDX("world"), DDX("charguid"), DDX("item"),
               DDX("count"), DDV("username"), DDV("item"), DDV("count")>>

\* The calls of CDatabaseSettingDlg::DoDataExchange.
SettingSteps == <<DDX("host"), DDX("port"), DDV("port"), DDX("name"),
                  DDX("db_username"), DDX("password")>>

\* Mutant: the range of the port is not looked at.
ValidAnyPort(k, v) == /\ k = "username" => v # Empty
                      /\ k \in {"item", "count"} => v >= 1

\* DDV_UsernameNotEmpty and DDV_MinMaxInt, whose upper bounds for item and count
\* (INT_MAX) are those of the members.
Valid(k, v) == /\ k = "username" => v # Empty
               /\ k \in {"item", "count"} => v >= 1
               /\ k = "port" => v \in 1..65535

\* Whether a step of an exchange passes on the controls t.
StepPasses(step, t) ==
    /\ t[step.key] \in DOMAIN Read[step.key]
    /\ step.call = "DDV" => Valid(step.key, Read[step.key][t[step.key]])

\* UpdateData(true) returns true.
Passes(steps, t) == \A i \in DOMAIN steps : StepPasses(steps[i], t)

\* The members after UpdateData(true): the exchange ends at the first step that
\* fails, and what it has read by then stays.
Exchanged(steps, t, old) ==
    [k \in DOMAIN old |->
        IF \E i \in DOMAIN steps : /\ steps[i] = DDX(k)
                                   /\ \A j \in 1..i : StepPasses(steps[j], t)
        THEN Read[k][t[k]] ELSE old[k]]

\* What the operator sees in controls that pass.
Seen(t) == [k \in DOMAIN t |-> Read[k][t[k]]]

\* The value v as the configuration holds it: m_port is an unsigned short.
Stored(k, v) == IF k = "port" THEN AsShort(v) ELSE v

\* The part m is copied into the configuration of c.
Assign(c, m) ==
    config' = [config EXCEPT ![c] = [k \in AllKeys |->
                   IF k \in DOMAIN m THEN Stored(k, m[k]) ELSE @[k]]]

Accept(c, m) ==
    accepted' = [accepted EXCEPT ![c] = [k \in AllKeys |->
                     IF k \in DOMAIN m THEN m[k] ELSE @[k]]]

\* OnInitDialog, once the configuration new is loaded.
Open(c, new) ==
    /\ window[c] = "none"
    /\ window' = [window EXCEPT ![c] = "main"]
    /\ config' = [config EXCEPT ![c] = new]
    /\ members' = [members EXCEPT ![c] = Part(new, PrizeKeys)]
    /\ controls' = [controls EXCEPT
                        ![c] = [k \in PrizeKeys |-> Show[k][new[k]]]]
    /\ accepted' = [accepted EXCEPT ![c] = new]
    /\ UNCHANGED <<button, settings>>

Type(c, k, text) ==
    /\ window[c] = "main"
    /\ controls' = [controls EXCEPT ![c][k] = text]
    /\ UNCHANGED <<window, members, button, settings, config, accepted>>

\* OnSendBnClicked, or OnOK after the Enter key, when the form does not pass: the
\* members that were read change, nothing else.
Reject(c) ==
    /\ window[c] = "main" /\ ~Passes(FormSteps, controls[c])
    /\ members' = [members EXCEPT ![c] = Exchanged(FormSteps, controls[c], @)]
    /\ UNCHANGED <<window, controls, button, settings, config, accepted>>

\* Mutant: what UpdateData returns is not looked at.
SendUnchecked(c) ==
    /\ window[c] = "main" /\ button[c] = "enabled"
    /\ window' = [window EXCEPT ![c] = "sending"]
    /\ members' = [members EXCEPT ![c] = Exchanged(FormSteps, controls[c], @)]
    /\ Assign(c, members'[c]) /\ Accept(c, members'[c])
    /\ button' = [button EXCEPT ![c] = "disabled"]
    /\ UNCHANGED <<controls, settings>>

\* Mutant: the button is not disabled.
SendButtonStays(c) ==
    /\ window[c] = "main" /\ button[c] = "enabled"
    /\ Passes(FormSteps, controls[c])
    /\ window' = [window EXCEPT ![c] = "sending"]
    /\ members' = [members EXCEPT ![c] = Exchanged(FormSteps, controls[c], @)]
    /\ Assign(c, members'[c]) /\ Accept(c, Seen(controls[c]))
    /\ UNCHANGED <<controls, button, settings>>

\* OnSendBnClicked up to processSendPrize, which is given the members.
Send(c) ==
    /\ window[c] = "main" /\ button[c] = "enabled"
    /\ Passes(FormSteps, controls[c])
    /\ window' = [window EXCEPT ![c] = "sending"]
    /\ members' = [members EXCEPT ![c] = Exchanged(FormSteps, controls[c], @)]
    /\ Assign(c, members'[c]) /\ Accept(c, Seen(controls[c]))
    /\ button' = [button EXCEPT ![c] = "disabled"]
    /\ UNCHANGED <<controls, settings>>

\* processSendPrize is over and a box is shown.  The button is enabled before the
\* one of a success, but after the one of a failure.
SendTold(c, success) ==
    /\ window[c] = "sending"
    /\ window' = [window EXCEPT ![c] = "told"]
    /\ button' = [button EXCEPT ![c] = IF success THEN "enabled" ELSE @]
    /\ UNCHANGED <<controls, members, settings, config, accepted>>

\* The box is closed, and OnSendBnClicked returns.
Dismiss(c) ==
    /\ window[c] = "told"
    /\ window' = [window EXCEPT ![c] = "main"]
    /\ button' = [button EXCEPT ![c] = "enabled"]
    /\ UNCHANGED <<controls, members, settings, config, accepted>>

\* The exception that OnSendBnClicked does not catch.
SendThrows(c) ==
    /\ window[c] = "sending"
    /\ window' = [window EXCEPT ![c] = "main"]
    /\ UNCHANGED <<controls, members, button, settings, config, accepted>>

\* OnShowSettingDlg up to the modal dialog.
OpenSettings(c) ==
    /\ window[c] = "main"
    /\ window' = [window EXCEPT ![c] = "settings"]
    /\ settings' = [settings EXCEPT ![c] =
           [controls |-> [k \in DbKeys |-> Show[k][config[c][k]]],
            members |-> Part(config[c], DbKeys)]]
    /\ UNCHANGED <<controls, members, button, config, accepted>>

TypeSetting(c, k, text) ==
    /\ window[c] = "settings"
    /\ settings' = [settings EXCEPT ![c].controls[k] = text]
    /\ UNCHANGED <<window, controls, members, button, config, accepted>>

\* OnOK of the settings dialog, when its controls do not pass.
RejectSettings(c) ==
    /\ window[c] = "settings"
    /\ LET s == settings[c]
       IN  /\ ~Passes(SettingSteps, s.controls)
           /\ settings' = [settings EXCEPT ![c].members =
                               Exchanged(SettingSteps, s.controls, s.members)]
    /\ UNCHANGED <<window, controls, members, button, config, accepted>>

\* The settings dialog ends with IDOK: its members are copied back.
ConfirmSettings(c) ==
    /\ window[c] = "settings"
    /\ window' = [window EXCEPT ![c] = "main"]
    /\ LET s == settings[c]
       IN  /\ Passes(SettingSteps, s.controls)
           /\ Assign(c, Exchanged(SettingSteps, s.controls, s.members))
           /\ Accept(c, Seen(s.controls))
    /\ settings' = [settings EXCEPT ![c] = NoDialog]
    /\ UNCHANGED <<controls, members, button>>

\* It ends with IDCANCEL.
CancelSettings(c) ==
    /\ window[c] = "settings"
    /\ window' = [window EXCEPT ![c] = "main"]
    /\ settings' = [settings EXCEPT ![c] = NoDialog]
    /\ UNCHANGED <<controls, members, button, config, accepted>>

\* The windows of c are gone, and with OnDestroy what was typed and not sent; or
\* the process is killed.
Close(c) ==
    /\ window[c] # "none"
    /\ window' = [window EXCEPT ![c] = "none"]
    /\ controls' = [controls EXCEPT
                        ![c] = [k \in PrizeKeys |-> Show[k][Constructed[k]]]]
    /\ members' = [members EXCEPT ![c] = Part(Constructed, PrizeKeys)]
    /\ button' = [button EXCEPT ![c] = "enabled"]
    /\ settings' = [settings EXCEPT ![c] = NoDialog]
    /\ config' = [config EXCEPT ![c] = Constructed]
    /\ accepted' = [accepted EXCEPT ![c] = Constructed]
-----------------------------------------------------------------------------
Next ==
    \E c \in Copies :
        \/ \E new \in Loads : Open(c, new)
        \/ \E k \in PrizeKeys : \E text \in Texts[k] : Type(c, k, text)
        \/ \E k \in DbKeys : \E text \in Texts[k] : TypeSetting(c, k, text)
        \/ Reject(c) \/ Send(c) \/ Dismiss(c) \/ SendThrows(c)
        \/ \E success \in BOOLEAN : SendTold(c, success)
        \/ OpenSettings(c) \/ RejectSettings(c) \/ ConfirmSettings(c)
        \/ CancelSettings(c) \/ Close(c)

Spec == Init /\ [][Next]_vars
=============================================================================
