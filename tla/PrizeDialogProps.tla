--------------------------- MODULE PrizeDialogProps ---------------------------
(***************************************************************************)
(* What the two dialogs must satisfy.                                      *)
(***************************************************************************)
EXTENDS PrizeDialog

\* Every variable keeps its type: m_port its 16 bits, too; the settings dialog is
\* there when its window is, and the button is disabled during a send.
TypeOK ==
    /\ window \in [Copies -> {"none", "main", "settings", "sending", "told"}]
    /\ controls \in [Copies -> Screens(PrizeKeys)]
    /\ members \in [Copies -> Parts(PrizeKeys)]
    /\ button \in [Copies -> {"enabled", "disabled"}]
    /\ settings \in [Copies -> {NoDialog} \cup
           [controls : Screens(DbKeys), members : Parts(DbKeys)]]
    /\ \A c \in Copies : settings[c] # NoDialog <=> window[c] = "settings"
    /\ \A c \in Copies : window[c] = "sending" => button[c] = "disabled"
    /\ config \in [Copies -> AppConfigs]
    /\ accepted \in [Copies -> Parts(AllKeys)]

\* What processSendPrize is given, and what is recorded for the next start, is
\* what the form shows while it runs, a valid order, whatever was typed, rejected
\* or left half exchanged before, and whatever config.ini held.
SendsWhatIsShown ==
    \A c \in Copies : window[c] = "sending" =>
        /\ Passes(FormSteps, controls[c])
        /\ members[c] = Seen(controls[c])
        /\ Part(config[c], PrizeKeys) = members[c]

\* The tool connects with, and saves, the settings and the form that the operator
\* last confirmed, as they were shown, or else what was loaded: a dialog that is
\* cancelled, or rejected after half its members were exchanged, leaves no trace,
\* and the port that was confirmed fits the 16 bits it is assigned to.
ConfigAsAccepted == \A c \in Copies : config[c] = accepted[c]
=============================================================================
