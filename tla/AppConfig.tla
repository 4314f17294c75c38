------------------------------ MODULE AppConfig ------------------------------
(***************************************************************************)
(* config.ini and the copies of the tool that share it: CAppConfig loads   *)
(* it when the dialog opens and saves it when the dialog is destroyed, in  *)
(* both cases one key after the other.  Each access opens and closes the   *)
(* file, so the accesses of other copies, and the end of the process, may  *)
(* fall between any two; an access that fails is not noticed.              *)
(***************************************************************************)
EXTENDS Naturals, Sequences

CONSTANTS
    Copies,       \* running copies of TlPrizeSender.exe
    Keys,         \* the keys of the file, in the order of saveToFile
    Groups,       \* the sets of keys that the dialogs assign together
    Values,       \* what each key can be in memory
    Texts,        \* what each key can be in the file, written or edited by hand
    Absent,       \* the text of a key that is not in the file
    Written,      \* the text that is written for each value of each key
    Reread,       \* what loading makes of each text of each key
    Constructed,  \* m_appConfig before it is loaded
    InitialFiles, \* the files to start with
    NoFile,       \* not the contents of a file
    Faults        \* "read", "write", "kill_saving", "overlap" may happen

KeySet == {Keys[i] : i \in 1..Len(Keys)}

Configs == {m \in [KeySet -> UNION {Values[k] : k \in KeySet}] :
                \A k \in KeySet : m[k] \in Values[k]}

IsFile(f) == /\ f \in [KeySet -> UNION {Texts[k] : k \in KeySet}]
             /\ \A k \in KeySet : f[k] \in Texts[k]

ASSUME ConfigAssumption ==
    /\ Keys \in Seq(STRING) /\ Len(Keys) > 0
    /\ Groups \subseteq SUBSET KeySet
    /\ Constructed \in Configs
    /\ \A k \in KeySet : /\ Absent \in Texts[k]
                          /\ Written[k] \in [Values[k] -> Texts[k] \ {Absent}]
                          /\ Reread[k] \in [Texts[k] -> Values[k]]
    /\ \A f \in InitialFiles : IsFile(f)
    /\ ~IsFile(NoFile)

VARIABLES
    file,    \* config.ini
    phase,   \* of each copy: "closed", "loading", "running" or "saving"
    next,    \* the position in Keys of the next access
    config,  \* m_appConfig of each copy
    alone,   \* history: nothing disturbed the load or save it is in
    whole,   \* history: the contents left by an undisturbed save, if no other
             \* save has begun since
    last     \* history: of the saves that follow or overlap one another since
             \* the last undisturbed one, or the last that began on its own:
             \* the file they found ("old"), the files they are to write
             \* ("news"), and that neither a write failed nor two of them
             \* overlapped ("clean")

history == <<alone, whole, last>>
vars == <<file, phase, next, config, history>>

\* What the history of the saves says of a file that is whole.
WholeFile(f) == [old |-> f, news |-> {}, clean |-> TRUE]

Init ==
    /\ file \in InitialFiles
    /\ phase = [c \in Copies |-> "closed"]
    /\ next = [c \in Copies |-> 1]
    /\ config = [c \in Copies |-> Constructed]
    /\ alone = [c \in Copies |-> FALSE]
    /\ whole = file
    /\ last = WholeFile(file)
-----------------------------------------------------------------------------
Busy(c) == phase[c] \in {"loading", "saving"}

\* Where "overlap" is no fault of the run, operators start and close copies one
\* after the other.
MayBegin(c) == "overlap" \in Faults \/ \A d \in Copies \ {c} : ~Busy(d)

Key(c) == Keys[next[c]]

\* The access to a key is done; after the last one, d is the phase.
Advance(c, d) ==
    /\ next' = [next EXCEPT ![c] = IF @ = Len(Keys) THEN 1 ELSE @ + 1]
    /\ phase' = [phase EXCEPT ![c] = IF next[c] = Len(Keys) THEN d ELSE @]

\* The value that loadFromFile gives to the key k of a file with contents f.
Loaded(f, k) == Reread[k][f[k]]

\* What saveToFile writes for the key k of the configuration m, and for all.
Saved(m, k) == Written[k][m[k]]
SavedFile(m) == [k \in KeySet |-> Saved(m, k)]

\* The default that it takes for a key, or a file, that it cannot find.
Default(k) == Reread[k][Absent]

\* A save that begins while another is under way joins it.
SaveBegins(c) ==
    last' = IF \E d \in Copies : phase[d] = "saving"
            THEN [last EXCEPT !.news = @ \cup {SavedFile(config[c])},
                              !.clean = FALSE]
            ELSE [WholeFile(file) EXCEPT !.news = {SavedFile(config[c])}]

\* With the last write of a save the process is over.
SaveEnds(c) ==
    IF next[c] = Len(Keys)
    THEN /\ config' = [config EXCEPT ![c] = Constructed]
         /\ whole' = IF alone'[c] THEN SavedFile(config[c]) ELSE NoFile
         /\ last' = IF alone'[c] THEN WholeFile(SavedFile(config[c]))
                    ELSE [last EXCEPT !.clean = FALSE]
    ELSE /\ last' = [last EXCEPT !.clean = alone'[c]]
         /\ UNCHANGED <<whole, config>>

\* OnInitDialog, up to the first access.
Start(c) ==
    /\ phase[c] = "closed" /\ MayBegin(c)
    /\ phase' = [phase EXCEPT ![c] = "loading"]
    /\ alone' = [alone EXCEPT ![c] = \A d \in Copies : phase[d] # "saving"]
    /\ UNCHANGED <<file, next, config, whole, last>>

\* Mutant: a key gets what was read into strBuff for the key before it.
LoadKeyOldBuffer(c) ==
    /\ phase[c] = "loading"
    /\ LET k == IF next[c] = 1 THEN Key(c) ELSE Keys[next[c] - 1]
       IN  config' = [config EXCEPT ![c][Key(c)] = Loaded(file, k)]
    /\ Advance(c, "running")
    /\ UNCHANGED <<file, history>>

\* Mutant: the last key is looked up under another name than it is saved under.
LoadKeyMisspelt(c) ==
    /\ phase[c] = "loading"
    /\ config' = [config EXCEPT ![c][Key(c)] =
                      IF next[c] = Len(Keys) THEN Default(Key(c))
                      ELSE Loaded(file, Key(c))]
    /\ Advance(c, "running")
    /\ UNCHANGED <<file, history>>

\* Mutant: a text is taken as it is, without a cast or a conversion.
LoadKeyRaw(c) ==
    /\ phase[c] = "loading"
    /\ config' = [config EXCEPT ![c][Key(c)] =
                      IF file[Key(c)] = Absent THEN Default(Key(c))
                      ELSE file[Key(c)]]
    /\ Advance(c, "running")
    /\ UNCHANGED <<file, history>>

LoadKey(c) ==
    /\ phase[c] = "loading"
    /\ \/ /\ config' = [config EXCEPT ![c][Key(c)] = Loaded(file, Key(c))]
          /\ UNCHANGED alone
       \/ /\ "read" \in Faults
          /\ config' = [config EXCEPT ![c][Key(c)] = Default(Key(c))]
          /\ alone' = [alone EXCEPT ![c] = FALSE]
    /\ Advance(c, "running")
    /\ UNCHANGED <<file, whole, last>>

\* OnSendBnClicked or OnShowSettingDlg assigns the keys of G.
Change(c, G, new) ==
    /\ phase[c] = "running"
    /\ config' = [config EXCEPT ![c] =
                      [k \in KeySet |-> IF k \in G THEN new[k] ELSE @[k]]]
    /\ UNCHANGED <<file, phase, next, history>>

\* Mutant: the save begins by emptying the file.
CloseTruncates(c) ==
    /\ phase[c] = "running" /\ MayBegin(c)
    /\ phase' = [phase EXCEPT ![c] = "saving"]
    /\ alone' = [d \in Copies |->
                     IF d = c THEN \A e \in Copies : phase[e] # "saving"
                     ELSE alone[d] /\ ~Busy(d)]
    /\ file' = [k \in KeySet |-> Absent]
    /\ whole' = NoFile /\ SaveBegins(c)
    /\ UNCHANGED <<next, config>>

\* OnDestroy, up to the first access.  It disturbs the copies that load or save.
Close(c) ==
    /\ phase[c] = "running" /\ MayBegin(c)
    /\ phase' = [phase EXCEPT ![c] = "saving"]
    /\ alone' = [d \in Copies |->
                     IF d = c THEN \A e \in Copies : phase[e] # "saving"
                     ELSE alone[d] /\ ~Busy(d)]
    /\ whole' = NoFile /\ SaveBegins(c)
    /\ UNCHANGED <<file, next, config>>

\* Mutant: strValue is not formatted anew, the key before it is written again.
SaveKeyOldBuffer(c) ==
    /\ phase[c] = "saving"
    /\ LET k == IF next[c] = 1 THEN Key(c) ELSE Keys[next[c] - 1]
       IN  file' = [file EXCEPT ![Key(c)] = Saved(config[c], k)]
    /\ UNCHANGED alone
    /\ Advance(c, "closed") /\ SaveEnds(c)

\* Mutant: after a write that fails the save begins anew.
SaveKeyRestarts(c) ==
    /\ phase[c] = "saving"
    /\ \/ /\ file' = [file EXCEPT ![Key(c)] = Saved(config[c], Key(c))]
          /\ UNCHANGED alone
          /\ Advance(c, "closed") /\ SaveEnds(c)
       \/ /\ "write" \in Faults
          /\ alone' = [alone EXCEPT ![c] = FALSE]
          /\ next' = [next EXCEPT ![c] = 1]
          /\ UNCHANGED <<file, phase, config, whole, last>>

SaveKey(c) ==
    /\ phase[c] = "saving"
    /\ \/ /\ file' = [file EXCEPT ![Key(c)] = Saved(config[c], Key(c))]
          /\ UNCHANGED alone
       \/ /\ "write" \in Faults
          /\ alone' = [alone EXCEPT ![c] = FALSE]
          /\ UNCHANGED file
    /\ Advance(c, "closed") /\ SaveEnds(c)

\* The process ends without OnDestroy, or in the middle of it.
Kill(c) ==
    /\ \/ phase[c] \in {"loading", "running"}
       \/ phase[c] = "saving" /\ "kill_saving" \in Faults
    /\ phase' = [phase EXCEPT ![c] = "closed"]
    /\ next' = [next EXCEPT ![c] = 1]
    /\ config' = [config EXCEPT ![c] = Constructed]
    /\ alone' = [alone EXCEPT ![c] = FALSE]
    /\ UNCHANGED <<file, whole, last>>
-----------------------------------------------------------------------------
Next ==
    \E c \in Copies :
        \/ Start(c) \/ LoadKey(c) \/ Close(c) \/ SaveKey(c) \/ Kill(c)
        \/ \E G \in Groups, new \in Configs : Change(c, G, new)

Spec == Init /\ [][Next]_vars
=============================================================================
