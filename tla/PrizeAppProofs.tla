---------------------------- MODULE PrizeAppProofs ----------------------------
(***************************************************************************)
(* The parts of the tool put together: every step of PrizeApp is one of    *)
(* AppConfig and one of PrizeDialog, or leaves them alone, so that what    *)
(* AppConfigProofs and PrizeDialogProofs prove holds of the tool.          *)
(***************************************************************************)
EXTENDS PrizeAppProps, FiniteSetTheorems, TLAPS

Ini == INSTANCE AppConfigProofs WITH
           Keys <- FileKeys, Groups <- {PrizeKeys, DbKeys}, Texts <- FileTexts

Form == INSTANCE PrizeDialogProofs WITH Loads <- AppConfigs, config <- InUse

\* The keys of the file are the fields of the configuration.
LEMMA KeysAre ==
  Ini!KeySet = AllKeys /\ Cfg!KeySet = AllKeys /\ Len(FileKeys) = 10
<1>1. /\ Len(FileKeys) = 10
      /\ FileKeys[1] = "host" /\ FileKeys[2] = "port" /\ FileKeys[3] = "name"
      /\ FileKeys[4] = "db_username" /\ FileKeys[5] = "password"
      /\ FileKeys[6] = "username" /\ FileKeys[7] = "world"
      /\ FileKeys[8] = "charguid" /\ FileKeys[9] = "item"
      /\ FileKeys[10] = "count"
  BY DEF FileKeys
<1>2. {FileKeys[i] : i \in 1..10} = AllKeys
  <2>1. \A i \in 1..10 : \/ i = 1 \/ i = 2 \/ i = 3 \/ i = 4 \/ i = 5
                         \/ i = 6 \/ i = 7 \/ i = 8 \/ i = 9 \/ i = 10
    OBVIOUS
  <2>2. \A i \in 1..10 : FileKeys[i] \in AllKeys
    BY <1>1, <2>1 DEF AllKeys, PrizeKeys, DbKeys
  <2>3. \A k \in AllKeys : \E i \in 1..10 : FileKeys[i] = k
    BY <1>1 DEF AllKeys, PrizeKeys, DbKeys
  <2> QED  BY <2>2, <2>3
<1> QED  BY <1>1, <1>2 DEF Ini!KeySet, Cfg!KeySet

\* The assumptions of the parts follow from those of the tool.
LEMMA IniAssumed == Ini!ConfigAssumption
  BY AppAssumption
     DEF AppAssumption, Cfg!ConfigAssumption, Ini!ConfigAssumption, Cfg!KeySet,
         Ini!KeySet, Cfg!Configs, Ini!Configs, Cfg!IsFile, Ini!IsFile

\* The fields, controls and exchanges of the instances are the same.
LEMMA FieldsAre ==
  /\ Form!AllKeys = AllKeys /\ Form!PrizeKeys = PrizeKeys
  /\ Form!DbKeys = DbKeys /\ Form!Constructed = Constructed
  /\ Form!AppConfigs = AppConfigs /\ Form!Shorts = Shorts
  /\ \A m, K : Form!Part(m, K) = Part(m, K)
  /\ \A K : Form!Parts(K) = Parts(K)
BY DEF Form!AllKeys, Form!PrizeKeys, Form!DbKeys, Form!Names, Form!Constructed,
       Form!AppConfigs, Form!Shorts, Form!Part, Form!Parts,
       AllKeys, PrizeKeys, DbKeys, Names, Constructed, AppConfigs, Shorts,
       Part, Parts

\* And so do those of the dialogs.
LEMMA FormAssumed == Form!FieldAssumption /\ Form!DialogAssumption
<1>1. Form!FieldAssumption
  BY FieldAssumption, FieldsAre
     DEF FieldAssumption, Form!FieldAssumption, Form!Names, Names,
         Form!AsShort, AsShort
<1>2. Form!DialogAssumption
  BY AppAssumption, FieldsAre
     DEF AppAssumption, Dlg!DialogAssumption, Form!DialogAssumption,
         Dlg!AllKeys, AllKeys, Dlg!Screens, Form!Screens, Dlg!DbKeys, DbKeys,
         Dlg!Parts, Parts, Dlg!PrizeKeys, PrizeKeys
<1> QED  BY <1>1, <1>2

\* So are the exchanges.
LEMMA ExchangesAre ==
  /\ Dlg!FormSteps = Form!FormSteps /\ Dlg!SettingSteps = Form!SettingSteps
  /\ \A steps, t : Dlg!Passes(steps, t) = Form!Passes(steps, t)
  /\ \A steps, t, m : Dlg!Exchanged(steps, t, m) = Form!Exchanged(steps, t, m)
  /\ \A t : Dlg!Seen(t) = Form!Seen(t)
  /\ \A k, v : Dlg!Stored(k, v) = Form!Stored(k, v)
<1>1. \A k : Dlg!DDX(k) = Form!DDX(k) /\ Dlg!DDV(k) = Form!DDV(k)
  BY DEF Dlg!DDX, Form!DDX, Dlg!DDV, Form!DDV
<1>2. /\ Dlg!FormSteps = Form!FormSteps /\ Dlg!SettingSteps = Form!SettingSteps
  BY <1>1, Zenon
     DEF Dlg!FormSteps, Form!FormSteps, Dlg!SettingSteps, Form!SettingSteps
<1>3. \A k, v : Dlg!Valid(k, v) = Form!Valid(k, v)
  BY DEF Dlg!Valid, Form!Valid
<1>4. \A step, t : Dlg!StepPasses(step, t) = Form!StepPasses(step, t)
  BY <1>3, Zenon DEF Dlg!StepPasses, Form!StepPasses
<1>5. \A steps, t : Dlg!Passes(steps, t) = Form!Passes(steps, t)
  BY <1>4, Zenon DEF Dlg!Passes, Form!Passes
<1>6. \A steps, t, m : Dlg!Exchanged(steps, t, m) = Form!Exchanged(steps, t, m)
  BY <1>1, <1>4, Zenon DEF Dlg!Exchanged, Form!Exchanged
<1>7. \A t : Dlg!Seen(t) = Form!Seen(t)  BY DEF Dlg!Seen, Form!Seen
<1>8. \A k, v : Dlg!Stored(k, v) = Form!Stored(k, v)
  BY DEF Dlg!Stored, Form!Stored, Dlg!AsShort, Form!AsShort
<1> QED  BY <1>2, <1>5, <1>6, <1>7, <1>8

\* And what is copied between the members and the configuration.
LEMMA CopiesAre ==
  ASSUME NEW c
  PROVE  /\ \A m : Dlg!Assign(c, m) = Form!Assign(c, m)
         /\ \A m : Dlg!Accept(c, m) = Form!Accept(c, m)
<1>1. Dlg!AllKeys = Form!AllKeys
  BY DEF Dlg!AllKeys, Dlg!PrizeKeys, Dlg!DbKeys,
         Form!AllKeys, Form!PrizeKeys, Form!DbKeys
<1>2. \A m : Dlg!Assign(c, m) = Form!Assign(c, m)
  BY <1>1, ExchangesAre, Zenon DEF Dlg!Assign, Form!Assign
<1>3. \A m : Dlg!Accept(c, m) = Form!Accept(c, m)
  BY <1>1, Zenon DEF Dlg!Accept, Form!Accept
<1> QED  BY <1>2, <1>3

\* What PrizeApp does with a dialog is a step of PrizeDialog.
LEMMA DialogStep ==
  ASSUME NEW c \in Copies,
         \/ \E new \in AppConfigs : Dlg!Open(c, new)
         \/ \E k \in PrizeKeys : \E text \in Texts[k] : Dlg!Type(c, k, text)
         \/ \E k \in DbKeys : \E text \in Texts[k] : Dlg!TypeSetting(c, k, text)
         \/ \E success \in BOOLEAN : Dlg!SendTold(c, success)
         \/ Dlg!Reject(c) \/ Dlg!Send(c) \/ Dlg!Dismiss(c) \/ Dlg!SendThrows(c)
         \/ Dlg!OpenSettings(c) \/ Dlg!RejectSettings(c)
         \/ Dlg!ConfirmSettings(c) \/ Dlg!CancelSettings(c) \/ Dlg!Close(c)
  PROVE  Form!Next
<1>1. /\ Dlg!PrizeKeys = Form!PrizeKeys /\ Dlg!DbKeys = Form!DbKeys
      /\ Dlg!Constructed = Form!Constructed
      /\ \A m, K : Dlg!Part(m, K) = Form!Part(m, K)
  BY DEF Dlg!PrizeKeys, Form!PrizeKeys, Dlg!DbKeys, Form!DbKeys,
         Dlg!Constructed, Form!Constructed, Dlg!AllKeys, Form!AllKeys,
         Dlg!Names, Form!Names,
         Dlg!Part, Form!Part
<1>2. ASSUME NEW new \in AppConfigs, Dlg!Open(c, new) PROVE Form!Open(c, new)
  BY <1>1, <1>2 DEF Dlg!Open, Form!Open
<1>3. ASSUME NEW k, NEW text, Dlg!Type(c, k, text) PROVE Form!Type(c, k, text)
  BY <1>3 DEF Dlg!Type, Form!Type
<1>4. ASSUME NEW k, NEW text, Dlg!TypeSetting(c, k, text)
      PROVE  Form!TypeSetting(c, k, text)
  BY <1>4 DEF Dlg!TypeSetting, Form!TypeSetting
<1>5. ASSUME Dlg!Reject(c) PROVE Form!Reject(c)
  BY <1>5, ExchangesAre, Zenon DEF Dlg!Reject, Form!Reject
<1>6. ASSUME Dlg!Send(c) PROVE Form!Send(c)
  BY <1>6, ExchangesAre, CopiesAre, Zenon DEF Dlg!Send, Form!Send
<1>7. ASSUME NEW success, Dlg!SendTold(c, success)
      PROVE  Form!SendTold(c, success)
  BY <1>7 DEF Dlg!SendTold, Form!SendTold
<1>13. ASSUME Dlg!Dismiss(c) PROVE Form!Dismiss(c)
  BY <1>13 DEF Dlg!Dismiss, Form!Dismiss
<1>14. ASSUME Dlg!SendThrows(c) PROVE Form!SendThrows(c)
  BY <1>14 DEF Dlg!SendThrows, Form!SendThrows
<1>8. ASSUME Dlg!OpenSettings(c) PROVE Form!OpenSettings(c)
  BY <1>1, <1>8 DEF Dlg!OpenSettings, Form!OpenSettings
<1>9. ASSUME Dlg!RejectSettings(c) PROVE Form!RejectSettings(c)
  BY <1>9, ExchangesAre, Zenon DEF Dlg!RejectSettings, Form!RejectSettings
<1>10. ASSUME Dlg!ConfirmSettings(c) PROVE Form!ConfirmSettings(c)
  BY <1>10, ExchangesAre, CopiesAre, Zenon
     DEF Dlg!ConfirmSettings, Form!ConfirmSettings
<1>11. ASSUME Dlg!CancelSettings(c) PROVE Form!CancelSettings(c)
  BY <1>11 DEF Dlg!CancelSettings, Form!CancelSettings
<1>12. ASSUME Dlg!Close(c) PROVE Form!Close(c)
  BY <1>1, <1>12 DEF Dlg!Close, Form!Close
<1> QED
  BY <1>2, <1>3, <1>4, <1>5, <1>6, <1>7, <1>8, <1>9, <1>10, <1>11, <1>12,
     <1>13, <1>14, FieldsAre DEF Form!Next

\* What it does with the file is a step of AppConfig.
LEMMA FileStep ==
  ASSUME NEW c \in Copies
  PROVE  /\ Cfg!Start(c) => Ini!Start(c)
         /\ Cfg!LoadKey(c) => Ini!LoadKey(c)
         /\ Cfg!Close(c) => Ini!Close(c)
         /\ Cfg!SaveKey(c) => Ini!SaveKey(c)
         /\ Cfg!Kill(c) => Ini!Kill(c)
<1>1. /\ \A d : Cfg!Busy(d) = Ini!Busy(d) /\ Cfg!Key(d) = Ini!Key(d)
      /\ \A g, k : /\ Cfg!Loaded(g, k) = Ini!Loaded(g, k)
                   /\ Cfg!Saved(g, k) = Ini!Saved(g, k)
      /\ \A k : Cfg!Default(k) = Ini!Default(k)
  BY DEF Cfg!Busy, Ini!Busy, Cfg!Key, Ini!Key, Cfg!Loaded, Ini!Loaded,
         Cfg!Saved, Ini!Saved, Cfg!Default, Ini!Default
<1>2. \A m : Cfg!SavedFile(m) = Ini!SavedFile(m)
  BY <1>1, KeysAre DEF Cfg!SavedFile, Ini!SavedFile
<1>3. Cfg!MayBegin(c) = Ini!MayBegin(c)
  BY <1>1 DEF Cfg!MayBegin, Ini!MayBegin
<1>11. \A f : Cfg!WholeFile(f) = Ini!WholeFile(f)
  BY DEF Cfg!WholeFile, Ini!WholeFile
<1>12. Cfg!SaveBegins(c) = Ini!SaveBegins(c)
  BY <1>2, <1>11, Zenon DEF Cfg!SaveBegins, Ini!SaveBegins
<1>4. \A d : Cfg!Advance(c, d) = Ini!Advance(c, d)
  BY DEF Cfg!Advance, Ini!Advance
<1>5. Cfg!SaveEnds(c) = Ini!SaveEnds(c)
  BY <1>2, <1>11, Zenon DEF Cfg!SaveEnds, Ini!SaveEnds
<1>6. Cfg!Start(c) => Ini!Start(c)
  BY <1>3 DEF Cfg!Start, Ini!Start
<1>7. Cfg!LoadKey(c) => Ini!LoadKey(c)
  BY <1>1, <1>4, Zenon DEF Cfg!LoadKey, Ini!LoadKey
<1>8. Cfg!Close(c) => Ini!Close(c)
  BY <1>1, <1>3, <1>12, Zenon DEF Cfg!Close, Ini!Close
<1>9. Cfg!SaveKey(c) => Ini!SaveKey(c)
  BY <1>1, <1>4, <1>5, Zenon DEF Cfg!SaveKey, Ini!SaveKey
<1>10. Cfg!Kill(c) => Ini!Kill(c)
  BY DEF Cfg!Kill, Ini!Kill
<1> QED  BY <1>6, <1>7, <1>8, <1>9, <1>10
-----------------------------------------------------------------------------
\* The port of a configuration, loaded or confirmed, is an unsigned short.
PortFits == \A c \in Copies : config[c]["port"] \in Shorts

\* The inductive invariant: the parts have their types, and their states match.
Matched == Ini!TypeOK /\ Form!TypeOK /\ WindowsMatch /\ PortFits

\* A configuration of AppConfig with such a port is one of the dialogs.
LEMMA ConfigsAre ==
  /\ \A m : m \in Ini!Configs <=> m \in Parts(AllKeys)
  /\ \A m : m \in AppConfigs <=> m \in Ini!Configs /\ m["port"] \in Shorts
  /\ Constructed["port"] \in Shorts
<1>1. Ini!Configs = Parts(AllKeys)  BY KeysAre DEF Ini!Configs, Parts
<1>2. Constructed["port"] = 0
  BY DEF Constructed, AllKeys, PrizeKeys, DbKeys, Names
<1>3. 0 \in Shorts  BY SMT DEF Shorts
<1> QED  BY <1>1, <1>2, <1>3 DEF AppConfigs

\* A text of the port is read as an unsigned short.
LEMMA PortLoaded ==
  ASSUME Ini!TypeOK
  PROVE  Ini!Loaded(file, "port") \in Shorts /\ Ini!Default("port") \in Shorts
<1>1. "port" \in Ini!KeySet  BY KeysAre DEF AllKeys, DbKeys
<1>2. file["port"] \in FileTexts["port"] /\ Absent \in FileTexts["port"]
  BY <1>1, IniAssumed DEF Ini!TypeOK, Ini!IsFile, Ini!ConfigAssumption
<1> QED  BY <1>2, AppAssumption DEF AppAssumption, Ini!Loaded, Ini!Default

\* The initial states match.
LEMMA MatchedInit == Init => Ini!Init /\ Form!Init /\ Matched
<1> SUFFICES ASSUME Init PROVE Ini!Init /\ Form!Init /\ Matched  OBVIOUS
<1>1. Ini!Init
  BY DEF Init, Cfg!Init, Ini!Init, Cfg!WholeFile, Ini!WholeFile
<1>2. Form!Init
  BY DEF Init, Dlg!Init, Form!Init, Dlg!PrizeKeys, Form!PrizeKeys,
         Dlg!Constructed, Form!Constructed, Dlg!AllKeys, Form!AllKeys,
         Dlg!DbKeys, Form!DbKeys, Dlg!Names, Form!Names, Dlg!Part, Form!Part
<1>3. Ini!TypeOK /\ Form!TypeOK
  BY <1>1, <1>2, Ini!TypeInit, Form!TypeInit, IniAssumed, FormAssumed
<1>4. WindowsMatch /\ PortFits
  BY <1>1, <1>2, ConfigsAre DEF Ini!Init, Form!Init, WindowsMatch, PortFits
<1> QED  BY <1>1, <1>2, <1>3, <1>4 DEF Matched

\* A step of the parts: they move together, or stay, and still match.
Joint == /\ [Ini!Next]_(Ini!vars) /\ [Form!Next]_(Form!vars)
         /\ WindowsMatch' /\ PortFits'

\* The dialogs do not see a configuration that is loaded, or saved.
LEMMA Unseen ==
  ASSUME UNCHANGED showing,
         \A c \in Copies : config'[c] = config[c] \/ window[c] = "none"
  PROVE  UNCHANGED Form!vars
  BY DEF showing, Form!vars, InUse

\* Copies load without a window until the last access.
LEMMA LoadJoint ==
  ASSUME Matched, NEW c \in Copies, Load(c)
  PROVE  Joint
<1> USE DEF Matched
<1>1. /\ Ini!LoadKey(c) /\ Ini!Next
  BY FileStep DEF Load, Ini!Next
<1>2. Ini!TypeOK'  BY <1>1, Ini!TypeStep, IniAssumed
<1>3. /\ phase[c] = "loading"
      /\ \A d \in Copies \ {c} : phase'[d] = phase[d] /\ config'[d] = config[d]
      /\ phase'[c] = IF next[c] = Len(FileKeys) THEN "running" ELSE "loading"
  BY <1>1 DEF Ini!LoadKey, Ini!Advance, Ini!TypeOK
<1>4. PortFits'
  <2>1. PICK v : config' = [config EXCEPT ![c][Ini!Key(c)] = v]
    BY <1>1 DEF Ini!LoadKey
  <2>2. CASE Ini!Key(c) = "port"
    <3>1. "port" \in AllKeys  BY DEF AllKeys, DbKeys
    <3>2. config[c] \in Parts(AllKeys)  BY ConfigsAre DEF Ini!TypeOK
    <3>3. DOMAIN config[c] = AllKeys  BY <3>2 DEF Parts
    <3>4. \/ config' = [config EXCEPT ![c]["port"] = Ini!Loaded(file, "port")]
          \/ config' = [config EXCEPT ![c]["port"] = Ini!Default("port")]
      BY <1>1, <2>2 DEF Ini!LoadKey
    <3>5. config'[c]["port"] \in {Ini!Loaded(file, "port"), Ini!Default("port")}
      BY <3>1, <3>3, <3>4 DEF Ini!TypeOK
    <3> QED  BY <1>3, <3>5, PortLoaded DEF PortFits
  <2>3. CASE Ini!Key(c) # "port"
    <3>1. config'[c]["port"] = config[c]["port"]
      BY <2>1, <2>3 DEF Ini!TypeOK
    <3> QED  BY <1>3, <3>1 DEF PortFits
  <2> QED  BY <2>2, <2>3
<1>5. CASE next[c] = Len(FileKeys)
  <2>1. Dlg!Open(c, config'[c])  BY <1>5 DEF Load
  <2>2. config'[c] \in AppConfigs
    BY <1>2, <1>4, ConfigsAre DEF Ini!TypeOK, PortFits
  <2>3. Form!Next  BY <2>1, <2>2, DialogStep
  <2>4. WindowsMatch'
    BY <1>3, <1>5, <2>1 DEF Dlg!Open, WindowsMatch, Form!TypeOK
  <2> QED  BY <1>1, <1>4, <2>3, <2>4 DEF Joint
<1>6. CASE next[c] # Len(FileKeys)
  <2>1. UNCHANGED showing /\ window[c] = "none"
    BY <1>3, <1>6 DEF Load, WindowsMatch
  <2>2. UNCHANGED Form!vars  BY <1>3, <2>1, Unseen
  <2>3. WindowsMatch'  BY <1>3, <1>6, <2>1 DEF WindowsMatch, showing
  <2> QED  BY <1>1, <1>4, <2>2, <2>3 DEF Joint
<1> QED  BY <1>5, <1>6

\* A configuration that the dialogs have changed is still one.
LEMMA ChangeJoint ==
  ASSUME Matched, NEW c \in Copies, NEW G \in {PrizeKeys, DbKeys}, NEW m,
         Cfg!Change(c, G, m), Form!Next,
         window[c] # "none", window'[c] # "none",
         \A d \in Copies \ {c} : window'[d] = window[d]
  PROVE  Joint
<1> USE DEF Matched
<1>1. Form!TypeOK'  BY Form!TypeStep, FormAssumed
<1>2. config'[c] \in AppConfigs
  <2>1. InUse'[c] \in AppConfigs  BY <1>1, FieldsAre DEF Form!TypeOK
  <2> QED  BY <2>1 DEF InUse
<1>3. /\ phase[c] = "running" /\ UNCHANGED phase
      /\ config' = [config EXCEPT ![c] =
             [k \in Ini!KeySet |-> IF k \in G THEN m[k] ELSE @[k]]]
  BY KeysAre DEF Cfg!Change
<1>4. PortFits'  BY <1>2, <1>3, ConfigsAre DEF PortFits, Ini!TypeOK
<1>5. Ini!Change(c, G, config'[c])
  <2>1. \A k \in Ini!KeySet :
            k \in G => config'[c][k] = m[k]
    BY <1>3 DEF Ini!TypeOK
  <2>2. config' = [config EXCEPT ![c] =
             [k \in Ini!KeySet |-> IF k \in G THEN config'[c][k] ELSE @[k]]]
    BY <1>3, <2>1
  <2> QED
    BY <1>3, <2>2 DEF Cfg!Change, Ini!Change, Cfg!history, Ini!history
<1>6. Ini!Next  BY <1>2, <1>5, ConfigsAre DEF Ini!Next
<1>7. WindowsMatch'  BY <1>3 DEF WindowsMatch
<1> QED  BY <1>4, <1>6, <1>7 DEF Joint

\* So it is after what leaves the configuration alone.
LEMMA DialogJoint ==
  ASSUME Matched, NEW c \in Copies, UNCHANGED storing, Form!Next,
         window[c] # "none", window'[c] # "none",
         \A d \in Copies \ {c} : window'[d] = window[d]
  PROVE  Joint
<1>1. UNCHANGED Ini!vars  BY DEF storing, Ini!vars, Ini!history
<1>2. WindowsMatch' /\ PortFits'
  BY DEF Matched, WindowsMatch, PortFits, storing
<1> QED  BY <1>1, <1>2 DEF Joint

\* And when the windows are closed.
LEMMA CloseJoint ==
  ASSUME Matched, NEW c \in Copies, Dlg!Close(c), Cfg!Close(c) \/ Cfg!Kill(c)
  PROVE  Joint
<1> USE DEF Matched
<1>1. Form!Next  BY DialogStep
<1>2. Ini!Next  BY FileStep DEF Ini!Next
<1>3. /\ phase'[c] # "running"
      /\ \A d \in Copies \ {c} : phase'[d] = phase[d]
      /\ config' = config \/ config' = [config EXCEPT ![c] = Constructed]
  BY DEF Cfg!Close, Cfg!Kill, Ini!TypeOK
<1>4. window' = [window EXCEPT ![c] = "none"]  BY DEF Dlg!Close
<1>5. WindowsMatch'  BY <1>3, <1>4 DEF WindowsMatch, Form!TypeOK
<1>6. PortFits'  BY <1>3, ConfigsAre DEF PortFits, Ini!TypeOK
<1> QED  BY <1>1, <1>2, <1>5, <1>6 DEF Joint

\* So it is with the steps of a copy that has no window, or gets none.
LEMMA UnseenJoint ==
  ASSUME Matched, NEW c \in Copies,
         \/ Launch(c) \/ Save(c)
         \/ Cfg!Kill(c) /\ window[c] = "none" /\ UNCHANGED showing
  PROVE  Joint
<1> USE DEF Matched
<1>1. Ini!Next /\ UNCHANGED showing  BY FileStep DEF Ini!Next, Launch, Save
<1>2. /\ window[c] = "none" /\ phase'[c] # "running"
      /\ \A d \in Copies \ {c} : phase'[d] = phase[d]
      /\ config' = config \/ config' = [config EXCEPT ![c] = Constructed]
  BY DEF Launch, Save, Cfg!Start, Cfg!SaveKey, Cfg!SaveEnds, Cfg!Advance,
         Cfg!Kill, Ini!TypeOK, WindowsMatch
<1>3. UNCHANGED Form!vars  BY <1>1, <1>2, Unseen DEF Ini!TypeOK
<1>4. WindowsMatch'  BY <1>1, <1>2 DEF WindowsMatch, showing
<1>5. PortFits'  BY <1>2, ConfigsAre DEF PortFits, Ini!TypeOK
<1> QED  BY <1>1, <1>3, <1>4, <1>5 DEF Joint

\* Every step is one of the parts, or leaves them alone.
LEMMA JointStep == Matched /\ [Next]_vars => Joint
<1> SUFFICES ASSUME Matched, [Next]_vars PROVE Joint  OBVIOUS
<1>1. ASSUME UNCHANGED <<storing, showing>> PROVE Joint
  BY <1>1 DEF Joint, Matched, storing, showing, Ini!vars, Ini!history,
              Form!vars, InUse, WindowsMatch, PortFits
<1>2. CASE UNCHANGED vars  BY <1>1, <1>2 DEF vars
<1>3. ASSUME NEW a \in asked, Deliver(a) PROVE Joint
  BY <1>1, <1>3 DEF Deliver
<1>4. ASSUME NEW c \in Copies, Launch(c) PROVE Joint  BY <1>4, UnseenJoint
<1>5. ASSUME NEW c \in Copies, Load(c) PROVE Joint  BY <1>5, LoadJoint
<1>6. ASSUME NEW c \in Copies, Edit(c) PROVE Joint
  <2>1. \A k \in AllKeys : Typed[k] \subseteq Texts[k]
    BY AppAssumption DEF AppAssumption
  <2>2. Form!Next
    BY <1>6, <2>1, DialogStep DEF Edit, AllKeys
  <2>3. /\ window[c] # "none" /\ window'[c] # "none"
        /\ \A d \in Copies \ {c} : window'[d] = window[d]
    BY <1>6 DEF Edit, Dlg!Type, Dlg!TypeSetting, Dlg!Reject, Dlg!OpenSettings,
                Dlg!RejectSettings, Dlg!CancelSettings, Dlg!Dismiss, Matched,
                Form!TypeOK
  <2> QED  BY <1>6, <2>2, <2>3, DialogJoint DEF Edit
<1>7. ASSUME NEW c \in Copies, Confirm(c) PROVE Joint
  <2>1. PICK m : Cfg!Change(c, DbKeys, m)  BY <1>7 DEF Confirm
  <2>2. Dlg!ConfirmSettings(c)  BY <1>7 DEF Confirm
  <2>3. /\ window[c] # "none" /\ window'[c] # "none"
        /\ \A d \in Copies \ {c} : window'[d] = window[d]
    BY <2>2 DEF Dlg!ConfirmSettings, Matched, Form!TypeOK
  <2> QED  BY <2>1, <2>2, <2>3, DialogStep, ChangeJoint
<1>8. ASSUME NEW c \in Copies, Send(c) PROVE Joint
  <2>1. PICK m : Cfg!Change(c, PrizeKeys, m)  BY <1>8 DEF Send
  <2>2. Dlg!Send(c)  BY <1>8 DEF Send
  <2>3. /\ window[c] # "none" /\ window'[c] # "none"
        /\ \A d \in Copies \ {c} : window'[d] = window[d]
    BY <2>2 DEF Dlg!Send, Matched, Form!TypeOK
  <2> QED  BY <2>1, <2>2, <2>3, DialogStep, ChangeJoint
<1>9. ASSUME NEW c \in Copies,
             Throw(c) \/ \E verdict \in {"sent", "refused", "in doubt"} :
                             Tell(c, verdict)
      PROVE  Joint
  <2>1. /\ UNCHANGED storing
        /\ \/ \E success \in BOOLEAN : Dlg!SendTold(c, success)
           \/ Dlg!SendThrows(c)
    BY <1>9 DEF Throw, Tell
  <2>2. /\ window[c] # "none" /\ window'[c] # "none"
        /\ \A d \in Copies \ {c} : window'[d] = window[d]
    BY <2>1 DEF Dlg!SendTold, Dlg!SendThrows, Matched, Form!TypeOK
  <2> QED  BY <2>1, <2>2, DialogStep, DialogJoint
<1>10. ASSUME NEW c \in Copies, Quit(c) PROVE Joint
  BY <1>10, CloseJoint DEF Quit
<1>11. ASSUME NEW c \in Copies, Save(c) PROVE Joint  BY <1>11, UnseenJoint
<1>12. ASSUME NEW c \in Copies, Kill(c) PROVE Joint
  BY <1>12, CloseJoint, UnseenJoint DEF Kill
<1> QED
  BY <1>2, <1>3, <1>4, <1>5, <1>6, <1>7, <1>8, <1>9, <1>10, <1>11, <1>12
     DEF Next

\* The tool keeps its types, and its windows match its file.
THEOREM MatchedAlways == Spec => []Matched
<1>1. ASSUME Matched, Joint PROVE Matched'
  <2>1. Ini!TypeOK'  BY <1>1, Ini!TypeStep, IniAssumed DEF Joint, Matched
  <2>2. Form!TypeOK'  BY <1>1, Form!TypeStep, FormAssumed DEF Joint, Matched
  <2> QED  BY <1>1, <2>1, <2>2 DEF Joint, Matched
<1>2. Matched /\ [Next]_vars => Matched'  BY <1>1, JointStep
<1> QED  BY <1>2, MatchedInit, PTL DEF Spec

\* The tool uses config.ini as AppConfig does, so FileInvariant, LastSaverIsKept,
\* SavesArePiecewise and OneStateLoaded hold of it.
THEOREM UsesFile == Spec => Ini!Spec
<1>1. Matched /\ [Next]_vars => [Ini!Next]_(Ini!vars)  BY JointStep DEF Joint
<1> QED  BY <1>1, MatchedInit, MatchedAlways, PTL DEF Spec, Ini!Spec

\* Its windows are those of PrizeDialog.
THEOREM ShowsDialogs == Spec => Form!Spec
<1>1. Matched /\ [Next]_vars => [Form!Next]_(Form!vars)  BY JointStep DEF Joint
<1> QED  BY <1>1, MatchedInit, MatchedAlways, PTL DEF Spec, Form!Spec

\* The windows of a copy are there when its configuration is loaded and not yet
\* being saved.
THEOREM WindowsFollow == Spec => []WindowsMatch
<1>1. Matched => WindowsMatch  BY DEF Matched
<1> QED  BY <1>1, MatchedAlways, PTL

\* In the tool, too, the configuration is what the operator has accepted.
THEOREM AppConfigAccepted == Spec => []Form!ConfigAsAccepted
<1>1. Form!Spec => []Form!ConfigAsAccepted
  BY Form!ConfigIsAccepted, FormAssumed
<1> QED  BY <1>1, ShowsDialogs, PTL
-----------------------------------------------------------------------------
\* A dialog leaves those of the other copies alone.
LEMMA OthersStay ==
  ASSUME Form!TypeOK, NEW c \in Copies, NEW d \in Copies \ {c},
         \/ \E new : Dlg!Open(c, new)
         \/ \E k, text : Dlg!Type(c, k, text) \/ Dlg!TypeSetting(c, k, text)
         \/ \E success : Dlg!SendTold(c, success)
         \/ Dlg!Reject(c) \/ Dlg!Send(c) \/ Dlg!Dismiss(c) \/ Dlg!SendThrows(c)
         \/ Dlg!OpenSettings(c) \/ Dlg!RejectSettings(c)
         \/ Dlg!ConfirmSettings(c) \/ Dlg!CancelSettings(c) \/ Dlg!Close(c)
  PROVE  /\ window'[d] = window[d] /\ controls'[d] = controls[d]
         /\ accepted'[d] = accepted[d]
BY DEF Form!TypeOK, Dlg!Open, Dlg!Type, Dlg!TypeSetting, Dlg!Reject, Dlg!Send,
       Dlg!SendTold, Dlg!Dismiss, Dlg!SendThrows, Dlg!OpenSettings,
       Dlg!RejectSettings, Dlg!ConfirmSettings, Dlg!CancelSettings, Dlg!Close,
       Dlg!Accept

\* Of the steps of a copy only Send is followed by a send.
LEMMA OnlySends ==
  ASSUME Form!TypeOK, NEW c \in Copies, window'[c] = "sending",
         \/ \E new : Dlg!Open(c, new)
         \/ \E k, text : Dlg!Type(c, k, text) \/ Dlg!TypeSetting(c, k, text)
         \/ \E success : Dlg!SendTold(c, success)
         \/ Dlg!Reject(c) \/ Dlg!Dismiss(c) \/ Dlg!SendThrows(c)
         \/ Dlg!OpenSettings(c) \/ Dlg!RejectSettings(c)
         \/ Dlg!ConfirmSettings(c) \/ Dlg!CancelSettings(c) \/ Dlg!Close(c)
  PROVE  FALSE
BY DEF Form!TypeOK, Dlg!Open, Dlg!Type, Dlg!TypeSetting, Dlg!Reject,
       Dlg!SendTold, Dlg!Dismiss, Dlg!SendThrows, Dlg!OpenSettings,
       Dlg!RejectSettings, Dlg!ConfirmSettings, Dlg!CancelSettings, Dlg!Close

\* The sends of every copy are counted.
SendsCounted == sends = [c \in Copies |-> sends[c]]

\* OnSendBnClicked gives such an order.
LEMMA SendAsks ==
  ASSUME Matched, Form!ConfigAsAccepted, SendsCounted, NEW c \in Copies, Send(c)
  PROVE  Sent(c)' \in asked'
<1> DEFINE m == Dlg!Exchanged(Dlg!FormSteps, controls[c], members[c])
<1> USE DEF Matched
<1>1. [by |-> <<c, sends[c] + 1>>,
       order |-> [prize |-> m, db |-> Part(config[c], DbKeys)]] \in asked'
  BY DEF Send, Delivery!Ask
<1>2. sends'[c] = sends[c] + 1  BY DEF Send, SendsCounted
<1>3. Dlg!Send(c) /\ Form!Send(c) /\ window[c] = "main" /\ controls' = controls
  BY ExchangesAre, CopiesAre, Zenon DEF Send, Dlg!Send, Form!Send
<1>4. /\ members'[c] \in Parts(PrizeKeys)
      /\ members'[c] = Dlg!Seen(controls[c])
      /\ accepted' = [accepted EXCEPT
                          ![c] = Form!Merged(accepted[c], members'[c])]
  BY <1>3, Form!SendIs, FormAssumed, FieldsAre, ExchangesAre
<1>5. m = Dlg!Seen(controls[c])
  BY <1>3, <1>4 DEF Dlg!Send, Form!TypeOK
<1>6. accepted[c] = config[c]
  BY <1>3 DEF Form!ConfigAsAccepted, InUse
<1>7. Part(accepted'[c], DbKeys) = Part(config[c], DbKeys)
  <2>1. DOMAIN members'[c] = PrizeKeys  BY <1>4 DEF Parts
  <2>2. \A k \in DbKeys : k \in Form!AllKeys /\ k \notin PrizeKeys
    BY FieldsAre DEF AllKeys, PrizeKeys, DbKeys
  <2>3. accepted'[c] = Form!Merged(accepted[c], members'[c])
    BY <1>4 DEF Form!TypeOK
  <2>4. \A k \in DbKeys : accepted'[c][k] = accepted[c][k]
    BY <2>1, <2>2, <2>3 DEF Form!Merged
  <2> QED  BY <2>4, <1>6 DEF Part
<1>8. Dlg!Seen(controls'[c]) = m  BY <1>3, <1>5
<1> QED  BY <1>1, <1>2, <1>7, <1>8 DEF Sent, Current

\* Every step keeps the orders of the sends that run.
LEMMA ConfirmedStep ==
  Matched /\ Form!ConfigAsAccepted /\ SendsCounted /\ SendsAsConfirmed
      /\ [Next]_vars
      => SendsCounted' /\ SendsAsConfirmed'
<1> SUFFICES ASSUME Matched, Form!ConfigAsAccepted, SendsCounted,
                    SendsAsConfirmed, [Next]_vars
             PROVE  SendsCounted' /\ SendsAsConfirmed'
  OBVIOUS
<1>1. ASSUME asked \subseteq asked',
             \A d \in Copies : window'[d] = "sending" =>
                 \/ Sent(d)' \in asked'
                 \/ /\ window[d] = "sending" /\ controls'[d] = controls[d]
                    /\ accepted'[d] = accepted[d] /\ sends'[d] = sends[d]
      PROVE  SendsAsConfirmed'
  <2> SUFFICES ASSUME NEW d \in Copies, window'[d] = "sending"
               PROVE  Sent(d)' \in asked'
    BY DEF SendsAsConfirmed
  <2>1. CASE Sent(d)' \in asked'  BY <2>1
  <2>2. CASE /\ window[d] = "sending" /\ controls'[d] = controls[d]
             /\ accepted'[d] = accepted[d] /\ sends'[d] = sends[d]
    <3>1. Sent(d) \in asked  BY <2>2 DEF SendsAsConfirmed
    <3>2. Sent(d)' = Sent(d)  BY <2>2 DEF Sent, Current
    <3> QED  BY <1>1, <3>1, <3>2
  <2> QED  BY <1>1, <2>1, <2>2
<1>2. ASSUME UNCHANGED <<showing, asked, sends>>
      PROVE  SendsCounted' /\ SendsAsConfirmed'
  BY <1>1, <1>2 DEF showing, SendsCounted
<1>3. CASE UNCHANGED vars  BY <1>2, <1>3 DEF vars, sending
<1>4. ASSUME NEW a \in asked, Deliver(a)
      PROVE  SendsCounted' /\ SendsAsConfirmed'
  BY <1>2, <1>4 DEF Deliver, Delivery!Deliver
<1>5. ASSUME NEW c \in Copies, Launch(c) \/ Save(c)
      PROVE  SendsCounted' /\ SendsAsConfirmed'
  BY <1>2, <1>5 DEF Launch, Save, sending
<1>6. ASSUME NEW c \in Copies, UNCHANGED <<asked, sends>>,
             \/ \E new : Dlg!Open(c, new)
             \/ \E k, text : Dlg!Type(c, k, text) \/ Dlg!TypeSetting(c, k, text)
             \/ \E success : Dlg!SendTold(c, success)
             \/ Dlg!Reject(c) \/ Dlg!Dismiss(c) \/ Dlg!SendThrows(c)
             \/ Dlg!OpenSettings(c) \/ Dlg!RejectSettings(c)
             \/ Dlg!ConfirmSettings(c) \/ Dlg!CancelSettings(c) \/ Dlg!Close(c)
      PROVE  SendsCounted' /\ SendsAsConfirmed'
  <2>1. Form!TypeOK  BY DEF Matched
  <2>2. \A d \in Copies : window'[d] = "sending" =>
            /\ window[d] = "sending" /\ controls'[d] = controls[d]
            /\ accepted'[d] = accepted[d] /\ sends'[d] = sends[d]
    BY <1>6, <2>1, OthersStay, OnlySends
  <2> QED  BY <1>1, <1>6, <2>2 DEF SendsCounted
<1>7. ASSUME NEW c \in Copies, Load(c) PROVE SendsCounted' /\ SendsAsConfirmed'
  BY <1>2, <1>6, <1>7 DEF Load, sending
<1>8. ASSUME NEW c \in Copies, Edit(c) PROVE SendsCounted' /\ SendsAsConfirmed'
  BY <1>6, <1>8 DEF Edit, sending
<1>9. ASSUME NEW c \in Copies,
             \/ Confirm(c) \/ Throw(c) \/ Quit(c) \/ Kill(c)
             \/ \E verdict \in {"sent", "refused", "in doubt"} :
                    Tell(c, verdict)
      PROVE  SendsCounted' /\ SendsAsConfirmed'
  BY <1>2, <1>6, <1>9
     DEF Confirm, Throw, Quit, Kill, Tell, Delivery!Tell, sending
<1>10. ASSUME NEW c \in Copies, Send(c) PROVE SendsCounted' /\ SendsAsConfirmed'
  <2>1. /\ Dlg!Send(c) /\ sends' = [sends EXCEPT ![c] = @ + 1]
        /\ asked \subseteq asked'
    BY <1>10 DEF Send, Delivery!Ask
  <2>2. SendsCounted'  BY <2>1 DEF SendsCounted
  <2>3. Sent(c)' \in asked'  BY <1>10, SendAsks
  <2>4. \A d \in Copies \ {c} :
            /\ window'[d] = window[d] /\ controls'[d] = controls[d]
            /\ accepted'[d] = accepted[d]
    BY <2>1, OthersStay DEF Matched
  <2>5. \A d \in Copies \ {c} : sends'[d] = sends[d]  BY <2>1 DEF SendsCounted
  <2> QED  BY <1>1, <2>1, <2>2, <2>3, <2>4, <2>5
<1> QED
  BY <1>3, <1>4, <1>5, <1>7, <1>8, <1>9, <1>10 DEF Next

\* A send goes, with the form as it is shown, to the database confirmed last.
THEOREM SendsConfirmed == Spec => []SendsAsConfirmed
<1>1. Init => SendsCounted /\ SendsAsConfirmed
  BY MatchedInit DEF Init, SendsCounted, SendsAsConfirmed, Form!Init
<1> QED
  BY <1>1, ConfirmedStep, MatchedAlways, AppConfigAccepted, PTL DEF Spec
-----------------------------------------------------------------------------
Order == INSTANCE PrizeDeliveryProofs WITH Requests <- Ids

\* There are as many orders as sends, so that the bound on the orders bounds the
\* sends of each copy.
AskedCounted ==
    /\ IsFiniteSet(asked)
    /\ sends \in [Copies -> Nat]
    /\ \A c \in Copies : \A i \in 1..sends[c] : \E a \in asked : a.by = <<c, i>>

\* A copy has sent no more than all of them have.
LEMMA SendsBounded ==
  ASSUME AskedCounted, NEW c \in Copies
  PROVE  Cardinality(asked) \in Nat /\ sends[c] <= Cardinality(asked)
<1> DEFINE f == [i \in 1..sends[c] |-> CHOOSE a \in asked : a.by = <<c, i>>]
<1>1. \A i \in 1..sends[c] : f[i] \in asked /\ f[i].by = <<c, i>>
  BY DEF AskedCounted
<1>2. f \in Injection(1..sends[c], asked)
  <2>1. f \in [1..sends[c] -> asked]  BY <1>1
  <2> HIDE DEF f
  <2>2. ASSUME NEW i \in 1..sends[c], NEW j \in 1..sends[c], f[i] = f[j]
        PROVE  i = j
    <3>1. <<c, i>> = <<c, j>>  BY <1>1, <2>2
    <3> QED  BY <3>1
  <2> QED  BY <2>1, <2>2 DEF Injection, IsInjective
<1>3. Cardinality(1..sends[c]) <= Cardinality(asked)
  BY <1>2, FS_Injection DEF AskedCounted, ExistsInjection
<1>4. sends[c] \in Nat  BY DEF AskedCounted
<1>5. Cardinality(1..sends[c]) = sends[c]  BY <1>4, FS_Interval
<1>6. Cardinality(asked) \in Nat  BY FS_CardinalityType DEF AskedCounted
<1> QED  BY <1>3, <1>4, <1>5, <1>6

\* Only a send changes the orders and counts.
LEMMA AskedStays ==
  ASSUME [Next]_vars, \A c \in Copies : ~Send(c)
  PROVE  /\ UNCHANGED <<asked, sends>>
         /\ \/ UNCHANGED <<verdicts, delivered>>
            \/ \E a \in asked : Deliver(a)
            \/ \E c \in Copies, verdict \in {"sent", "refused", "in doubt"} :
                   Tell(c, verdict)
  BY DEF Next, vars, sending, Launch, Load, Edit, Confirm, Throw, Quit, Save,
         Kill, Tell, Deliver, Delivery!Tell, Delivery!Deliver

\* Every step keeps the count, and is a step of the delivery or none.
LEMMA DeliveryAppStep ==
  ASSUME Matched, Form!ConfigAsAccepted, SendsAsConfirmed, AskedCounted,
         [Next]_vars
  PROVE  AskedCounted' /\ [Order!Next]_(Order!vars)
<1>1. CASE \A c \in Copies : ~Send(c)
  <2>1. AskedCounted'  BY <1>1, AskedStays DEF AskedCounted
  <2>2. CASE UNCHANGED <<verdicts, delivered>>
    BY <1>1, <2>1, <2>2, AskedStays DEF Order!vars
  <2>3. ASSUME NEW a \in asked, Deliver(a) PROVE Order!Next
    BY <2>3 DEF Deliver, Delivery!Deliver, Order!Deliver, Order!Next,
                Delivery!Delivered, Order!Delivered
  <2>4. ASSUME NEW c \in Copies,
               NEW verdict \in {"sent", "refused", "in doubt"}, Tell(c, verdict)
        PROVE  Order!Next
    <3>1. Sent(c) \in asked /\ Sent(c).by = Current(c)
      BY <2>4 DEF Tell, SendsAsConfirmed, Sent
    <3>2. Order!Tell(Current(c), verdict)
      BY <2>4 DEF Tell, Delivery!Tell, Order!Tell, Delivery!Told, Order!Told,
                  Delivery!Delivered, Order!Delivered
    <3> QED  BY <3>1, <3>2 DEF Order!Next
  <2> QED  BY <1>1, <2>1, <2>2, <2>3, <2>4, AskedStays
<1>2. ASSUME NEW c \in Copies, Send(c)
      PROVE  AskedCounted' /\ Order!Next
  <2> DEFINE i == <<c, sends[c] + 1>>
             m == Dlg!Exchanged(Dlg!FormSteps, controls[c], members[c])
             o == [prize |-> m, db |-> Part(config[c], DbKeys)]
  <2>1. /\ Delivery!Ask(i, o) /\ sends' = [sends EXCEPT ![c] = @ + 1]
        /\ Cardinality(asked) < MaxSends
    BY <1>2 DEF Send
  <2>2. i \in Ids
    <3>1. sends[c] \in Nat /\ MaxSends \in Nat
      BY AppAssumption DEF AppAssumption, AskedCounted
    <3>2. sends[c] <= Cardinality(asked) /\ Cardinality(asked) \in Nat
      BY SendsBounded
    <3>3. sends[c] + 1 \in 1..MaxSends  BY <2>1, <3>1, <3>2
    <3> QED  BY <3>3 DEF Ids
  <2>3. o \in Orders
    <3>1. m \in Parts(PrizeKeys)
      <4>1. Form!Send(c) /\ Dlg!Send(c)
        BY <1>2, ExchangesAre, CopiesAre, Zenon DEF Send, Dlg!Send, Form!Send
      <4>2. members'[c] \in Parts(PrizeKeys)
        BY <4>1, Form!SendIs, FormAssumed, FieldsAre, ExchangesAre DEF Matched
      <4> QED  BY <4>1, <4>2 DEF Dlg!Send, Matched, Form!TypeOK
    <3>2. Part(config[c], DbKeys) \in Parts(DbKeys)
      <4>1. config[c] \in Parts(AllKeys)
        BY ConfigsAre DEF Matched, Ini!TypeOK
      <4> QED  BY <4>1 DEF Part, Parts, AllKeys
    <3> QED  BY <3>1, <3>2 DEF Orders
  <2>4. Order!Ask(i, o)  BY <2>1 DEF Delivery!Ask, Order!Ask
  <2>5. asked' = asked \cup {[by |-> i, order |-> o]}
    BY <2>1 DEF Delivery!Ask
  <2>6. AskedCounted'
    <3>1. IsFiniteSet(asked')
      BY <2>5, FS_AddElement DEF AskedCounted
    <3>2. sends' \in [Copies -> Nat] /\ sends'[c] = sends[c] + 1
          /\ \A d \in Copies : d # c => sends'[d] = sends[d]
      BY <2>1 DEF AskedCounted
    <3>3. ASSUME NEW d \in Copies, NEW j \in 1..sends'[d]
          PROVE  \E a \in asked' : a.by = <<d, j>>
      <4>1. CASE j \in 1..sends[d]
        BY <2>5, <4>1 DEF AskedCounted
      <4>2. CASE j \notin 1..sends[d]
        <5>1. d = c /\ j = sends[c] + 1
          BY <3>2, <4>2 DEF AskedCounted
        <5>2. [by |-> i, order |-> o] \in asked'  BY <2>5
        <5>3. [by |-> i, order |-> o].by = <<d, j>>  BY <5>1
        <5> QED  BY <5>2, <5>3
      <4> QED  BY <4>1, <4>2
    <3> QED  BY <3>1, <3>2, <3>3 DEF AskedCounted
  <2> QED  BY <2>2, <2>3, <2>4, <2>6 DEF Order!Next
<1> QED  BY <1>1, <1>2

\* What the tool delivers and tells keeps the promise of PrizeDelivery, whatever
\* its dialogs, its file and the end of its copies do in between.
THEOREM ToolKeepsPromise ==
  Spec => Order!Spec /\ [](Order!TypeOK /\ Order!Promised)
<1>1. Init => Order!Init /\ AskedCounted
  <2>1. IsFiniteSet({})  BY FS_EmptySet
  <2> QED  BY <2>1 DEF Init, Delivery!Init, Order!Init, AskedCounted
<1>2. Matched /\ Form!ConfigAsAccepted /\ SendsAsConfirmed /\ AskedCounted
          /\ [Next]_vars => AskedCounted' /\ [Order!Next]_(Order!vars)
  BY DeliveryAppStep
<1>3. Spec => Order!Spec
  BY <1>1, <1>2, MatchedAlways, AppConfigAccepted, SendsConfirmed, PTL
     DEF Spec, Order!Spec
<1>4. Order!Spec => [](Order!TypeOK /\ Order!Promised)  BY Order!PromiseHolds
<1> QED  BY <1>3, <1>4, PTL

\* A success box tells of the prize that the operator sees, in the database that
\* the operator confirmed; a failure box that does not name the execution of the
\* INSERT tells of one that has not arrived.
THEOREM ToolTellsTruth == Spec => TellsTruth
<1> DEFINE A == \A c \in Copies : \A v \in verdicts' \ verdicts :
               v.by = Current(c) =>
                   /\ v.verdict = "sent" =>
                          \E k \in DOMAIN delivered : delivered[k] = Sent(c)
                   /\ v.verdict = "refused" =>
                          \A k \in DOMAIN delivered : delivered[k].by # v.by
<1>1. SendsAsConfirmed /\ Order!Promised /\ [Next]_vars => [A]_vars
  <2> SUFFICES ASSUME SendsAsConfirmed, Order!Promised, [Next]_vars,
                      NEW c \in Copies, NEW v \in verdicts' \ verdicts,
                      v.by = Current(c)
               PROVE  /\ v.verdict = "sent" =>
                             \E k \in DOMAIN delivered : delivered[k] = Sent(c)
                      /\ v.verdict = "refused" =>
                             \A k \in DOMAIN delivered : delivered[k].by # v.by
    OBVIOUS
  <2>1. verdicts' # verdicts  OBVIOUS
  <2>2. PICK d \in Copies, verdict \in {"sent", "refused", "in doubt"} :
            Tell(d, verdict)
    BY <2>1, AskedStays DEF Send, Delivery!Ask, Deliver, Delivery!Deliver
  <2>3. /\ window[d] = "sending" /\ v = [by |-> Current(d), verdict |-> verdict]
        /\ verdict = "sent" => Delivery!Delivered(Current(d))
        /\ verdict = "refused" => ~Delivery!Delivered(Current(d))
    BY <2>2 DEF Tell, Delivery!Tell
  <2>4. d = c  BY <2>3 DEF Current
  <2>5. CASE verdict = "sent"
    <3>1. PICK k \in DOMAIN delivered : delivered[k].by = Current(c)
      BY <2>3, <2>4, <2>5 DEF Delivery!Delivered
    <3>2. delivered[k] \in asked /\ Sent(c) \in asked /\ Sent(c).by = Current(c)
      BY <2>3, <2>4
         DEF Order!Promised, Order!ArrivesAsAsked, SendsAsConfirmed, Sent
    <3>3. delivered[k] = Sent(c)
      BY <3>1, <3>2 DEF Order!Promised, Order!OneEach
    <3> QED  BY <2>3, <2>5, <3>3
  <2>6. CASE verdict # "sent"
    BY <2>3, <2>4, <2>6 DEF Delivery!Delivered
  <2> QED  BY <2>5, <2>6
<1> QED
  BY <1>1, SendsConfirmed, ToolKeepsPromise, PTL DEF Spec, TellsTruth
-----------------------------------------------------------------------------
\* The store of AppConfigProps and that of AppConfigProofs are the same.
LEMMA StoresAre ==
  /\ Ini!Store!Init => Files!Store!Init
  /\ [Ini!Store!Next]_(Ini!Store!vars) => [Files!Store!Next]_(Files!Store!vars)
BY DEF Ini!Store!Init, Files!Store!Init,
       Ini!Store!Next, Files!Store!Next, Ini!Store!vars, Files!Store!vars,
       Ini!Store!Open, Files!Store!Open, Ini!Store!Assign, Files!Store!Assign,
       Ini!Store!Save, Files!Store!Save, Ini!Store!Die, Files!Store!Die,
       Ini!Store!Leave, Files!Store!Leave, Ini!Running, Files!Running,
       Ini!Saving, Files!Saving, Ini!SavedFile, Files!SavedFile,
       Ini!Saved, Files!Saved, Ini!Configs, Files!Configs,
       Ini!KeySet, Files!KeySet

\* The ten accesses of a load or of a save are one step of a store, whatever the
\* dialogs and sends of the copies do, where accesses succeed and copies are
\* opened and closed one after the other.
THEOREM ToolKeepsStore ==
  ASSUME Ini!Orderly
  PROVE  Spec => KeepsStore
<1>1. Ini!Spec => Ini!KeepsStore  BY Ini!FileImplementsStore, IniAssumed
<1>2. Ini!KeepsStore => KeepsStore
  BY StoresAre, PTL
     DEF KeepsStore, Files!KeepsStore, Ini!KeepsStore, Ini!Store!Spec,
         Files!Store!Spec
<1> QED  BY <1>1, <1>2, UsesFile, PTL

\* What the copy that was closed last had confirmed is in the store.
LeftStored == left # Constructed => Ini!StoredFile = Ini!SavedFile(left)

\* It stays until another copy is closed.
LEMMA LeftStep ==
  ASSUME Ini!Orderly, Matched, Matched', Ini!OneBusy, Ini!OneBusy', Ini!FileInv,
         Ini!FileInv', Form!ConfigAsAccepted, LeftStored, [Next]_vars
  PROVE  LeftStored'
<1> USE DEF Matched
<1>1. ASSUME left' = left, Ini!StoredFile' = Ini!StoredFile PROVE LeftStored'
  BY <1>1 DEF LeftStored, Ini!SavedFile, Ini!Saved
<1>2. ASSUME UNCHANGED storing, left' = left PROVE LeftStored'
  BY <1>1, <1>2
     DEF storing, Ini!StoredFile, Ini!SavedFile, Ini!Saved, Ini!Saving
<1>3. ASSUME NEW c \in Copies, left' = left,
             \/ Cfg!Start(c) \/ Cfg!LoadKey(c) \/ Cfg!SaveKey(c) \/ Cfg!Kill(c)
      PROVE  LeftStored'
  BY <1>1, <1>3, FileStep, Ini!StoredKept, IniAssumed
<1>4. ASSUME NEW c \in Copies, Quit(c) PROVE LeftStored'
  <2>1. Ini!Close(c) /\ left' = accepted[c] /\ window[c] = "main"
    BY <1>4, FileStep DEF Quit
  <2>2. accepted[c] = config[c]  BY <2>1 DEF Form!ConfigAsAccepted, InUse
  <2> QED
    BY <2>1, <2>2, Ini!StoredSaved, IniAssumed DEF LeftStored
<1>5. CASE UNCHANGED vars  BY <1>2, <1>5 DEF vars
<1>6. ASSUME NEW a \in asked, Deliver(a) PROVE LeftStored'
  BY <1>2, <1>6 DEF Deliver
<1>7. ASSUME NEW c \in Copies, Launch(c) \/ Load(c) \/ Save(c) \/ Kill(c)
      PROVE  LeftStored'
  BY <1>3, <1>7 DEF Launch, Load, Save, Kill
<1>8. ASSUME NEW c \in Copies,
             \/ Edit(c) \/ Throw(c)
             \/ \E verdict \in {"sent", "refused", "in doubt"} :
                    Tell(c, verdict)
      PROVE  LeftStored'
  BY <1>2, <1>8 DEF Edit, Throw, Tell
<1>9. ASSUME NEW c \in Copies, Confirm(c) \/ Send(c) PROVE LeftStored'
  <2>1. /\ phase' = phase /\ file' = file /\ left' = left
        /\ phase[c] = "running"
        /\ \A d \in Copies \ {c} : config'[d] = config[d]
    BY <1>9 DEF Confirm, Send, Cfg!Change, Cfg!history, Ini!TypeOK
  <2>2. Ini!Saving' = Ini!Saving /\ \A d \in Ini!Saving : config'[d] = config[d]
    BY <2>1 DEF Ini!Saving
  <2>3. Ini!StoredFile' = Ini!StoredFile
    BY <2>1, <2>2, Ini!StoredStays, IniAssumed
  <2> QED  BY <1>1, <2>1, <2>3
<1> QED
  BY <1>4, <1>5, <1>6, <1>7, <1>8, <1>9 DEF Next

\* The main dialog of a copy opens with the last access of its load.
LEMMA OpensByLoad ==
  ASSUME Matched, [Next]_vars, NEW c \in Copies,
         window[c] = "none", window'[c] = "main"
  PROVE  Load(c) /\ next[c] = Len(FileKeys)
<1> USE DEF Matched
<1>1. ASSUME UNCHANGED showing PROVE FALSE  BY <1>1 DEF showing
<1>2. ASSUME NEW d \in Copies,
             \/ \E k, text : Dlg!Type(d, k, text) \/ Dlg!TypeSetting(d, k, text)
             \/ \E success : Dlg!SendTold(d, success)
             \/ Dlg!Reject(d) \/ Dlg!Send(d) \/ Dlg!Dismiss(d)
             \/ Dlg!SendThrows(d)
             \/ Dlg!OpenSettings(d) \/ Dlg!RejectSettings(d)
             \/ Dlg!ConfirmSettings(d) \/ Dlg!CancelSettings(d) \/ Dlg!Close(d)
      PROVE  FALSE
  <2>1. window[d] # "none"
    BY <1>2 DEF Dlg!Type, Dlg!TypeSetting, Dlg!Reject, Dlg!Send, Dlg!SendTold,
                Dlg!Dismiss, Dlg!SendThrows, Dlg!OpenSettings,
                Dlg!RejectSettings, Dlg!ConfirmSettings, Dlg!CancelSettings,
                Dlg!Close
  <2>2. window'[c] = window[c]  BY <1>2, <2>1, OthersStay
  <2> QED  BY <2>2
<1>3. ASSUME NEW d \in Copies, NEW new, Dlg!Open(d, new) PROVE d = c
  BY <1>3, OthersStay
<1>4. CASE UNCHANGED vars  BY <1>1, <1>4 DEF vars
<1>5. ASSUME NEW a \in asked, Deliver(a) PROVE FALSE  BY <1>1, <1>5 DEF Deliver
<1>6. ASSUME NEW d \in Copies, Launch(d) \/ Save(d) PROVE FALSE
  BY <1>1, <1>6 DEF Launch, Save
<1>7. ASSUME NEW d \in Copies, Load(d) PROVE d = c /\ next[c] = Len(FileKeys)
  BY <1>1, <1>3, <1>7 DEF Load
<1>8. ASSUME NEW d \in Copies,
             \/ Edit(d) \/ Confirm(d) \/ Send(d) \/ Throw(d) \/ Quit(d)
             \/ Kill(d)
             \/ \E verdict \in {"sent", "refused", "in doubt"} :
                    Tell(d, verdict)
      PROVE  FALSE
  BY <1>1, <1>2, <1>8 DEF Edit, Confirm, Send, Throw, Quit, Kill, Tell
<1> QED  BY <1>4, <1>5, <1>6, <1>7, <1>8 DEF Next

\* An undisturbed save writes what the copy closed last had confirmed, and an
\* undisturbed file holds it.
LeftWritten ==
    /\ \A c \in Copies : phase[c] = "saving" /\ alone[c] => config[c] = left
    /\ whole # NoFile /\ left # Constructed => whole = Ini!SavedFile(left)

\* Whatever fails, dies or overlaps keeps that true.
LEMMA WrittenStep ==
  ASSUME Matched, Form!ConfigAsAccepted, LeftWritten, [Next]_vars
  PROVE  LeftWritten'
<1> USE DEF Matched, Ini!TypeOK
<1>1. ASSUME left' = left, whole' = whole,
             \A c \in Copies : phase'[c] = "saving" /\ alone'[c] =>
                 phase[c] = "saving" /\ alone[c] /\ config'[c] = config[c]
      PROVE  LeftWritten'
  BY <1>1 DEF LeftWritten, Ini!SavedFile, Ini!Saved
<1>2. ASSUME UNCHANGED storing, left' = left PROVE LeftWritten'
  BY <1>1, <1>2 DEF storing
<1>3. ASSUME NEW c \in Copies, left' = left,
             Ini!Start(c) \/ Ini!LoadKey(c) \/ Ini!Kill(c)
      PROVE  LeftWritten'
  <2>1. CASE Ini!Start(c)  BY <1>1, <1>3, <2>1 DEF Ini!Start
  <2>2. CASE Ini!LoadKey(c)
    BY <1>1, <1>3, <2>2 DEF Ini!LoadKey, Ini!Advance
  <2>3. CASE Ini!Kill(c)  BY <1>1, <1>3, <2>3 DEF Ini!Kill
  <2> QED  BY <1>3, <2>1, <2>2, <2>3
<1>4. ASSUME NEW c \in Copies, Confirm(c) \/ Send(c) PROVE LeftWritten'
  <2>1. /\ UNCHANGED <<phase, alone, whole, left>> /\ phase[c] = "running"
        /\ \A d \in Copies \ {c} : config'[d] = config[d]
    BY <1>4 DEF Confirm, Send, Cfg!Change, Cfg!history
  <2> QED  BY <1>1, <2>1
<1>5. ASSUME NEW c \in Copies, Save(c) PROVE LeftWritten'
  <2>1. Ini!SaveKey(c) /\ left' = left  BY <1>5, FileStep DEF Save
  <2>2. \A d \in Copies \ {c} : /\ phase'[d] = phase[d] /\ alone'[d] = alone[d]
                              /\ config'[d] = config[d]
    BY <2>1 DEF Ini!SaveKey, Ini!SaveEnds, Ini!Advance
  <2>3. phase[c] = "saving" /\ (alone'[c] => alone[c])
    BY <2>1 DEF Ini!SaveKey
  <2>4. CASE next[c] # Len(FileKeys)
    BY <1>1, <2>1, <2>2, <2>3, <2>4 DEF Ini!SaveKey, Ini!SaveEnds
  <2>5. CASE next[c] = Len(FileKeys)
    <3>1. /\ phase'[c] = "closed"
          /\ whole' = IF alone'[c] THEN Ini!SavedFile(config[c]) ELSE NoFile
      BY <2>1, <2>5 DEF Ini!SaveKey, Ini!SaveEnds, Ini!Advance
    <3>2. whole' # NoFile => whole' = Ini!SavedFile(left)
      BY <2>3, <3>1 DEF LeftWritten
    <3> QED
      BY <2>1, <2>2, <3>1, <3>2 DEF LeftWritten, Ini!SavedFile, Ini!Saved
  <2> QED  BY <2>4, <2>5
<1>6. ASSUME NEW c \in Copies, Quit(c) PROVE LeftWritten'
  <2>1. Ini!Close(c) /\ left' = accepted[c] /\ window[c] = "main"
    BY <1>6, FileStep DEF Quit
  <2>2. accepted[c] = config[c]  BY <2>1 DEF Form!ConfigAsAccepted, InUse
  <2>3. whole' = NoFile /\ config' = config  BY <2>1 DEF Ini!Close
  <2>4. ASSUME NEW d \in Copies \ {c}, phase'[d] = "saving" PROVE ~alone'[d]
    <3>1. Ini!Busy(d)  BY <2>1, <2>4 DEF Ini!Close, Ini!Busy
    <3> QED  BY <2>1, <3>1 DEF Ini!Close
  <2>5. ASSUME NEW d \in Copies, phase'[d] = "saving", alone'[d]
        PROVE  config'[d] = left'
    <3>1. CASE d = c  BY <2>1, <2>2, <2>3, <3>1
    <3>2. CASE d # c  BY <2>4, <2>5, <3>2
    <3> QED  BY <3>1, <3>2
  <2> QED  BY <2>3, <2>5 DEF LeftWritten
<1>7. CASE UNCHANGED vars  BY <1>2, <1>7 DEF vars
<1>8. ASSUME NEW a \in asked, Deliver(a) PROVE LeftWritten'
  BY <1>2, <1>8 DEF Deliver
<1>9. ASSUME NEW c \in Copies, Launch(c) \/ Load(c) \/ Kill(c)
      PROVE  LeftWritten'
  BY <1>3, <1>9, FileStep DEF Launch, Load, Kill
<1>10. ASSUME NEW c \in Copies,
              \/ Edit(c) \/ Throw(c)
              \/ \E verdict \in {"sent", "refused", "in doubt"} :
                     Tell(c, verdict)
       PROVE  LeftWritten'
  BY <1>2, <1>10 DEF Edit, Throw, Tell
<1> QED
  BY <1>4, <1>5, <1>6, <1>7, <1>8, <1>9, <1>10 DEF Next

\* The dialog shows the configuration that the last access completes.
LEMMA OpensShown ==
  ASSUME Matched, NEW c \in Copies, Load(c), next[c] = Len(FileKeys), NEW m,
         config'[c] = Survives(m)
  PROVE  OpensWith(c, m)
<1> USE DEF Matched
<1>1. Dlg!Open(c, config'[c])  BY DEF Load
<1>2. /\ accepted'[c] = config'[c]
      /\ controls'[c] = [k \in PrizeKeys |-> Show[k][config'[c][k]]]
  BY <1>1 DEF Dlg!Open, Form!TypeOK, Dlg!PrizeKeys, PrizeKeys
<1> QED  BY <1>2 DEF OpensWith

\* A copy whose load nothing disturbs opens with all that the copy closed last
\* had confirmed, whatever else has failed, died or overlapped, if nothing has
\* disturbed its save.
THEOREM OpensSaved == Spec => OpensAsSaved
<1> DEFINE Kept == /\ Matched /\ Ini!FileInv /\ Form!ConfigAsAccepted
           Opens == \A c \in Copies :
                        window[c] = "none" /\ window'[c] = "main" /\ alone'[c]
                            /\ whole # NoFile /\ left # Constructed =>
                            OpensWith(c, left)
<1>1. Spec => []Kept
  <2>1. Ini!Spec => []Ini!FileInv  BY Ini!FileInvariant, IniAssumed
  <2> QED  BY <2>1, UsesFile, MatchedAlways, AppConfigAccepted, PTL
<1>2. Init => LeftWritten  BY DEF Init, Cfg!Init, LeftWritten
<1>3. Kept /\ LeftWritten /\ [Next]_vars => LeftWritten'  BY WrittenStep
<1>4. Kept /\ LeftWritten /\ [Next]_vars => [Opens]_vars
  <2> SUFFICES ASSUME Kept, LeftWritten, [Next]_vars, NEW c \in Copies,
                      window[c] = "none", window'[c] = "main", alone'[c],
                      whole # NoFile, left # Constructed
               PROVE  OpensWith(c, left)
    OBVIOUS
  <2>1. Load(c) /\ next[c] = Len(FileKeys)  BY OpensByLoad
  <2>2. Ini!LoadKey(c)  BY <2>1, FileStep DEF Load
  <2>3. phase'[c] = "running"
    BY <2>1, <2>2 DEF Ini!LoadKey, Ini!Advance, Matched, Ini!TypeOK
  <2>4. config'[c] \in Ini!Configs
        /\ \A k \in Ini!KeySet : config'[c][k] = Ini!Loaded(file, k)
    <3>1. Ini!TypeOK'
      BY <2>2, Ini!TypeStep, IniAssumed DEF Ini!Next, Matched
    <3>2. \A k \in Ini!KeySet : config'[c][k] = Ini!Loaded(file, k)
      BY <2>2, <2>3, Ini!LastLoad, IniAssumed DEF Matched
    <3> QED  BY <3>1, <3>2 DEF Ini!TypeOK
  <2>5. file = Ini!SavedFile(left)
    BY DEF LeftWritten, Ini!FileInv, Ini!LastSaverWins
  <2>6. config'[c] = [k \in Ini!KeySet |-> Reread[k][file[k]]]
    BY <2>4 DEF Ini!Configs, Ini!Loaded
  <2>7. config'[c] = Survives(left)
    BY <2>5, <2>6, KeysAre DEF Ini!SavedFile, Ini!Saved, Survives
  <2> QED  BY <2>1, <2>7, OpensShown
<1> QED  BY <1>1, <1>2, <1>3, <1>4, PTL DEF Spec, OpensAsSaved

\* What is stored is then what it shows.
LEMMA OpensStored ==
  ASSUME Ini!Orderly, Matched, Matched', Ini!OneBusy, Ini!FileInv, LeftStored,
         [Next]_vars, NEW c \in Copies, window[c] = "none", window'[c] = "main",
         left # Constructed
  PROVE  OpensWith(c, left)
<1> USE DEF Matched
<1>1. Load(c) /\ next[c] = Len(FileKeys)  BY OpensByLoad
<1>2. Ini!LoadKey(c) /\ phase'[c] = "running"
  BY <1>1, FileStep DEF Load, WindowsMatch
<1>3. config'[c] = [k \in Ini!KeySet |-> Reread[k][Ini!StoredFile[k]]]
  BY <1>2, Ini!StoredLoaded, IniAssumed
<1>4. config'[c] = Survives(left)
  BY <1>3, KeysAre DEF LeftStored, Ini!SavedFile, Ini!Saved, Survives
<1> QED  BY <1>1, <1>4, OpensShown

\* A copy opens as the copy that was closed last was left, for any number of
\* copies and sends, where accesses succeed and copies are opened and closed one
\* after the other.
THEOREM OpensLeft ==
  ASSUME Ini!Orderly
  PROVE  Spec => OpensAsLeft
<1> DEFINE Kept == /\ Matched /\ Ini!OneBusy /\ Ini!FileInv
                   /\ Form!ConfigAsAccepted
           Opens == \A c \in Copies :
                        window[c] = "none" /\ window'[c] = "main"
                            /\ left # Constructed =>
                            OpensWith(c, left)
<1>1. Spec => []Ini!OneBusy /\ []Ini!FileInv
  <2>1. Ini!Spec => []Ini!OneBusy  BY Ini!OneIsBusy, IniAssumed
  <2>2. Ini!Spec => []Ini!FileInv  BY Ini!FileInvariant, IniAssumed
  <2> QED  BY <2>1, <2>2, UsesFile, PTL
<1>2. Spec => []Kept
  BY <1>1, MatchedAlways, AppConfigAccepted, PTL
<1>3. Init => LeftStored  BY DEF Init, LeftStored
<1>4. Kept /\ Kept' /\ LeftStored /\ [Next]_vars => LeftStored'
  BY LeftStep
<1>5. Kept /\ Kept' /\ LeftStored /\ [Next]_vars => [Opens]_vars
  BY OpensStored
<1> QED  BY <1>2, <1>3, <1>4, <1>5, PTL DEF Spec, OpensAsLeft
=============================================================================
