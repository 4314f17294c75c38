-------------------------- MODULE PrizeDialogProofs --------------------------
(***************************************************************************)
(* What the dialogs satisfy for any number of copies, any texts and        *)
(* numbers, any reading of the texts and any config.ini.                   *)
(***************************************************************************)
EXTENDS PrizeDialogProps, TLAPS

\* The values of the fields, and of the configuration that is not loaded yet.
LEMMA ValuesAre ==
  /\ \A k \in AllKeys : Constructed[k] \in Values[k]
  /\ Values["port"] \subseteq Int
  /\ \A v \in Values["port"] : AsShort(v) \in Values["port"]
<1>1. "port" \in AllKeys \ Names
  BY DEF AllKeys, PrizeKeys, DbKeys, Names
<1> QED  BY <1>1, FieldAssumption DEF FieldAssumption

\* What is read is a value, and what is shown a text.
LEMMA TextsAre ==
  ASSUME NEW k \in AllKeys
  PROVE  /\ \A t \in DOMAIN Read[k] : Read[k][t] \in Values[k]
         /\ \A v \in Values[k] : Show[k][v] \in Texts[k]
  BY DialogAssumption DEF DialogAssumption

\* An unsigned short fits, and what fits is not changed by the cast.
LEMMA ShortIs ==
  ASSUME NEW v \in Int
  PROVE  /\ AsShort(v) \in Shorts
         /\ Valid("port", v) => AsShort(v) = v
<1>1. AsShort(v) \in Shorts  BY SMT DEF AsShort, Shorts
<1>2. 0 <= v /\ v < 65536 => AsShort(v) = v  BY SMT DEF AsShort
<1>3. Valid("port", v) => 0 <= v /\ v < 65536  BY SMT DEF Valid
<1> QED  BY <1>1, <1>2, <1>3, SMT

\* How the names of the fields are divided.
LEMMA KeysDivided ==
  /\ AllKeys = PrizeKeys \cup DbKeys /\ PrizeKeys \cap DbKeys = {}
  /\ "port" \in DbKeys /\ "port" \notin PrizeKeys
  BY DEF AllKeys, PrizeKeys, DbKeys

\* A part is a function to the values of its fields.
LEMMA PartsAre ==
  ASSUME NEW K, NEW m
  PROVE  m \in Parts(K) <=> /\ m = [k \in K |-> m[k]]
                            /\ \A k \in K : m[k] \in Values[k]
<1>1. ASSUME m = [k \in K |-> m[k]], \A k \in K : m[k] \in Values[k]
      PROVE  m \in [K -> UNION {Values[k] : k \in K}]
  <2>1. \A k \in K : m[k] \in UNION {Values[j] : j \in K}  BY <1>1
  <2> QED  BY <1>1, <2>1
<1> QED  BY <1>1 DEF Parts

\* The controls are a function to the texts of their fields.
LEMMA ScreensAre ==
  ASSUME NEW K, NEW t
  PROVE  t \in Screens(K) <=> /\ t = [k \in K |-> t[k]]
                              /\ \A k \in K : t[k] \in Texts[k]
<1>1. ASSUME t = [k \in K |-> t[k]], \A k \in K : t[k] \in Texts[k]
      PROVE  t \in [K -> UNION {Texts[k] : k \in K}]
  <2>1. \A k \in K : t[k] \in UNION {Texts[j] : j \in K}  BY <1>1
  <2> QED  BY <1>1, <2>1
<1> QED  BY <1>1 DEF Screens

\* A part of a configuration has the values of its fields.
LEMMA PartType ==
  ASSUME NEW m \in Parts(AllKeys), NEW K \in SUBSET AllKeys
  PROVE  Part(m, K) \in Parts(K)
  BY PartsAre DEF Part

\* What a dialog shows of values is a screen.
LEMMA ShownType ==
  ASSUME NEW m \in Parts(AllKeys), NEW K \in SUBSET AllKeys
  PROVE  [k \in K |-> Show[k][m[k]]] \in Screens(K)
<1>1. \A k \in K : Show[k][m[k]] \in Texts[k]  BY PartsAre, TextsAre
<1> QED  BY <1>1, ScreensAre

\* The configuration that is not loaded yet is one.
LEMMA ConstructedType == Constructed \in AppConfigs
<1>1. Constructed \in Parts(AllKeys)
  <2>1. Constructed = [k \in AllKeys |-> Constructed[k]]  BY DEF Constructed
  <2> QED  BY <2>1, PartsAre, ValuesAre
<1>2. Constructed["port"] = 0
  BY DEF Constructed, AllKeys, PrizeKeys, DbKeys, Names
<1>3. 0 \in Shorts  BY SMT DEF Shorts
<1> QED  BY <1>1, <1>2, <1>3 DEF AppConfigs

\* An exchange, whether it passes or not, leaves values in the members.
LEMMA ExchangedType ==
  ASSUME NEW K \in SUBSET AllKeys, NEW steps, NEW t, NEW old \in Parts(K),
         DOMAIN steps \subseteq Nat \ {0}
  PROVE  Exchanged(steps, t, old) \in Parts(K)
<1> DEFINE new == Exchanged(steps, t, old)
<1>1. DOMAIN old = K /\ \A k \in K : old[k] \in Values[k]  BY PartsAre
<1>2. ASSUME NEW k \in K,
             NEW i \in DOMAIN steps, steps[i] = DDX(k),
             \A j \in 1..i : StepPasses(steps[j], t)
      PROVE  Read[k][t[k]] \in Values[k]
  <2>1. StepPasses(DDX(k), t)  BY <1>2
  <2>2. t[k] \in DOMAIN Read[k]  BY <2>1 DEF StepPasses, DDX
  <2> QED  BY <2>2, TextsAre
<1>3. new = [k \in K |-> new[k]]  BY <1>1 DEF Exchanged
<1>4. \A k \in K : new[k] \in Values[k]
  BY <1>1, <1>2 DEF Exchanged
<1> QED  BY <1>3, <1>4, PartsAre

\* An exchange that passes, and reads every field, leaves what is seen.
LEMMA ExchangedSeen ==
  ASSUME NEW K, NEW steps, NEW n \in Nat, DOMAIN steps = 1..n,
         \A k \in K : \E i \in DOMAIN steps : steps[i] = DDX(k),
         NEW t \in Screens(K), NEW old \in Parts(K), Passes(steps, t)
  PROVE  Exchanged(steps, t, old) = Seen(t)
<1>1. DOMAIN old = K /\ DOMAIN t = K  BY PartsAre, ScreensAre
<1>2. \A k \in K : \E i \in DOMAIN steps :
          steps[i] = DDX(k) /\ \A j \in 1..i : StepPasses(steps[j], t)
  <2> TAKE k \in K
  <2>1. PICK i \in DOMAIN steps : steps[i] = DDX(k)  OBVIOUS
  <2>2. \A j \in 1..i : StepPasses(steps[j], t)  BY DEF Passes
  <2> QED  BY <2>1, <2>2
<1> QED  BY <1>1, <1>2 DEF Exchanged, Seen

\* The steps of the form read every field of the prize.
LEMMA FormRead ==
  /\ DOMAIN FormSteps = 1..8
  /\ \A k \in PrizeKeys : \E i \in DOMAIN FormSteps : FormSteps[i] = DDX(k)
<1>1. DOMAIN FormSteps = 1..8  BY DEF FormSteps
<1>2. /\ FormSteps[1] = DDX("username") /\ FormSteps[2] = DDX("world")
      /\ FormSteps[3] = DDX("charguid") /\ FormSteps[4] = DDX("item")
      /\ FormSteps[5] = DDX("count")
  BY DEF FormSteps
<1> QED  BY <1>1, <1>2 DEF PrizeKeys

\* The steps of the settings dialog read every field of the database, and the
\* port is looked at.
LEMMA SettingsRead ==
  /\ DOMAIN SettingSteps = 1..6 /\ SettingSteps[3] = DDV("port")
  /\ \A k \in DbKeys : \E i \in DOMAIN SettingSteps : SettingSteps[i] = DDX(k)
<1>1. DOMAIN SettingSteps = 1..6  BY DEF SettingSteps
<1>2. /\ SettingSteps[1] = DDX("host") /\ SettingSteps[2] = DDX("port")
      /\ SettingSteps[3] = DDV("port") /\ SettingSteps[4] = DDX("name")
      /\ SettingSteps[5] = DDX("db_username")
      /\ SettingSteps[6] = DDX("password")
  BY DEF SettingSteps
<1> QED  BY <1>1, <1>2 DEF DbKeys

\* The configuration m, and what is accepted, when the part p is copied there.
Assigned(m, p) ==
    [k \in AllKeys |-> IF k \in DOMAIN p THEN Stored(k, p[k]) ELSE m[k]]
Merged(m, p) == [k \in AllKeys |-> IF k \in DOMAIN p THEN p[k] ELSE m[k]]

\* What the configuration becomes, when a part is copied into it, is one.
LEMMA AssignedType ==
  ASSUME NEW m \in AppConfigs, NEW K \in SUBSET AllKeys, NEW p \in Parts(K)
  PROVE  Assigned(m, p) \in AppConfigs
<1> DEFINE new == Assigned(m, p)
<1>1. /\ DOMAIN p = K /\ \A k \in K : p[k] \in Values[k]
      /\ m \in Parts(AllKeys) /\ m["port"] \in Shorts
  BY PartsAre DEF AppConfigs
<1>2. \A k \in AllKeys : m[k] \in Values[k]  BY <1>1, PartsAre
<1>3. ASSUME NEW v \in Values["port"]
      PROVE  AsShort(v) \in Values["port"] /\ AsShort(v) \in Shorts
  BY ValuesAre, ShortIs
<1>4. \A k \in AllKeys : new[k] \in Values[k]
  <2> TAKE k \in AllKeys
  <2>1. CASE k = "port"  BY <1>1, <1>2, <1>3, <2>1 DEF Assigned, Stored
  <2>2. CASE k # "port"  BY <1>1, <1>2, <2>2 DEF Assigned, Stored
  <2> QED  BY <2>1, <2>2
<1>5. new["port"] \in Shorts
  <2>1. "port" \in AllKeys  BY KeysDivided
  <2> QED  BY <1>1, <1>3, <2>1 DEF Assigned, Stored
<1>6. new = [k \in AllKeys |-> new[k]]  BY DEF Assigned
<1> HIDE DEF new
<1>7. new \in Parts(AllKeys)  BY <1>4, <1>6, PartsAre
<1> QED  BY <1>5, <1>7 DEF AppConfigs, new

\* What is recorded as accepted has its type, too.
LEMMA AcceptedType ==
  ASSUME NEW m \in Parts(AllKeys), NEW K \in SUBSET AllKeys, NEW p \in Parts(K)
  PROVE  Merged(m, p) \in Parts(AllKeys)
<1> DEFINE new == Merged(m, p)
<1>1. /\ DOMAIN p = K /\ \A k \in K : p[k] \in Values[k]
      /\ \A k \in AllKeys : m[k] \in Values[k]
  BY PartsAre
<1>2. \A k \in AllKeys : new[k] \in Values[k]  BY <1>1 DEF Merged
<1>3. new = [k \in AllKeys |-> new[k]]  BY DEF Merged
<1> HIDE DEF new
<1> QED  BY <1>2, <1>3, PartsAre DEF new
-----------------------------------------------------------------------------
\* The types of one copy.
TypeOf(c) ==
    /\ window[c] \in {"none", "main", "settings", "sending", "told"}
    /\ controls[c] \in Screens(PrizeKeys)
    /\ members[c] \in Parts(PrizeKeys)
    /\ button[c] \in {"enabled", "disabled"}
    /\ settings[c] = NoDialog \/
           settings[c] \in [controls : Screens(DbKeys), members : Parts(DbKeys)]
    /\ settings[c] # NoDialog <=> window[c] = "settings"
    /\ window[c] = "sending" => button[c] = "disabled"
    /\ config[c] \in AppConfigs
    /\ accepted[c] \in Parts(AllKeys)

\* The variables of a copy are not touched by a step of another one.
Others(c) ==
    \A d \in Copies \ {c} :
        /\ window'[d] = window[d] /\ controls'[d] = controls[d]
        /\ members'[d] = members[d] /\ button'[d] = button[d]
        /\ settings'[d] = settings[d] /\ config'[d] = config[d]
        /\ accepted'[d] = accepted[d]

\* Each variable has a value for every copy.
Shape ==
    /\ window = [c \in Copies |-> window[c]]
    /\ controls = [c \in Copies |-> controls[c]]
    /\ members = [c \in Copies |-> members[c]]
    /\ button = [c \in Copies |-> button[c]]
    /\ settings = [c \in Copies |-> settings[c]]
    /\ config = [c \in Copies |-> config[c]]
    /\ accepted = [c \in Copies |-> accepted[c]]

\* The type invariant, copy by copy.
LEMMA TypeByCopy ==
  ASSUME TypeOK
  PROVE  Shape /\ \A c \in Copies : TypeOf(c)
  BY DEF TypeOK, Shape, TypeOf

\* A step of one copy keeps the types if it keeps those of the copy.
LEMMA TypeOfOne ==
  ASSUME TypeOK, NEW c \in Copies, Others(c), Shape', TypeOf(c)'
  PROVE  TypeOK'
<1> DEFINE Forms == [controls : Screens(DbKeys), members : Parts(DbKeys)]
<1>1. \A d \in Copies : TypeOf(d)  BY TypeByCopy
<1>2. \A d \in Copies \ {c} : TypeOf(d)'  BY <1>1 DEF Others, TypeOf
<1>3. \A d \in Copies : TypeOf(d)'  BY <1>2
<1>4. window' \in [Copies -> {"none", "main", "settings", "sending", "told"}]
  BY <1>3 DEF Shape, TypeOf
<1>5. controls' \in [Copies -> Screens(PrizeKeys)]  BY <1>3 DEF Shape, TypeOf
<1>6. members' \in [Copies -> Parts(PrizeKeys)]  BY <1>3 DEF Shape, TypeOf
<1>7. button' \in [Copies -> {"enabled", "disabled"}]
  BY <1>3 DEF Shape, TypeOf
<1>8. settings' \in [Copies -> {NoDialog} \cup Forms]
  <2>1. \A d \in Copies : settings'[d] \in {NoDialog} \cup Forms
    BY <1>3 DEF TypeOf
  <2> HIDE DEF Forms
  <2> QED  BY <2>1 DEF Shape
<1>9. config' \in [Copies -> AppConfigs]  BY <1>3 DEF Shape, TypeOf
<1>10. accepted' \in [Copies -> Parts(AllKeys)]  BY <1>3 DEF Shape, TypeOf
<1>11. \A d \in Copies : /\ settings'[d] # NoDialog <=> window'[d] = "settings"
                         /\ window'[d] = "sending" => button'[d] = "disabled"
  BY <1>3 DEF TypeOf
<1> QED
  BY <1>4, <1>5, <1>6, <1>7, <1>8, <1>9, <1>10, <1>11 DEF TypeOK
-----------------------------------------------------------------------------
\* The initial states have their types.
LEMMA TypeInit == Init => TypeOK
<1> SUFFICES ASSUME Init PROVE TypeOK  OBVIOUS
<1>1. Constructed \in AppConfigs /\ Constructed \in Parts(AllKeys)
  BY ConstructedType DEF AppConfigs
<1>2. Part(Constructed, PrizeKeys) \in Parts(PrizeKeys)
  BY <1>1, PartType, KeysDivided
<1>3. [k \in PrizeKeys |-> Show[k][Constructed[k]]] \in Screens(PrizeKeys)
  BY <1>1, ShownType, KeysDivided
<1> QED  BY <1>1, <1>2, <1>3 DEF Init, TypeOK

\* What Send makes of the members and of the configuration.
LEMMA SendIs ==
  ASSUME TypeOK, NEW c \in Copies, Send(c)
  PROVE  /\ members'[c] \in Parts(PrizeKeys)
         /\ members'[c] = Seen(controls[c])
         /\ config' = [config EXCEPT ![c] = Assigned(config[c], members'[c])]
         /\ accepted' = [accepted EXCEPT ![c] = Merged(accepted[c], members'[c])]
<1> DEFINE new == Exchanged(FormSteps, controls[c], members[c])
<1>1. controls[c] \in Screens(PrizeKeys) /\ members[c] \in Parts(PrizeKeys)
  BY DEF TypeOK
<1>2. members' = [members EXCEPT ![c] = new]  BY DEF Send
<1>3. members'[c] = new  BY <1>2 DEF TypeOK
<1>4. new \in Parts(PrizeKeys)
  BY <1>1, ExchangedType, FormRead, KeysDivided
<1>5. new = Seen(controls[c])
  BY <1>1, ExchangedSeen, FormRead DEF Send
<1> HIDE DEF new
<1>6. config' = [config EXCEPT ![c] = Assigned(config[c], new)]
  <2>1. Assign(c, members'[c])  BY DEF Send
  <2>2. Assign(c, new)  BY <1>3, <2>1
  <2> QED  BY <2>2 DEF Assign, Assigned
<1>7. accepted' = [accepted EXCEPT ![c] = Merged(accepted[c], new)]
  BY <1>5 DEF Send, Accept, Merged
<1> QED  BY <1>3, <1>4, <1>5, <1>6, <1>7

\* What ConfirmSettings makes of the configuration.
LEMMA ConfirmIs ==
  ASSUME TypeOK, NEW c \in Copies, ConfirmSettings(c)
  PROVE  \E p \in Parts(DbKeys) :
            /\ p = Seen(settings[c].controls) /\ Valid("port", p["port"])
            /\ config' = [config EXCEPT ![c] = Assigned(config[c], p)]
            /\ accepted' = [accepted EXCEPT ![c] = Merged(accepted[c], p)]
<1> DEFINE s == settings[c]
           new == Exchanged(SettingSteps, s.controls, s.members)
<1>1. s.controls \in Screens(DbKeys) /\ s.members \in Parts(DbKeys)
  BY DEF TypeOK, ConfirmSettings
<1>2. /\ Passes(SettingSteps, s.controls)
      /\ Assign(c, new) /\ Accept(c, Seen(s.controls))
  BY DEF ConfirmSettings
<1> HIDE DEF s
<1>3. new \in Parts(DbKeys)
  BY <1>1, ExchangedType, SettingsRead, KeysDivided
<1>4. new = Seen(s.controls)  BY <1>1, <1>2, ExchangedSeen, SettingsRead
<1>5. Valid("port", new["port"])
  <2>1. StepPasses(DDV("port"), s.controls)
    BY <1>2, SettingsRead DEF Passes
  <2>2. Valid("port", Read["port"][s.controls["port"]])
    BY <2>1 DEF StepPasses, DDV
  <2>3. DOMAIN s.controls = DbKeys  BY <1>1, ScreensAre
  <2> QED  BY <1>4, <2>2, <2>3, KeysDivided DEF Seen
<1> HIDE DEF new
<1>6. config' = [config EXCEPT ![c] = Assigned(config[c], new)]
  BY <1>2 DEF Assign, Assigned
<1>7. accepted' = [accepted EXCEPT ![c] = Merged(accepted[c], new)]
  BY <1>2, <1>4 DEF Accept, Merged
<1> QED  BY <1>3, <1>4, <1>5, <1>6, <1>7 DEF s

\* Assigning a part leaves the configuration as it is accepted, if it was and if
\* the part fits.
LEMMA AssignedAccepted ==
  ASSUME NEW m \in AppConfigs, NEW K \in SUBSET AllKeys, NEW p \in Parts(K),
         "port" \in K => Valid("port", p["port"])
  PROVE  Assigned(m, p) = Merged(m, p)
<1>1. DOMAIN p = K /\ \A k \in K : p[k] \in Values[k]  BY PartsAre
<1>2. ASSUME NEW k \in K PROVE Stored(k, p[k]) = p[k]
  <2>1. CASE k = "port"
    <3>1. p[k] \in Int /\ Valid("port", p[k])  BY <1>1, <2>1, ValuesAre
    <3>2. AsShort(p[k]) = p[k]  BY <3>1, ShortIs
    <3> QED  BY <2>1, <3>2 DEF Stored
  <2>2. CASE k # "port"  BY <2>2 DEF Stored
  <2> QED  BY <2>1, <2>2
<1> QED  BY <1>1, <1>2 DEF Assigned, Merged
-----------------------------------------------------------------------------
\* A step of one copy leaves the others alone, and every variable its domain.
LEMMA StepOfOne ==
  ASSUME TypeOK, NEW c \in Copies,
         \/ \E new \in Loads : Open(c, new)
         \/ \E k \in PrizeKeys : \E text \in Texts[k] : Type(c, k, text)
         \/ \E k \in DbKeys : \E text \in Texts[k] : TypeSetting(c, k, text)
         \/ Reject(c) \/ Send(c) \/ Dismiss(c) \/ SendThrows(c)
         \/ \E success \in BOOLEAN : SendTold(c, success)
         \/ OpenSettings(c) \/ RejectSettings(c) \/ ConfirmSettings(c)
         \/ CancelSettings(c) \/ Close(c)
  PROVE  Others(c) /\ Shape'
<1>1. Shape  BY TypeByCopy
<1> USE DEF Others, Shape
<1>2. ASSUME NEW new \in Loads, Open(c, new) PROVE Others(c) /\ Shape'
  BY <1>1, <1>2 DEF Open
<1>3. ASSUME NEW k \in PrizeKeys, NEW text \in Texts[k], Type(c, k, text)
      PROVE  Others(c) /\ Shape'
  BY <1>1, <1>3 DEF Type
<1>4. ASSUME NEW k \in DbKeys, NEW text \in Texts[k], TypeSetting(c, k, text)
      PROVE  Others(c) /\ Shape'
  BY <1>1, <1>4 DEF TypeSetting
<1>5. CASE Reject(c)  BY <1>1, <1>5 DEF Reject
<1>6. CASE Send(c)  BY <1>1, <1>6, SendIs DEF Send
<1>7. ASSUME NEW success \in BOOLEAN, SendTold(c, success)
      PROVE  Others(c) /\ Shape'
  BY <1>1, <1>7 DEF SendTold
<1>13. CASE Dismiss(c) \/ SendThrows(c)
  BY <1>1, <1>13 DEF Dismiss, SendThrows
<1>8. CASE OpenSettings(c)  BY <1>1, <1>8 DEF OpenSettings
<1>9. CASE RejectSettings(c)  BY <1>1, <1>9 DEF RejectSettings
<1>10. CASE ConfirmSettings(c)
  <2>1. \E m, a : /\ config' = [config EXCEPT ![c] = m]
                  /\ accepted' = [accepted EXCEPT ![c] = a]
    BY <1>10, ConfirmIs
  <2> QED  BY <1>1, <1>10, <2>1 DEF ConfirmSettings
<1>11. CASE CancelSettings(c)  BY <1>1, <1>11 DEF CancelSettings
<1>12. CASE Close(c)  BY <1>1, <1>12 DEF Close
<1> QED
  BY <1>2, <1>3, <1>4, <1>5, <1>6, <1>7, <1>8, <1>9, <1>10, <1>11, <1>12,
     <1>13

\* Every step keeps the types.
LEMMA TypeStep == TypeOK /\ [Next]_vars => TypeOK'
<1> SUFFICES ASSUME TypeOK, [Next]_vars PROVE TypeOK'  OBVIOUS
<1>1. CASE UNCHANGED vars  BY <1>1 DEF vars, TypeOK
<1>2. ASSUME NEW c \in Copies,
             \/ \E new \in Loads : Open(c, new)
             \/ \E k \in PrizeKeys : \E text \in Texts[k] : Type(c, k, text)
             \/ \E k \in DbKeys : \E text \in Texts[k] : TypeSetting(c, k, text)
             \/ Reject(c) \/ Send(c) \/ Dismiss(c) \/ SendThrows(c)
             \/ \E success \in BOOLEAN : SendTold(c, success)
             \/ OpenSettings(c) \/ RejectSettings(c) \/ ConfirmSettings(c)
             \/ CancelSettings(c) \/ Close(c)
      PROVE  TypeOK'
  <2>1. Others(c) /\ Shape'  BY <1>2, StepOfOne
  <2>2. TypeOf(c)  BY TypeByCopy
  <2>3. SUFFICES TypeOf(c)'  BY <2>1, TypeOfOne
  <2>4. config[c] \in Parts(AllKeys)  BY <2>2 DEF TypeOf, AppConfigs
  <2> USE <2>2
  <2>5. ASSUME NEW new \in Loads, Open(c, new) PROVE TypeOf(c)'
    <3>1. new \in AppConfigs /\ new \in Parts(AllKeys)
      BY DialogAssumption DEF DialogAssumption, AppConfigs
    <3>2. /\ Part(new, PrizeKeys) \in Parts(PrizeKeys)
          /\ [k \in PrizeKeys |-> Show[k][new[k]]] \in Screens(PrizeKeys)
      BY <3>1, PartType, ShownType, KeysDivided
    <3>3. /\ window'[c] = "main" /\ config'[c] = new
          /\ accepted'[c] = new /\ members'[c] = Part(new, PrizeKeys)
          /\ controls'[c] = [k \in PrizeKeys |-> Show[k][new[k]]]
          /\ UNCHANGED <<button, settings>> /\ window[c] = "none"
      BY <2>5 DEF Open, TypeOK
    <3> QED  BY <3>1, <3>2, <3>3 DEF TypeOf
  <2>6. ASSUME NEW k \in PrizeKeys, NEW text \in Texts[k], Type(c, k, text)
        PROVE  TypeOf(c)'
    <3>1. controls'[c] = [controls[c] EXCEPT ![k] = text]
      BY <2>6 DEF Type, TypeOK
    <3>2. controls'[c] \in Screens(PrizeKeys)
      <4>1. /\ DOMAIN controls[c] = PrizeKeys
            /\ \A j \in PrizeKeys : controls[c][j] \in Texts[j]
        BY ScreensAre DEF TypeOf
      <4>2. \A j \in PrizeKeys : controls'[c][j] \in Texts[j]
        BY <3>1, <4>1
      <4>3. controls'[c] = [j \in PrizeKeys |-> controls'[c][j]]
        BY <3>1, <4>1
      <4> QED  BY <4>2, <4>3, ScreensAre
    <3> QED  BY <2>6, <3>2 DEF Type, TypeOf
  <2>7. ASSUME NEW k \in DbKeys, NEW text \in Texts[k], TypeSetting(c, k, text)
        PROVE  TypeOf(c)'
    <3> DEFINE t == settings[c].controls
    <3>1. /\ window[c] = "settings" /\ settings[c] # NoDialog
          /\ settings[c] \in [controls : Screens(DbKeys), members : Parts(DbKeys)]
      BY <2>7 DEF TypeSetting, TypeOf
    <3>2. settings'[c] = [controls |-> [t EXCEPT ![k] = text],
                          members |-> settings[c].members]
      BY <2>7, <3>1 DEF TypeSetting, TypeOK
    <3>3. [t EXCEPT ![k] = text] \in Screens(DbKeys)
      <4> HIDE DEF t
      <4>1. /\ DOMAIN t = DbKeys /\ t = [j \in DbKeys |-> t[j]]
            /\ \A j \in DbKeys : t[j] \in Texts[j]
        BY <3>1, ScreensAre DEF t
      <4>2. \A j \in DbKeys : [t EXCEPT ![k] = text][j] \in Texts[j]
        BY <4>1
      <4>3. [t EXCEPT ![k] = text]
               = [j \in DbKeys |-> [t EXCEPT ![k] = text][j]]
        BY <4>1
      <4> QED  BY <4>2, <4>3, ScreensAre
    <3>4. settings'[c] \in [controls : Screens(DbKeys), members : Parts(DbKeys)]
      <4> HIDE DEF t
      <4> QED  BY <3>1, <3>2, <3>3
    <3>5. settings'[c] # NoDialog
      BY <3>4, DialogAssumption DEF DialogAssumption
    <3> QED  BY <2>7, <3>1, <3>4, <3>5 DEF TypeSetting, TypeOf
  <2>8. CASE Reject(c)
    <3>1. members'[c] = Exchanged(FormSteps, controls[c], members[c])
      BY <2>8 DEF Reject, TypeOK
    <3>2. members'[c] \in Parts(PrizeKeys)
      BY <3>1, ExchangedType, FormRead, KeysDivided DEF TypeOf
    <3> QED  BY <2>8, <3>2 DEF Reject, TypeOf
  <2>9. CASE Send(c)
    <3> DEFINE p == members'[c]
    <3>1. p \in Parts(PrizeKeys)  BY <2>9, SendIs
    <3>2. config'[c] = Assigned(config[c], p)
      BY <2>9, SendIs DEF TypeOK
    <3>3. accepted'[c] = Merged(accepted[c], p)
      BY <2>9, SendIs DEF TypeOK
    <3> HIDE DEF p
    <3>4. config'[c] \in AppConfigs
      BY <3>1, <3>2, AssignedType, KeysDivided DEF TypeOf
    <3>5. accepted'[c] \in Parts(AllKeys)
      BY <3>1, <3>3, AcceptedType, KeysDivided DEF TypeOf
    <3>6. /\ window'[c] = "sending" /\ button'[c] = "disabled"
          /\ window[c] = "main" /\ UNCHANGED <<controls, settings>>
      BY <2>9 DEF Send, TypeOK
    <3> QED  BY <3>1, <3>4, <3>5, <3>6 DEF TypeOf, p
  <2>10. ASSUME NEW success \in BOOLEAN, SendTold(c, success) PROVE TypeOf(c)'
    <3>1. /\ window'[c] = "told" /\ button'[c] \in {"enabled", "disabled"}
          /\ window[c] = "sending"
          /\ UNCHANGED <<controls, members, settings, config, accepted>>
      BY <2>10 DEF SendTold, TypeOf, TypeOK
    <3> QED  BY <3>1 DEF TypeOf
  <2>16. CASE Dismiss(c)  BY <2>16 DEF Dismiss, TypeOf, TypeOK
  <2>17. CASE SendThrows(c)  BY <2>17 DEF SendThrows, TypeOf, TypeOK
  <2>11. CASE OpenSettings(c)
    <3> DEFINE new == [controls |-> [k \in DbKeys |-> Show[k][config[c][k]]],
                       members |-> Part(config[c], DbKeys)]
    <3>1. new \in [controls : Screens(DbKeys), members : Parts(DbKeys)]
      BY <2>4, PartType, ShownType, KeysDivided
    <3>2. settings'[c] = new /\ window'[c] = "settings"
      BY <2>11 DEF OpenSettings, TypeOK
    <3> HIDE DEF new
    <3>3. new # NoDialog  BY <3>1, DialogAssumption DEF DialogAssumption
    <3> QED  BY <2>11, <3>1, <3>2, <3>3 DEF OpenSettings, TypeOf
  <2>12. CASE RejectSettings(c)
    <3> DEFINE s == settings[c]
               new == Exchanged(SettingSteps, s.controls, s.members)
    <3>1. /\ window[c] = "settings" /\ s # NoDialog
          /\ s \in [controls : Screens(DbKeys), members : Parts(DbKeys)]
      BY <2>12 DEF RejectSettings, TypeOf
    <3>2. new \in Parts(DbKeys)
      <4> HIDE DEF s
      <4> QED  BY <3>1, ExchangedType, SettingsRead, KeysDivided
    <3>3. settings' = [settings EXCEPT ![c].members = new]
      BY <2>12 DEF RejectSettings
    <3> HIDE DEF new
    <3>4. settings'[c] = [controls |-> s.controls, members |-> new]
      BY <3>1, <3>3 DEF TypeOK
    <3>5. settings'[c] \in [controls : Screens(DbKeys), members : Parts(DbKeys)]
      BY <3>1, <3>2, <3>4
    <3>6. settings'[c] # NoDialog
      BY <3>5, DialogAssumption DEF DialogAssumption
    <3> QED  BY <2>12, <3>1, <3>5, <3>6 DEF RejectSettings, TypeOf
  <2>13. CASE ConfirmSettings(c)
    <3>1. PICK p \in Parts(DbKeys) :
             /\ config' = [config EXCEPT ![c] = Assigned(config[c], p)]
             /\ accepted' = [accepted EXCEPT ![c] = Merged(accepted[c], p)]
      BY <2>13, ConfirmIs
    <3>2. config'[c] \in AppConfigs
      BY <3>1, AssignedType, KeysDivided DEF TypeOf, TypeOK
    <3>3. accepted'[c] \in Parts(AllKeys)
      BY <3>1, AcceptedType, KeysDivided DEF TypeOf, TypeOK
    <3>4. /\ window'[c] = "main" /\ settings'[c] = NoDialog
          /\ UNCHANGED <<controls, members, button>>
      BY <2>13 DEF ConfirmSettings, TypeOK
    <3> QED  BY <3>2, <3>3, <3>4 DEF TypeOf
  <2>14. CASE CancelSettings(c)  BY <2>14 DEF CancelSettings, TypeOf, TypeOK
  <2>15. CASE Close(c)
    <3>1. Constructed \in AppConfigs /\ Constructed \in Parts(AllKeys)
      BY ConstructedType DEF AppConfigs
    <3>2. /\ Part(Constructed, PrizeKeys) \in Parts(PrizeKeys)
          /\ [k \in PrizeKeys |-> Show[k][Constructed[k]]] \in Screens(PrizeKeys)
      BY <3>1, PartType, ShownType, KeysDivided
    <3>3. /\ window'[c] = "none" /\ config'[c] = Constructed
          /\ accepted'[c] = Constructed
          /\ members'[c] = Part(Constructed, PrizeKeys)
          /\ controls'[c] = [k \in PrizeKeys |-> Show[k][Constructed[k]]]
          /\ button'[c] = "enabled" /\ settings'[c] = NoDialog
      BY <2>15 DEF Close, TypeOK
    <3> QED  BY <3>1, <3>2, <3>3 DEF TypeOf
  <2> QED
    BY <1>2, <2>5, <2>6, <2>7, <2>8, <2>9, <2>10, <2>11, <2>12, <2>13,
       <2>14, <2>15, <2>16, <2>17
<1> QED  BY <1>1, <1>2 DEF Next

\* Every variable of the dialogs keeps its type.
THEOREM TypeCorrect == Spec => []TypeOK
<1> QED  BY TypeInit, TypeStep, PTL DEF Spec
-----------------------------------------------------------------------------
\* Every step keeps config as it was accepted: Send and ConfirmSettings assign
\* what was seen, the others nothing or the same to both.
LEMMA AcceptedStep ==
  TypeOK /\ ConfigAsAccepted /\ [Next]_vars => ConfigAsAccepted'
<1> SUFFICES ASSUME TypeOK, ConfigAsAccepted, [Next]_vars
             PROVE  ConfigAsAccepted'
  OBVIOUS
<1>1. CASE UNCHANGED <<config, accepted>>  BY <1>1 DEF ConfigAsAccepted
<1>2. ASSUME NEW c \in Copies, NEW m,
             config' = [config EXCEPT ![c] = m],
             accepted' = [accepted EXCEPT ![c] = m]
      PROVE  ConfigAsAccepted'
  BY <1>2 DEF ConfigAsAccepted, TypeOK
<1>3. ASSUME NEW c \in Copies, NEW new \in Loads, Open(c, new)
      PROVE  ConfigAsAccepted'
  BY <1>2, <1>3 DEF Open
<1>4. ASSUME NEW c \in Copies, Send(c) PROVE ConfigAsAccepted'
  <2> DEFINE p == members'[c]
  <2>1. p \in Parts(PrizeKeys) /\ config[c] \in AppConfigs
    BY <1>4, SendIs DEF TypeOK
  <2>2. /\ config' = [config EXCEPT ![c] = Assigned(config[c], p)]
        /\ accepted' = [accepted EXCEPT ![c] = Merged(accepted[c], p)]
    BY <1>4, SendIs
  <2> HIDE DEF p
  <2>3. Assigned(config[c], p) = Merged(config[c], p)
    BY <2>1, AssignedAccepted, KeysDivided
  <2> QED  BY <1>2, <2>2, <2>3 DEF ConfigAsAccepted
<1>5. ASSUME NEW c \in Copies, ConfirmSettings(c) PROVE ConfigAsAccepted'
  <2>1. PICK p \in Parts(DbKeys) :
           /\ Valid("port", p["port"])
           /\ config' = [config EXCEPT ![c] = Assigned(config[c], p)]
           /\ accepted' = [accepted EXCEPT ![c] = Merged(accepted[c], p)]
    BY <1>5, ConfirmIs
  <2>2. Assigned(config[c], p) = Merged(config[c], p)
    BY <2>1, AssignedAccepted, KeysDivided DEF TypeOK
  <2> QED  BY <1>2, <2>1, <2>2 DEF ConfigAsAccepted
<1>6. ASSUME NEW c \in Copies, Close(c) PROVE ConfigAsAccepted'
  BY <1>2, <1>6 DEF Close
<1>7. CASE UNCHANGED vars  BY <1>1, <1>7 DEF vars
<1>8. ASSUME NEW c \in Copies,
             \/ \E k \in PrizeKeys : \E text \in Texts[k] : Type(c, k, text)
             \/ \E k \in DbKeys : \E text \in Texts[k] : TypeSetting(c, k, text)
             \/ \E success \in BOOLEAN : SendTold(c, success)
             \/ Reject(c) \/ Dismiss(c) \/ SendThrows(c) \/ OpenSettings(c)
             \/ RejectSettings(c) \/ CancelSettings(c)
      PROVE  UNCHANGED <<config, accepted>>
  BY <1>8 DEF Type, TypeSetting, Reject, SendTold, Dismiss, SendThrows,
              OpenSettings, RejectSettings, CancelSettings
<1> QED  BY <1>1, <1>3, <1>4, <1>5, <1>6, <1>7, <1>8 DEF Next

\* The configuration is always the one that the operator accepted.
THEOREM ConfigIsAccepted == Spec => []ConfigAsAccepted
<1>1. Init => ConfigAsAccepted  BY DEF Init, ConfigAsAccepted
<1> QED  BY <1>1, AcceptedStep, TypeCorrect, PTL DEF Spec

\* Every step keeps it that what is sent is shown: only Send begins a send, and
\* the form does not change before it ends.
LEMMA ShownStep ==
  TypeOK /\ SendsWhatIsShown /\ [Next]_vars => SendsWhatIsShown'
<1> SUFFICES ASSUME TypeOK, SendsWhatIsShown, [Next]_vars,
                    NEW d \in Copies, window'[d] = "sending"
             PROVE  /\ Passes(FormSteps, controls'[d])
                    /\ members'[d] = Seen(controls'[d])
                    /\ Part(config'[d], PrizeKeys) = members'[d]
  BY DEF SendsWhatIsShown
<1>1. ASSUME window[d] = "sending", controls'[d] = controls[d],
             members'[d] = members[d], config'[d] = config[d]
      PROVE  /\ Passes(FormSteps, controls'[d])
             /\ members'[d] = Seen(controls'[d])
             /\ Part(config'[d], PrizeKeys) = members'[d]
  BY <1>1 DEF SendsWhatIsShown
<1>2. ASSUME Send(d)
      PROVE  /\ Passes(FormSteps, controls'[d])
             /\ members'[d] = Seen(controls'[d])
             /\ Part(config'[d], PrizeKeys) = members'[d]
  <2>1. controls' = controls /\ Passes(FormSteps, controls[d])
    BY <1>2 DEF Send
  <2> DEFINE p == members'[d]
  <2>2. p \in Parts(PrizeKeys) /\ p = Seen(controls[d])  BY <1>2, SendIs
  <2>3. config'[d] = Assigned(config[d], p)  BY <1>2, SendIs DEF TypeOK
  <2> HIDE DEF p
  <2>4. p = [k \in PrizeKeys |-> p[k]]  BY <2>2, PartsAre
  <2>5. \A k \in PrizeKeys : config'[d][k] = p[k]
    BY <2>3, <2>4, KeysDivided DEF Assigned, Stored
  <2>6. Part(config'[d], PrizeKeys) = p  BY <2>4, <2>5 DEF Part
  <2> QED  BY <2>1, <2>2, <2>6 DEF p
<1>3. CASE UNCHANGED vars  BY <1>1, <1>3 DEF vars
<1>4. ASSUME NEW c \in Copies,
             \/ \E new \in Loads : Open(c, new)
             \/ \E k \in PrizeKeys : \E text \in Texts[k] : Type(c, k, text)
             \/ \E k \in DbKeys : \E text \in Texts[k] : TypeSetting(c, k, text)
             \/ Reject(c) \/ Send(c) \/ Dismiss(c) \/ SendThrows(c)
             \/ \E success \in BOOLEAN : SendTold(c, success)
             \/ OpenSettings(c) \/ RejectSettings(c) \/ ConfirmSettings(c)
             \/ CancelSettings(c) \/ Close(c)
      PROVE  /\ Passes(FormSteps, controls'[d])
             /\ members'[d] = Seen(controls'[d])
             /\ Part(config'[d], PrizeKeys) = members'[d]
  <2>1. CASE c # d
    <3>1. Others(c)  BY <1>4, StepOfOne
    <3> QED  BY <1>1, <2>1, <3>1 DEF Others
  <2>2. CASE c = d
    <3>1. window'[d] # "sending" \/ Send(d)
      BY <1>4, <2>2
         DEF TypeOK, Open, Type, TypeSetting, Reject, SendTold, Dismiss,
             SendThrows, OpenSettings, RejectSettings, ConfirmSettings,
             CancelSettings, Close
    <3> QED  BY <1>2, <3>1
  <2> QED  BY <2>1, <2>2
<1> QED  BY <1>3, <1>4 DEF Next

\* A send always has, and records, what the form shows.
THEOREM SendIsShown == Spec => []SendsWhatIsShown
<1>1. Init => SendsWhatIsShown  BY DEF Init, SendsWhatIsShown
<1> QED  BY <1>1, ShownStep, TypeCorrect, PTL DEF Spec
=============================================================================
