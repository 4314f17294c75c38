--------------------------- MODULE AppConfigProofs ---------------------------
(***************************************************************************)
(* What config.ini and its copies satisfy for any number of copies, any    *)
(* keys and conversions, and whatever may fail.                            *)
(***************************************************************************)
EXTENDS AppConfigProps, TLAPS

USE ConfigAssumption DEF ConfigAssumption, history

Phases == {"closed", "loading", "running", "saving"}

\* The next key of a copy is a key, and so is every position of Keys.
LEMMA KeyType ==
  ASSUME TypeOK, NEW c \in Copies
  PROVE  Key(c) \in KeySet /\ next[c] \in 1..Len(Keys)
  BY DEF TypeOK, Key, KeySet

\* A file stays one when a key is given a text.
LEMMA FileUpdate ==
  ASSUME NEW f, IsFile(f), NEW k \in KeySet, NEW t \in Texts[k]
  PROVE  IsFile([f EXCEPT ![k] = t])
<1> DEFINE All == UNION {Texts[j] : j \in KeySet}
<1>1. t \in All  OBVIOUS
<1>2. f \in [KeySet -> All]  BY DEF IsFile
<1>3. [f EXCEPT ![k] = t] \in [KeySet -> All]  BY <1>1, <1>2
<1>4. \A j \in KeySet : [f EXCEPT ![k] = t][j] \in Texts[j]
  BY <1>2 DEF IsFile
<1> QED  BY <1>3, <1>4 DEF IsFile

\* A configuration stays one when a key is given a value.
LEMMA ConfigUpdate ==
  ASSUME NEW m \in Configs, NEW k \in KeySet, NEW v \in Values[k]
  PROVE  [m EXCEPT ![k] = v] \in Configs
<1> DEFINE All == UNION {Values[j] : j \in KeySet}
<1>1. v \in All  OBVIOUS
<1>2. m \in [KeySet -> All]  BY DEF Configs
<1>3. [m EXCEPT ![k] = v] \in [KeySet -> All]  BY <1>1, <1>2
<1>4. \A j \in KeySet : [m EXCEPT ![k] = v][j] \in Values[j]
  BY <1>2 DEF Configs
<1> QED  BY <1>3, <1>4 DEF Configs

\* What is loaded is a value, and what is saved a text.
LEMMA LoadedType ==
  ASSUME NEW f, IsFile(f), NEW k \in KeySet
  PROVE  Loaded(f, k) \in Values[k] /\ Default(k) \in Values[k]
  BY DEF IsFile, Loaded, Default

\* The file that a configuration is saved as.
LEMMA SavedType ==
  ASSUME NEW m \in Configs
  PROVE  /\ \A k \in KeySet : Saved(m, k) \in Texts[k]
         /\ IsFile(SavedFile(m))
<1>1. \A k \in KeySet : Saved(m, k) \in Texts[k]  BY DEF Configs, Saved
<1>2. SavedFile(m) \in [KeySet -> UNION {Texts[k] : k \in KeySet}]
  BY <1>1 DEF SavedFile
<1> QED  BY <1>1, <1>2 DEF IsFile, SavedFile

\* An access advances its copy, and only this.
LEMMA AdvanceType ==
  ASSUME TypeOK, NEW c \in Copies, NEW d \in Phases, Advance(c, d)
  PROVE  /\ next' \in [Copies -> 1..Len(Keys)]
         /\ phase' \in [Copies -> Phases]
         /\ \A e \in Copies \ {c} : phase'[e] = phase[e] /\ next'[e] = next[e]
         /\ next[c] = Len(Keys) => phase'[c] = d /\ next'[c] = 1
         /\ next[c] # Len(Keys) => /\ phase'[c] = phase[c]
                                   /\ next'[c] = next[c] + 1
  BY DEF TypeOK, Advance, Phases

\* The history of the saves stays one when a save begins.
LEMMA BeginsType ==
  ASSUME TypeOK, NEW c \in Copies, SaveBegins(c)
  PROVE  IsHistory(last')
<1>1. IsFile(SavedFile(config[c])) /\ IsFile(file)
  BY SavedType DEF TypeOK
<1>2. CASE \E d \in Copies : phase[d] = "saving"
  <2>1. last' = [last EXCEPT !.news = @ \cup {SavedFile(config[c])},
                            !.clean = FALSE]
    BY <1>2 DEF SaveBegins
  <2>2. last' = [old |-> last.old, clean |-> FALSE,
                 news |-> last.news \cup {SavedFile(config[c])}]
    BY <2>1 DEF TypeOK, IsHistory
  <2> QED  BY <1>1, <2>2 DEF TypeOK, IsHistory
<1>3. CASE ~\E d \in Copies : phase[d] = "saving"
  <2>1. last' = [old |-> file, news |-> {SavedFile(config[c])}, clean |-> TRUE]
    BY <1>3 DEF SaveBegins, WholeFile
  <2> QED  BY <1>1, <2>1 DEF IsHistory
<1> QED  BY <1>2, <1>3

\* It stays so when a key is written, or not.
LEMMA EndsType ==
  ASSUME TypeOK, NEW c \in Copies, SaveEnds(c), alone' \in [Copies -> BOOLEAN]
  PROVE  IsHistory(last')
<1>1. IsFile(SavedFile(config[c]))  BY SavedType DEF TypeOK
<1>2. CASE last' = WholeFile(SavedFile(config[c]))
  BY <1>1, <1>2 DEF WholeFile, IsHistory
<1>3. ASSUME NEW b \in BOOLEAN, last' = [last EXCEPT !.clean = b]
      PROVE  IsHistory(last')
  <2>1. last' = [old |-> last.old, news |-> last.news, clean |-> b]
    BY <1>3 DEF TypeOK, IsHistory
  <2> QED  BY <2>1 DEF TypeOK, IsHistory
<1> QED  BY <1>2, <1>3 DEF SaveEnds

\* The initial states have the types of TypeOK.
LEMMA TypeInit == Init => TypeOK
  BY DEF Init, TypeOK, WholeFile, IsHistory

\* Every step keeps the types.
LEMMA TypeStep == TypeOK /\ [Next]_vars => TypeOK'
<1> SUFFICES ASSUME TypeOK, [Next]_vars PROVE TypeOK'
  OBVIOUS
<1> USE DEF TypeOK
<1>1. ASSUME NEW c \in Copies, Start(c) PROVE TypeOK'
  BY <1>1 DEF Start
<1>2. ASSUME NEW c \in Copies, LoadKey(c) PROVE TypeOK'
  <2>1. Key(c) \in KeySet  BY KeyType
  <2>2. PICK v \in Values[Key(c)] :
            config' = [config EXCEPT ![c][Key(c)] = v]
    BY <1>2, <2>1, LoadedType DEF LoadKey
  <2>3. config' \in [Copies -> Configs]  BY <2>1, <2>2, ConfigUpdate
  <2>4. alone' \in [Copies -> BOOLEAN]  BY <1>2 DEF LoadKey
  <2>5. /\ next' \in [Copies -> 1..Len(Keys)]
        /\ phase' \in [Copies -> Phases]
    BY <1>2, AdvanceType DEF LoadKey, Phases
  <2> QED  BY <1>2, <2>3, <2>4, <2>5 DEF LoadKey, Phases
<1>3. ASSUME NEW c \in Copies, NEW G \in Groups, NEW new \in Configs,
             Change(c, G, new)
      PROVE  TypeOK'
  <2>1. [k \in KeySet |-> IF k \in G THEN new[k] ELSE config[c][k]] \in Configs
    <3> DEFINE m == [k \in KeySet |-> IF k \in G THEN new[k] ELSE config[c][k]]
    <3>1. \A k \in KeySet : m[k] \in Values[k]  BY DEF Configs
    <3>2. m \in [KeySet -> UNION {Values[k] : k \in KeySet}]
      <4>1. \A k \in KeySet : m[k] \in UNION {Values[j] : j \in KeySet}
        BY <3>1
      <4> QED  BY <4>1
    <3> QED  BY <3>1, <3>2 DEF Configs
  <2>2. config' \in [Copies -> Configs]  BY <1>3, <2>1 DEF Change
  <2> QED  BY <1>3, <2>2 DEF Change
<1>4. ASSUME NEW c \in Copies, Close(c) PROVE TypeOK'
  <2>1. IsHistory(last')  BY <1>4, BeginsType DEF Close
  <2> QED  BY <1>4, <2>1 DEF Close
<1>5. ASSUME NEW c \in Copies, SaveKey(c) PROVE TypeOK'
  <2>1. Key(c) \in KeySet /\ Saved(config[c], Key(c)) \in Texts[Key(c)]
    BY KeyType, SavedType
  <2>2. IsFile(file')
    <3>1. CASE UNCHANGED file  BY <3>1 DEF IsFile
    <3>2. CASE file' = [file EXCEPT ![Key(c)] = Saved(config[c], Key(c))]
      BY <2>1, <3>2, FileUpdate
    <3> QED  BY <1>5, <3>1, <3>2 DEF SaveKey
  <2>3. alone' \in [Copies -> BOOLEAN]  BY <1>5 DEF SaveKey
  <2>4. /\ next' \in [Copies -> 1..Len(Keys)]
        /\ phase' \in [Copies -> Phases]
    BY <1>5, AdvanceType DEF SaveKey, Phases
  <2>5. config' \in [Copies -> Configs]  BY <1>5 DEF SaveKey, SaveEnds
  <2>6. IsFile(whole') \/ whole' = NoFile
    BY <1>5, SavedType DEF SaveKey, SaveEnds
  <2>7. IsHistory(last')  BY <1>5, <2>3, EndsType DEF SaveKey
  <2> QED  BY <2>2, <2>3, <2>4, <2>5, <2>6, <2>7 DEF Phases
<1>6. ASSUME NEW c \in Copies, Kill(c) PROVE TypeOK'
  BY <1>6 DEF Kill
<1>7. CASE UNCHANGED vars  BY <1>7 DEF vars
<1> QED  BY <1>1, <1>2, <1>3, <1>4, <1>5, <1>6, <1>7 DEF Next

\* Every variable keeps its type.
THEOREM TypeCorrect == Spec => []TypeOK
  BY TypeInit, TypeStep, PTL DEF Spec
-----------------------------------------------------------------------------
\* The initial states satisfy the invariant of the file.
LEMMA FileInit == Init => FileInv
  BY DEF Init, FileInv, FromFirst, Undisturbed, LastSaverWins, LoadedSoFar,
         SavedSoFar, Busy

\* A copy that starts has read nothing yet, and reads alone if none saves.
LEMMA FileStart ==
  ASSUME TypeOK, FileInv, NEW c \in Copies, Start(c)
  PROVE  FileInv'
<1> USE DEF TypeOK, FileInv
<1>1. /\ \A d \in Copies \ {c} : phase'[d] = phase[d] /\ alone'[d] = alone[d]
      /\ phase[c] = "closed" /\ phase'[c] = "loading"
      /\ alone'[c] = \A d \in Copies : phase[d] # "saving"
      /\ UNCHANGED <<file, next, config, whole>>
  BY DEF Start
<1>2. Undisturbed' /\ FromFirst'  BY <1>1 DEF Undisturbed, FromFirst, Busy
<1>3. LastSaverWins'  BY <1>1 DEF LastSaverWins
<1>4. next[c] = 1  BY <1>1 DEF FromFirst, Busy
<1>5. LoadedSoFar'  BY <1>1, <1>4 DEF LoadedSoFar, Loaded
<1>6. SavedSoFar'  BY <1>1 DEF SavedSoFar, Saved
<1> QED  BY <1>2, <1>3, <1>5, <1>6

\* One more key is read.
LEMMA FileLoadKey ==
  ASSUME TypeOK, FileInv, NEW c \in Copies, LoadKey(c)
  PROVE  FileInv'
<1> USE DEF TypeOK, FileInv
<1>1. /\ \A d \in Copies \ {c} :
            /\ phase'[d] = phase[d] /\ alone'[d] = alone[d]
            /\ next'[d] = next[d] /\ config'[d] = config[d]
      /\ phase[c] = "loading" /\ UNCHANGED <<file, whole>>
      /\ alone'[c] => alone[c]
  BY AdvanceType DEF LoadKey, Phases
<1>2. \/ phase'[c] = "loading" /\ next'[c] = next[c] + 1
      \/ phase'[c] = "running" /\ next'[c] = 1
  BY <1>1, AdvanceType DEF LoadKey, Phases
<1>3. Undisturbed' /\ FromFirst'
  BY <1>1, <1>2 DEF Undisturbed, FromFirst, Busy
<1>4. LastSaverWins'  BY <1>1 DEF LastSaverWins
<1>5. LoadedSoFar'
  <2> SUFFICES ASSUME NEW d \in Copies, phase'[d] = "loading", alone'[d],
                      NEW i \in 1..(next'[d] - 1)
               PROVE  config'[d][Keys[i]] = Loaded(file', Keys[i])
    BY DEF LoadedSoFar
  <2>1. CASE d # c
    <3>1. /\ phase[d] = "loading" /\ alone[d] /\ i \in 1..(next[d] - 1)
          /\ config'[d] = config[d] /\ file' = file
      BY <1>1, <2>1
    <3>2. config[d][Keys[i]] = Loaded(file, Keys[i])
      BY <3>1 DEF LoadedSoFar
    <3> QED  BY <3>1, <3>2 DEF Loaded
  <2>2. CASE d = c
    <3>1. next'[c] = next[c] + 1 /\ next[c] \in 1..Len(Keys)
      BY <1>2, <2>2
    <3>2. /\ Key(c) \in KeySet
          /\ config[c] \in [KeySet -> UNION {Values[k] : k \in KeySet}]
      BY KeyType DEF Configs
    <3>3. \/ config' = [config EXCEPT ![c][Key(c)] = Loaded(file, Key(c))]
          \/ alone' = [alone EXCEPT ![c] = FALSE]
      BY DEF LoadKey
    <3>4. config' = [config EXCEPT ![c][Key(c)] = Loaded(file, Key(c))]
      BY <2>2, <3>3
    <3>5. config'[c][Key(c)] = Loaded(file, Key(c))  BY <3>2, <3>4
    <3>6. \A k \in KeySet : k # Key(c) => config'[c][k] = config[c][k]
      BY <3>2, <3>4
    <3>7. CASE Keys[i] = Key(c)  BY <1>1, <2>2, <3>5, <3>7
    <3>8. CASE Keys[i] # Key(c)
      <4>1. i # next[c]  BY <3>8 DEF Key
      <4>2. i \in 1..(next[c] - 1)  BY <2>2, <3>1, <4>1
      <4>3. Keys[i] \in KeySet  BY <3>1, <4>2 DEF KeySet
      <4>4. config[c][Keys[i]] = Loaded(file, Keys[i])
        BY <1>1, <2>2, <4>2 DEF LoadedSoFar
      <4> QED  BY <1>1, <2>2, <3>6, <3>8, <4>3, <4>4
    <3> QED  BY <3>7, <3>8
  <2> QED  BY <2>1, <2>2
<1>6. SavedSoFar'  BY <1>1, <1>2 DEF SavedSoFar
<1> QED  BY <1>3, <1>4, <1>5, <1>6

\* The configuration of a copy that neither loads nor saves may change.
LEMMA FileChange ==
  ASSUME TypeOK, FileInv,
         NEW c \in Copies, NEW G \in Groups, NEW new \in Configs,
         Change(c, G, new)
  PROVE  FileInv'
<1> USE DEF TypeOK, FileInv
<1>1. /\ UNCHANGED <<file, phase, next, alone, whole>> /\ phase[c] = "running"
      /\ \A d \in Copies \ {c} : config'[d] = config[d]
  BY DEF Change
<1>2. Undisturbed' /\ FromFirst' /\ LastSaverWins'
  BY <1>1 DEF Undisturbed, FromFirst, Busy, LastSaverWins
<1>3. LoadedSoFar'  BY <1>1 DEF LoadedSoFar
<1>4. SavedSoFar'  BY <1>1 DEF SavedSoFar
<1> QED  BY <1>2, <1>3, <1>4

\* A copy that begins to save disturbs the others that are busy.
LEMMA FileClose ==
  ASSUME TypeOK, FileInv, NEW c \in Copies, Close(c)
  PROVE  FileInv'
<1> USE DEF TypeOK, FileInv
<1>1. /\ UNCHANGED <<file, next, config>> /\ whole' = NoFile
      /\ phase[c] = "running" /\ phase'[c] = "saving"
      /\ alone'[c] = \A e \in Copies : phase[e] # "saving"
      /\ \A d \in Copies \ {c} : /\ phase'[d] = phase[d]
                                /\ alone'[d] = (alone[d] /\ ~Busy(d))
  BY DEF Close
<1>2. next[c] = 1  BY <1>1 DEF FromFirst, Busy
<1>3. FromFirst' /\ LastSaverWins'  BY <1>1 DEF FromFirst, Busy, LastSaverWins
<1>4. Undisturbed'  BY <1>1 DEF Undisturbed, Busy
<1>5. LoadedSoFar'  BY <1>1, <1>2 DEF LoadedSoFar, Busy
<1>6. SavedSoFar'  BY <1>1, <1>2 DEF SavedSoFar, Busy
<1> QED  BY <1>3, <1>4, <1>5, <1>6

\* One more key is written; with the last one, the file of a save that nothing
\* disturbed is its configuration.
LEMMA FileSaveKey ==
  ASSUME TypeOK, FileInv, NEW c \in Copies, SaveKey(c)
  PROVE  FileInv'
<1> USE DEF TypeOK, FileInv
<1>1. /\ \A d \in Copies \ {c} : phase'[d] = phase[d] /\ next'[d] = next[d]
      /\ phase[c] = "saving"
      /\ \A d \in Copies \ {c} : alone'[d] = alone[d] /\ config'[d] = config[d]
      /\ alone'[c] => alone[c]
  BY AdvanceType DEF SaveKey, SaveEnds, Phases
<1>2. \/ /\ phase'[c] = "saving" /\ next'[c] = next[c] + 1
         /\ UNCHANGED <<whole, config>> /\ next[c] # Len(Keys)
      \/ /\ phase'[c] = "closed" /\ next'[c] = 1 /\ next[c] = Len(Keys)
         /\ whole' = IF alone'[c] THEN SavedFile(config[c]) ELSE NoFile
  BY <1>1, AdvanceType DEF SaveKey, SaveEnds, Phases
<1>3. /\ next[c] \in 1..Len(Keys) /\ Key(c) \in KeySet
      /\ file \in [KeySet -> UNION {Texts[k] : k \in KeySet}]
  BY KeyType DEF IsFile
<1>4. FromFirst'  BY <1>1, <1>2 DEF FromFirst, Busy
<1>5. whole = NoFile  BY <1>1 DEF Undisturbed
<1>6. Undisturbed'  BY <1>1, <1>2, <1>5 DEF Undisturbed, Busy
<1>7. alone'[c] =>
        \A i \in 1..next[c] : file'[Keys[i]] = Saved(config[c], Keys[i])
  <2> SUFFICES ASSUME alone'[c], NEW i \in 1..next[c]
               PROVE  file'[Keys[i]] = Saved(config[c], Keys[i])
    OBVIOUS
  <2>1. file' = [file EXCEPT ![Key(c)] = Saved(config[c], Key(c))]
    BY DEF SaveKey
  <2>2. Keys[i] \in KeySet  BY <1>3 DEF KeySet
  <2>3. CASE Keys[i] = Key(c)  BY <1>3, <2>1, <2>3
  <2>4. CASE Keys[i] # Key(c)
    <3>1. i \in 1..(next[c] - 1)  BY <1>3, <2>4 DEF Key
    <3>2. file[Keys[i]] = Saved(config[c], Keys[i])
      BY <1>1, <3>1 DEF SavedSoFar
    <3> QED  BY <1>3, <2>1, <2>2, <2>4, <3>2
  <2> QED  BY <2>3, <2>4
<1>8. SavedSoFar'
  <2> SUFFICES ASSUME NEW d \in Copies, phase'[d] = "saving", alone'[d],
                      NEW i \in 1..(next'[d] - 1)
               PROVE  file'[Keys[i]] = Saved(config'[d], Keys[i])
    BY DEF SavedSoFar
  <2>1. d = c  BY <1>1 DEF Undisturbed, Busy
  <2>2. config' = config /\ i \in 1..next[c]  BY <1>2, <1>3, <2>1
  <2> QED  BY <1>7, <2>1, <2>2
<1>9. LoadedSoFar'
  <2> SUFFICES ASSUME NEW d \in Copies, phase'[d] = "loading", alone'[d]
               PROVE  FALSE
    BY DEF LoadedSoFar
  <2> QED  BY <1>1, <1>2 DEF Undisturbed, Busy
<1>10. LastSaverWins'
  <2>1. CASE whole' = NoFile  BY <2>1 DEF LastSaverWins
  <2>2. CASE whole' # NoFile
    <3>1. next[c] = Len(Keys) /\ alone'[c] /\ whole' = SavedFile(config[c])
      BY <1>2, <1>5, <2>2
    <3>2. \A k \in KeySet : file'[k] = Saved(config[c], k)
      BY <1>7, <3>1 DEF KeySet
    <3>3. file' = [file EXCEPT ![Key(c)] = Saved(config[c], Key(c))]
      BY <3>1 DEF SaveKey
    <3>4. file' = SavedFile(config[c])
      BY <1>3, <3>2, <3>3 DEF SavedFile
    <3> QED  BY <3>1, <3>4 DEF LastSaverWins
  <2> QED  BY <2>1, <2>2
<1> QED  BY <1>4, <1>6, <1>8, <1>9, <1>10

\* A process that ends leaves the file, and what others have done, as it is.
LEMMA FileKill ==
  ASSUME TypeOK, FileInv, NEW c \in Copies, Kill(c)
  PROVE  FileInv'
<1> USE DEF TypeOK, FileInv
<1>1. /\ \A d \in Copies \ {c} :
            /\ phase'[d] = phase[d] /\ alone'[d] = alone[d]
            /\ next'[d] = next[d] /\ config'[d] = config[d]
      /\ phase'[c] = "closed" /\ next'[c] = 1 /\ ~alone'[c]
      /\ UNCHANGED <<file, whole>>
  BY DEF Kill
<1>2. Undisturbed' /\ FromFirst' /\ LastSaverWins'
  BY <1>1 DEF Undisturbed, FromFirst, Busy, LastSaverWins
<1>3. LoadedSoFar'  BY <1>1 DEF LoadedSoFar
<1>4. SavedSoFar'  BY <1>1 DEF SavedSoFar
<1> QED  BY <1>2, <1>3, <1>4

\* Every step keeps the invariant of the file.
LEMMA FileStep == TypeOK /\ FileInv /\ [Next]_vars => FileInv'
<1> SUFFICES ASSUME TypeOK, FileInv, [Next]_vars PROVE FileInv'
  OBVIOUS
<1>1. CASE UNCHANGED vars
  BY <1>1 DEF vars, FileInv, FromFirst, Undisturbed, LastSaverWins, LoadedSoFar,
              SavedSoFar, Busy
<1> QED
  BY <1>1, FileStart, FileLoadKey, FileChange, FileClose, FileSaveKey, FileKill
     DEF Next

\* The inductive invariant of the file.
THEOREM FileInvariant == Spec => []FileInv
  BY FileInit, FileStep, TypeInit, TypeStep, PTL DEF Spec

\* After an undisturbed save the file is what its copy saved, until another save
\* begins.
THEOREM LastSaverIsKept == Spec => []LastSaverWins
<1>1. FileInv => LastSaverWins  BY DEF FileInv
<1> QED  BY <1>1, FileInvariant, PTL

\* The last step of an undisturbed load leaves the file in memory.
LEMMA LastLoad ==
  ASSUME TypeOK, FileInv, NEW c \in Copies, LoadKey(c), phase'[c] = "running",
         alone'[c]
  PROVE  \A k \in KeySet : config'[c][k] = Loaded(file, k)
<1> USE DEF TypeOK, FileInv
<1>1. next[c] = Len(Keys)  BY AdvanceType DEF LoadKey, Phases
<1>2. /\ config' = [config EXCEPT ![c][Key(c)] = Loaded(file, Key(c))]
      /\ alone[c] /\ phase[c] = "loading"
  BY DEF LoadKey
<1>3. /\ Key(c) \in KeySet
      /\ config[c] \in [KeySet -> UNION {Values[k] : k \in KeySet}]
  BY KeyType DEF Configs
<1> TAKE k \in KeySet
<1>4. PICK i \in 1..Len(Keys) : k = Keys[i]  BY DEF KeySet
<1>5. CASE k = Key(c)  BY <1>2, <1>3, <1>5
<1>6. CASE k # Key(c)
  <2>1. i \in 1..(next[c] - 1)  BY <1>1, <1>4, <1>6 DEF Key
  <2>2. config[c][k] = Loaded(file, k)  BY <1>2, <1>4, <2>1 DEF LoadedSoFar
  <2> QED  BY <1>2, <1>3, <1>6, <2>2
<1> QED  BY <1>5, <1>6

\* A copy that loads undisturbed runs on one state of the file.
THEOREM OneStateLoaded == Spec => LoadsOneState
<1> DEFINE A == \A c \in Copies :
           phase[c] = "loading" /\ phase'[c] = "running" /\ alone'[c] =>
               \A k \in KeySet :
                   /\ config'[c][k] = Loaded(file, k)
                   /\ whole # NoFile => config'[c][k] = Loaded(whole, k)
<1>1. TypeOK /\ FileInv /\ [Next]_vars => [A]_vars
  <2> SUFFICES ASSUME TypeOK, FileInv, Next, NEW c \in Copies,
                      phase[c] = "loading", phase'[c] = "running", alone'[c]
               PROVE  \A k \in KeySet :
                          /\ config'[c][k] = Loaded(file, k)
                          /\ whole # NoFile =>
                                 config'[c][k] = Loaded(whole, k)
    OBVIOUS
  <2> USE DEF TypeOK, FileInv
  <2>1. LoadKey(c)
    <3>1. PICK d \in Copies :
            \/ Start(d) \/ LoadKey(d) \/ Close(d) \/ SaveKey(d) \/ Kill(d)
            \/ \E G \in Groups, new \in Configs : Change(d, G, new)
      BY DEF Next
    <3>2. CASE LoadKey(d)  BY <3>2, AdvanceType DEF LoadKey, Phases
    <3>3. CASE SaveKey(d)  BY <3>3, AdvanceType DEF SaveKey, Phases
    <3>4. CASE Start(d) \/ Close(d) \/ Kill(d)
      BY <3>4 DEF Start, Close, Kill
    <3>5. CASE \E G \in Groups, new \in Configs : Change(d, G, new)
      BY <3>5 DEF Change
    <3> QED  BY <3>1, <3>2, <3>3, <3>4, <3>5
  <2>2. \A k \in KeySet : config'[c][k] = Loaded(file, k)
    BY <2>1, LastLoad
  <2>3. whole # NoFile => file = whole  BY DEF LastSaverWins
  <2> QED  BY <2>2, <2>3
<1> QED
  BY <1>1, FileInvariant, TypeCorrect, PTL DEF Spec, LoadsOneState

\* A load or save that changes has fewer accesses to make, whatever fails.
THEOREM AccessesDwindle == Spec => AccessesRunOut
<1> DEFINE A == \A c \in Copies : Busy(c) =>
                    \/ phase'[c] = phase[c] /\ next'[c] = next[c]
                    \/ AccessesLeft(c)' < AccessesLeft(c)
<1>1. TypeOK /\ [Next]_vars => [A]_vars
  <2> SUFFICES ASSUME TypeOK, Next, NEW c \in Copies, Busy(c),
                      phase'[c] # phase[c] \/ next'[c] # next[c]
               PROVE  AccessesLeft(c)' < AccessesLeft(c)
    OBVIOUS
  <2>1. /\ next[c] \in 1..Len(Keys) /\ Len(Keys) \in Nat
        /\ AccessesLeft(c) = Len(Keys) + 1 - next[c]
    BY KeyType DEF AccessesLeft
  <2>2. ASSUME ~Busy(c)' PROVE AccessesLeft(c)' < AccessesLeft(c)
    <3>1. AccessesLeft(c)' = 0  BY <2>2 DEF AccessesLeft
    <3> QED  BY <2>1, <3>1
  <2>3. PICK d \in Copies :
          \/ Start(d) \/ LoadKey(d) \/ Close(d) \/ SaveKey(d) \/ Kill(d)
          \/ \E G \in Groups, new \in Configs : Change(d, G, new)
    BY DEF Next
  <2>4. CASE LoadKey(d) \/ SaveKey(d)
    <3>1. \/ Advance(d, "running") \/ Advance(d, "closed")
      BY <2>4 DEF LoadKey, SaveKey
    <3>2. c = d  BY <3>1, AdvanceType DEF Phases
    <3>3. CASE next[c] = Len(Keys)
      <4>1. phase'[c] \in {"running", "closed"}
        BY <3>1, <3>2, <3>3, AdvanceType DEF Phases
      <4> QED  BY <2>2, <4>1 DEF Busy
    <3>4. CASE next[c] # Len(Keys)
      <4>1. phase'[c] = phase[c] /\ next'[c] = next[c] + 1
        BY <3>1, <3>2, <3>4, AdvanceType DEF Phases
      <4>2. AccessesLeft(c)' = Len(Keys) + 1 - next'[c]
        BY <4>1 DEF AccessesLeft, Busy
      <4> QED  BY <2>1, <4>1, <4>2
    <3> QED  BY <3>3, <3>4
  <2>5. CASE Kill(d)
    <3>1. c = d /\ phase'[c] = "closed"  BY <2>5 DEF Kill, TypeOK
    <3> QED  BY <2>2, <3>1 DEF Busy
  <2>6. CASE Start(d) \/ Close(d)
    BY <2>6 DEF Start, Close, Busy, TypeOK
  <2>7. CASE \E G \in Groups, new \in Configs : Change(d, G, new)
    BY <2>7 DEF Change
  <2> QED  BY <2>3, <2>4, <2>5, <2>6, <2>7
<1> QED  BY <1>1, TypeCorrect, PTL DEF Spec, AccessesRunOut
-----------------------------------------------------------------------------
\* What a copy that saves writes is among what is being written, and a save on its
\* own whose writes succeeded has put its keys, so far, over the old file.
SaverInv ==
    \A c \in Copies : phase[c] = "saving" =>
        /\ SavedFile(config[c]) \in last.news
        /\ alone[c] => /\ last.clean
                       /\ file = Spliced(SavedFile(config[c]), last.old,
                                         next[c] - 1)

\* The inductive invariant behind SavedPiecewise.
SaveInv == SaverInv /\ SavedPiecewise

\* A file over which nothing has been written is itself.
LEMMA SplicedNothing ==
  ASSUME NEW f, NEW g, IsFile(g)
  PROVE  Spliced(f, g, 0) = g
  BY DEF Spliced, IsFile

\* One more key written over it.
LEMMA SplicedNext ==
  ASSUME NEW f, NEW g, NEW n \in 1..Len(Keys), NEW h, NEW written,
         h = Spliced(f, g, n - 1),
         written = [h EXCEPT ![Keys[n]] = f[Keys[n]]]
  PROVE  written = Spliced(f, g, n)
<1> DEFINE before == Spliced(f, g, n - 1)
           after == Spliced(f, g, n)
<1>1. before = [k \in KeySet |-> before[k]] /\ after = [k \in KeySet |-> after[k]]
  BY DEF Spliced
<1>2. ASSUME NEW k \in KeySet, k = Keys[n]
      PROVE  after[k] = f[k]
  BY <1>2 DEF Spliced
<1>3. ASSUME NEW k \in KeySet, k # Keys[n]
      PROVE  after[k] = before[k]
  <2>1. (\E i \in 1..n : Keys[i] = k) <=> (\E i \in 1..(n - 1) : Keys[i] = k)
    BY <1>3
  <2> QED  BY <2>1 DEF Spliced
<1> QED  BY <1>1, <1>2, <1>3

\* What a step has to show for the file after it.
LEMMA PiecewiseNext ==
  ASSUME \A k \in KeySet :
             \E f \in {last'.old} \cup last'.news : file'[k] = f[k],
         last'.clean =>
             \E f \in {last'.old} \cup last'.news, n \in 0..Len(Keys) :
                 file' = Spliced(f, last'.old, n)
  PROVE  SavedPiecewise'
<1>1. \A f, g, n : Spliced(f, g, n)' = Spliced(f, g, n)  BY DEF Spliced
<1> QED  BY <1>1 DEF SavedPiecewise

\* Only the file and those who save matter.
LEMMA SaveStays ==
  ASSUME TypeOK, SaveInv, UNCHANGED <<file, last>>,
         \A c \in Copies : phase'[c] = "saving" =>
             /\ phase[c] = "saving" /\ config'[c] = config[c]
             /\ next'[c] = next[c] /\ (alone'[c] => alone[c])
  PROVE  SaveInv'
<1>1. SavedPiecewise'  BY PiecewiseNext DEF SaveInv, SavedPiecewise
<1>2. SaverInv'
  <2> SUFFICES ASSUME NEW c \in Copies, phase'[c] = "saving"
               PROVE  SaverInv!(c)'
    BY DEF SaverInv
  <2>1. SavedFile(config[c])' = SavedFile(config[c])  BY DEF SavedFile, Saved
  <2>2. /\ SavedFile(config[c]) \in last.news
        /\ alone[c] => /\ last.clean
                       /\ file = Spliced(SavedFile(config[c]), last.old,
                                         next[c] - 1)
    BY DEF SaveInv, SaverInv
  <2> QED  BY <2>1, <2>2 DEF Spliced
<1> QED  BY <1>1, <1>2 DEF SaveInv

\* A save that begins has written nothing yet.
LEMMA SaveClose ==
  ASSUME TypeOK, FileInv, SaveInv, NEW c \in Copies, Close(c)
  PROVE  SaveInv'
<1> USE DEF TypeOK
<1>1. /\ UNCHANGED <<file, next, config>> /\ SaveBegins(c)
      /\ phase[c] = "running" /\ phase'[c] = "saving"
      /\ \A d \in Copies \ {c} : phase'[d] = phase[d]
      /\ next[c] = 1
  BY DEF Close, FileInv, FromFirst, Busy
<1>2. \A m : SavedFile(m)' = SavedFile(m)  BY DEF SavedFile, Saved
<1>3. IsFile(file)  OBVIOUS
<1>4. CASE \E d \in Copies : phase[d] = "saving"
  <2>1. /\ last'.old = last.old /\ ~last'.clean
        /\ last'.news = last.news \cup {SavedFile(config[c])}
    BY <1>1, <1>4 DEF SaveBegins, IsHistory
  <2>2. ASSUME NEW d \in Copies, phase'[d] = "saving" PROVE ~alone'[d]
    <3>1. CASE d = c  BY <1>4, <3>1 DEF Close
    <3>2. CASE d # c
      <4>1. Busy(d)  BY <1>1, <2>2, <3>2 DEF Busy
      <4> QED  BY <3>2, <4>1 DEF Close
    <3> QED  BY <3>1, <3>2
  <2>3. \A d \in Copies : phase'[d] = "saving" => SavedFile(config[d]) \in last'.news
    BY <1>1, <2>1 DEF SaveInv, SaverInv
  <2>4. SaverInv'  BY <1>1, <1>2, <2>2, <2>3 DEF SaverInv
  <2>5. \A k \in KeySet : 
        \E f \in {last'.old} \cup last'.news : file[k] = f[k]
    BY <2>1 DEF SaveInv, SavedPiecewise
  <2>6. SavedPiecewise'  BY <1>1, <2>1, <2>5, PiecewiseNext
  <2> QED  BY <2>4, <2>6 DEF SaveInv
<1>5. CASE ~\E d \in Copies : phase[d] = "saving"
  <2>1. /\ last'.old = file /\ last'.clean
        /\ last'.news = {SavedFile(config[c])}
    BY <1>1, <1>5 DEF SaveBegins, WholeFile
  <2>2. \A f : Spliced(f, file, 0) = file  BY <1>3, SplicedNothing
  <2>3. \A d \in Copies : phase'[d] = "saving" => d = c  BY <1>1, <1>5
  <2>4. SaverInv'
    <3>1. file' = Spliced(SavedFile(config[c]), last'.old, next[c] - 1)
      BY <1>1, <2>1, <2>2
    <3> QED  BY <1>1, <1>2, <2>1, <2>3, <3>1 DEF SaverInv, Spliced
  <2>5. SavedPiecewise'
    <3>1. file = Spliced(file, last'.old, 0)  BY <2>1, <2>2
    <3>2. 0 \in 0..Len(Keys)  OBVIOUS
    <3> QED  BY <1>1, <2>1, <3>1, <3>2, PiecewiseNext
  <2> QED  BY <2>4, <2>5 DEF SaveInv
<1> QED  BY <1>4, <1>5

\* A key is written, or its write fails.
LEMMA SaveSaveKey ==
  ASSUME TypeOK, TypeOK', FileInv, FileInv', SaveInv,
         NEW c \in Copies, SaveKey(c)
  PROVE  SaveInv'
<1> USE DEF TypeOK
<1> DEFINE new == SavedFile(config[c])
<1>1. /\ phase[c] = "saving" /\ SaveEnds(c)
      /\ \A d \in Copies \ {c} :
            /\ phase'[d] = phase[d] /\ next'[d] = next[d]
            /\ alone'[d] = alone[d] /\ config'[d] = config[d]
      /\ alone'[c] => alone[c]
  BY AdvanceType DEF SaveKey, SaveEnds, Phases
<1>2. /\ next[c] \in 1..Len(Keys) /\ Key(c) \in KeySet /\ Key(c) = Keys[next[c]]
      /\ file \in [KeySet -> UNION {Texts[k] : k \in KeySet}]
      /\ Saved(config[c], Key(c)) = new[Key(c)]
  BY KeyType DEF IsFile, Key, SavedFile
<1>3. new \in last.news  BY <1>1 DEF SaveInv, SaverInv
<1>4. ASSUME NEW d \in Copies \ {c}, phase[d] = "saving"
      PROVE  ~alone[d] /\ ~alone'[d] /\ ~alone[c] /\ ~alone'[c]
  BY <1>1, <1>4 DEF FileInv, Undisturbed, Busy
<1>5. \A m : SavedFile(m)' = SavedFile(m)  BY DEF SavedFile, Saved
<1>6. \/ file' = file
      \/ file' = [file EXCEPT ![Key(c)] = new[Key(c)]]
  BY <1>2 DEF SaveKey
<1>7. ASSUME alone'[c] PROVE file' = [file EXCEPT ![Key(c)] = new[Key(c)]]
  BY <1>2, <1>7 DEF SaveKey
<1>8. CASE next[c] = Len(Keys) /\ alone'[c]
  <2>1. last' = WholeFile(new) /\ whole' = new  BY <1>1, <1>8 DEF SaveEnds
  <2>2. IsFile(new)  BY SavedType
  <2>3. file' = new  BY <2>1, <2>2 DEF FileInv, LastSaverWins
  <2>4. phase'[c] = "closed"  BY <1>8, AdvanceType DEF SaveKey, Phases
  <2>5. SaverInv'
    <3>1. \A d \in Copies : phase'[d] # "saving"  BY <1>1, <1>4, <1>8, <2>4
    <3> QED  BY <3>1 DEF SaverInv
  <2>6. SavedPiecewise'
    <3>1. last'.old = new  BY <2>1 DEF WholeFile
    <3>2. file' = Spliced(new, new, 0)  BY <2>2, <2>3, SplicedNothing
    <3>3. 0 \in 0..Len(Keys)  OBVIOUS
    <3> QED  BY <2>3, <3>1, <3>2, <3>3, PiecewiseNext
  <2> QED  BY <2>5, <2>6 DEF SaveInv
<1>9. CASE ~(next[c] = Len(Keys) /\ alone'[c])
  <2>1. PICK b \in BOOLEAN : /\ last' = [last EXCEPT !.clean = b]
                             /\ b => next[c] # Len(Keys) /\ alone'[c]
                             /\ alone'[c] => b
    BY <1>1, <1>9 DEF SaveEnds
  <2>2. /\ last'.old = last.old /\ last'.news = last.news /\ last'.clean = b
    BY <2>1 DEF IsHistory
  <2>3. ASSUME alone'[c] PROVE file' = Spliced(new, last.old, next[c])
    <3>1. file = Spliced(new, last.old, next[c] - 1)
      BY <1>1, <2>3 DEF SaveInv, SaverInv
    <3>2. file' = [file EXCEPT ![Keys[next[c]]] = new[Keys[next[c]]]]
      BY <1>2, <1>7, <2>3
    <3>3. next[c] \in 1..Len(Keys)  BY <1>2
    <3> HIDE DEF new
    <3> QED  BY <3>1, <3>2, <3>3, SplicedNext
  <2>4. SavedPiecewise'
    <3>1. \A k \in KeySet : file'[k] = file[k] \/ file'[k] = new[k]
      BY <1>2, <1>6
    <3>2. \A k \in KeySet :
              \E f \in {last.old} \cup last.news : file[k] = f[k]
      BY DEF SaveInv, SavedPiecewise
    <3>3. \A k \in KeySet :
              \E f \in {last.old} \cup last.news : file'[k] = f[k]
      BY <1>3, <3>1, <3>2
    <3>4. b => file' = Spliced(new, last.old, next[c]) /\ next[c] \in 0..Len(Keys)
      BY <1>2, <2>1, <2>3
    <3> QED  BY <1>3, <2>2, <3>3, <3>4, PiecewiseNext
  <2>5. SaverInv'
    <3> SUFFICES ASSUME NEW d \in Copies, phase'[d] = "saving"
                 PROVE  SaverInv!(d)'
      BY DEF SaverInv
    <3>1. CASE d # c
      <4>1. ~alone'[d] /\ SavedFile(config[d]) \in last.news
        BY <1>1, <1>4, <3>1 DEF SaveInv, SaverInv
      <4> QED  BY <1>1, <1>5, <2>2, <3>1, <4>1
    <3>2. CASE d = c
      <4>1. next'[c] = next[c] + 1 /\ config' = config
        BY <1>1, <3>2, AdvanceType DEF SaveKey, SaveEnds, Phases
      <4>2. next'[c] - 1 = next[c]  BY <1>2, <4>1
      <4>3. alone'[c] => last'.clean  BY <2>1, <2>2
      <4>4. SavedFile(config[c])' = new  BY <4>1 DEF SavedFile, Saved
      <4>5. alone'[c] => file' = Spliced(new, last.old, next[c])  BY <2>3
      <4> QED  BY <1>3, <2>2, <3>2, <4>2, <4>3, <4>4, <4>5 DEF Spliced
    <3> QED  BY <3>1, <3>2
  <2> QED  BY <2>4, <2>5 DEF SaveInv
<1> QED  BY <1>8, <1>9

\* Every step keeps the invariant of the saves.
LEMMA SaveStep ==
  ASSUME TypeOK, TypeOK', FileInv, FileInv', SaveInv, [Next]_vars
  PROVE  SaveInv'
<1> USE DEF TypeOK
<1>1. ASSUME NEW c \in Copies, Start(c) PROVE SaveInv'
  BY <1>1, SaveStays DEF Start
<1>2. ASSUME NEW c \in Copies, LoadKey(c) PROVE SaveInv'
  <2>1. /\ UNCHANGED <<file, last>> /\ phase'[c] \in {"loading", "running"}
        /\ \A d \in Copies \ {c} :
              /\ phase'[d] = phase[d] /\ next'[d] = next[d]
              /\ alone'[d] = alone[d] /\ config'[d] = config[d]
    BY <1>2, AdvanceType DEF LoadKey, Phases
  <2> QED  BY <2>1, SaveStays
<1>3. ASSUME NEW c \in Copies, Kill(c) PROVE SaveInv'
  BY <1>3, SaveStays DEF Kill
<1>4. ASSUME NEW c \in Copies, NEW G \in Groups, NEW m \in Configs,
             Change(c, G, m)
      PROVE  SaveInv'
  BY <1>4, SaveStays DEF Change
<1>5. CASE UNCHANGED vars  BY <1>5, SaveStays DEF vars
<1> QED
  BY <1>1, <1>2, <1>3, <1>4, <1>5, SaveClose, SaveSaveKey DEF Next

\* Whatever is killed, fails or overlaps while keys are written, the file has for
\* each key its text from before or one of those being written; a save on its own
\* whose writes succeed leaves its own keys up to where it was killed.
THEOREM SavesArePiecewise == Spec => []SavedPiecewise
<1>1. Init => SaveInv
  <2> SUFFICES ASSUME Init PROVE SaveInv
    OBVIOUS
  <2>1. SaverInv  BY DEF Init, SaverInv
  <2>2. last.old = file /\ IsFile(file)  BY DEF Init, WholeFile
  <2>3. file = Spliced(file, last.old, 0)  BY <2>2, SplicedNothing
  <2>4. 0 \in 0..Len(Keys)  OBVIOUS
  <2> QED  BY <2>1, <2>2, <2>3, <2>4 DEF SaveInv, SavedPiecewise
<1>2. TypeOK /\ TypeOK' /\ FileInv /\ FileInv' /\ SaveInv /\ [Next]_vars
          => SaveInv'
  BY SaveStep
<1>3. SaveInv => SavedPiecewise  BY DEF SaveInv
<1> QED  BY <1>1, <1>2, <1>3, TypeCorrect, FileInvariant, PTL DEF Spec
-----------------------------------------------------------------------------
\* No access fails, no process dies while it saves, and copies are opened and
\* closed one after the other.
Orderly == /\ "read" \notin Faults /\ "write" \notin Faults
           /\ "kill_saving" \notin Faults /\ "overlap" \notin Faults

\* At most one copy is busy then, and nothing disturbs it.
OneBusy ==
    \A c \in Copies : Busy(c) =>
        alone[c] /\ \A d \in Copies \ {c} : ~Busy(d)

\* The initial states satisfy it.
LEMMA BusyInit == Init => OneBusy
  BY DEF Init, OneBusy, Busy

\* Every step keeps it.
LEMMA BusyStep ==
  ASSUME TypeOK, OneBusy, [Next]_vars, Orderly
  PROVE  OneBusy'
<1> USE DEF TypeOK, OneBusy, Busy, Orderly
<1>1. ASSUME NEW c \in Copies, Start(c) PROVE OneBusy'
  BY <1>1 DEF Start, MayBegin
<1>2. ASSUME NEW c \in Copies, LoadKey(c) PROVE OneBusy'
  <2>1. /\ phase[c] = "loading" /\ alone' = alone
        /\ phase'[c] \in {"loading", "running"}
        /\ \A d \in Copies \ {c} : phase'[d] = phase[d]
    BY <1>2, AdvanceType DEF LoadKey, Phases
  <2> QED  BY <2>1
<1>3. ASSUME NEW c \in Copies, Close(c) PROVE OneBusy'
  BY <1>3 DEF Close, MayBegin
<1>4. ASSUME NEW c \in Copies, SaveKey(c) PROVE OneBusy'
  <2>1. /\ phase[c] = "saving" /\ alone' = alone
        /\ phase'[c] \in {"saving", "closed"}
        /\ \A d \in Copies \ {c} : phase'[d] = phase[d]
    BY <1>4, AdvanceType DEF SaveKey, Phases
  <2> QED  BY <2>1
<1>5. ASSUME NEW c \in Copies, Kill(c) PROVE OneBusy'
  BY <1>5 DEF Kill
<1>6. ASSUME NEW c \in Copies, NEW G \in Groups, NEW new \in Configs,
             Change(c, G, new)
      PROVE  OneBusy'
  BY <1>6 DEF Change
<1>7. CASE UNCHANGED vars  BY <1>7 DEF vars
<1> QED  BY <1>1, <1>2, <1>3, <1>4, <1>5, <1>6, <1>7 DEF Next

\* The state of the store that a state of the file stands for.
StoredFile == IF Saving = {} THEN file
              ELSE SavedFile(config[CHOOSE c \in Saving : TRUE])
Memory == [c \in Copies |-> IF c \in Running THEN config[c] ELSE Constructed]

\* While a copy saves, the store already holds its configuration.
LEMMA StoredWhileSaving ==
  ASSUME OneBusy, NEW c \in Copies, phase[c] = "saving"
  PROVE  StoredFile = SavedFile(config[c])
<1>1. Saving = {c}  BY DEF OneBusy, Busy, Saving
<1> QED  BY <1>1 DEF StoredFile

\* A copy that begins to load finds the store empty for itself.
LEMMA StoredWhileLoading ==
  ASSUME OneBusy, NEW c \in Copies, phase[c] \in {"loading", "running"},
         phase[c] = "running" => \A d \in Copies : ~Busy(d)
  PROVE  Saving = {} /\ StoredFile = file
<1>1. Saving = {}  BY DEF OneBusy, Busy, Saving
<1> QED  BY <1>1 DEF StoredFile

\* What is stored does not change when the file and those who save stay.
LEMMA StoredStays ==
  ASSUME OneBusy, file' = file, Saving' = Saving,
         \A c \in Saving : config'[c] = config[c]
  PROVE  StoredFile' = StoredFile
<1>1. CASE Saving = {}  BY <1>1 DEF StoredFile
<1>2. CASE Saving # {}
  <2>1. (CHOOSE c \in Saving : TRUE) \in Saving  BY <1>2
  <2> QED  BY <1>2, <2>1 DEF StoredFile, SavedFile, Saved
<1> QED  BY <1>1, <1>2

\* It changes when a save begins only.
LEMMA StoredKept ==
  ASSUME TypeOK, TypeOK', OneBusy, OneBusy', FileInv, FileInv', Orderly,
         NEW c \in Copies,
         \/ Start(c) \/ LoadKey(c) \/ SaveKey(c) \/ Kill(c)
         \/ \E G \in Groups, new \in Configs : Change(c, G, new)
  PROVE  StoredFile' = StoredFile
<1> USE DEF TypeOK, Orderly
<1>1. CASE Start(c)
  <2>1. Saving' = Saving  BY <1>1 DEF Start, Saving
  <2> QED  BY <1>1, <2>1, StoredStays DEF Start
<1>2. CASE LoadKey(c)
  <2>1. /\ phase[c] = "loading" /\ file' = file
        /\ phase'[c] \in {"loading", "running"}
        /\ \A d \in Copies \ {c} : phase'[d] = phase[d]
    BY <1>2, AdvanceType DEF LoadKey, Phases
  <2>2. Saving = {} /\ StoredFile = file  BY <2>1, StoredWhileLoading
  <2>3. Saving' = {}  BY <2>1, <2>2 DEF Saving
  <2> QED  BY <2>1, <2>2, <2>3 DEF StoredFile
<1>3. CASE SaveKey(c)
  <2>1. /\ phase[c] = "saving" /\ phase'[c] \in {"saving", "closed"}
        /\ \A d \in Copies \ {c} :
               phase'[d] = phase[d] /\ config'[d] = config[d]
    BY <1>3, AdvanceType DEF SaveKey, SaveEnds, Phases
  <2>2. StoredFile = SavedFile(config[c])  BY <2>1, StoredWhileSaving
  <2>3. CASE phase'[c] = "saving"
    <3>1. config' = config
      BY <1>3, <2>3, AdvanceType DEF SaveKey, SaveEnds, Phases
    <3>2. Saving' = {c}  BY <2>3 DEF OneBusy, Busy, Saving
    <3> QED  BY <2>2, <3>1, <3>2 DEF StoredFile, SavedFile, Saved
  <2>4. CASE phase'[c] = "closed"
    <3>1. Saving' = {}  BY <2>1, <2>4 DEF OneBusy, Busy, Saving
    <3>2. /\ next[c] = Len(Keys) /\ alone'[c]
          /\ whole' = SavedFile(config[c])
      BY <1>3, <2>1, <2>4, AdvanceType
         DEF SaveKey, SaveEnds, Phases, OneBusy, Busy
    <3>3. file' = whole'
      BY <2>1, <3>2, SavedType DEF FileInv, LastSaverWins
    <3> QED  BY <2>2, <3>1, <3>2, <3>3 DEF StoredFile
  <2> QED  BY <2>1, <2>3, <2>4
<1>4. CASE Kill(c)
  <2>1. /\ phase[c] # "saving" /\ phase'[c] = "closed" /\ file' = file
        /\ \A d \in Copies \ {c} :
               phase'[d] = phase[d] /\ config'[d] = config[d]
    BY <1>4 DEF Kill
  <2>2. Saving' = Saving /\ \A d \in Saving : config'[d] = config[d]
    BY <2>1 DEF Saving
  <2> QED  BY <2>1, <2>2, StoredStays
<1>5. ASSUME NEW G \in Groups, NEW new \in Configs, Change(c, G, new)
      PROVE  StoredFile' = StoredFile
  <2>1. Saving' = Saving /\ \A d \in Saving : config'[d] = config[d]
    BY <1>5 DEF Change, Saving
  <2> QED  BY <1>5, <2>1, StoredStays DEF Change
<1> QED  BY <1>1, <1>2, <1>3, <1>4, <1>5

\* A load ends with what is stored.
LEMMA StoredLoaded ==
  ASSUME TypeOK, TypeOK', OneBusy, FileInv, Orderly, NEW c \in Copies,
         LoadKey(c), phase'[c] = "running"
  PROVE  config'[c] = [k \in KeySet |-> Reread[k][StoredFile[k]]]
<1> USE DEF TypeOK, Orderly
<1>1. phase[c] = "loading" /\ alone' = alone /\ alone[c]
  BY DEF LoadKey, OneBusy, Busy
<1>2. StoredFile = file  BY <1>1, StoredWhileLoading
<1>3. \A k \in KeySet : config'[c][k] = Loaded(file, k)  BY <1>1, LastLoad
<1>4. config'[c] \in [KeySet -> UNION {Values[k] : k \in KeySet}]
  <2>1. config'[c] \in Configs  OBVIOUS
  <2> QED  BY <2>1 DEF Configs
<1> QED  BY <1>2, <1>3, <1>4 DEF Loaded

\* A save begins by storing the configuration.
LEMMA StoredSaved ==
  ASSUME TypeOK, OneBusy', NEW c \in Copies, Close(c)
  PROVE  StoredFile' = SavedFile(config[c])
<1>1. phase'[c] = "saving" /\ config' = config  BY DEF Close, TypeOK
<1>2. Saving' = {c}  BY <1>1 DEF OneBusy, Busy, Saving
<1> QED  BY <1>1, <1>2 DEF StoredFile, SavedFile, Saved

\* Every step of the file is a step of the store, or none.
LEMMA StoreStep ==
  ASSUME TypeOK, TypeOK', OneBusy, OneBusy', FileInv, FileInv',
         [Next]_vars, Orderly
  PROVE  [Store!Next]_(Store!vars)
<1> USE DEF TypeOK, Orderly
<1> SUFFICES \/ UNCHANGED <<StoredFile, Running, Memory>>
             \/ Store!Next
  BY DEF Store!vars, StoredFile, Memory
<1>1. ASSUME NEW c \in Copies, Start(c)
      PROVE  UNCHANGED <<StoredFile, Running, Memory>>
  <2>1. StoredFile' = StoredFile  BY <1>1, StoredKept
  <2>2. Running' = Running  BY <1>1 DEF Start, Running
  <2> QED  BY <1>1, <2>1, <2>2 DEF Start, Memory
<1>2. ASSUME NEW c \in Copies, LoadKey(c)
      PROVE  UNCHANGED <<StoredFile, Running, Memory>> \/ Store!Open(c)
  <2>1. /\ phase[c] = "loading" /\ phase'[c] \in {"loading", "running"}
        /\ \A d \in Copies \ {c} :
               phase'[d] = phase[d] /\ config'[d] = config[d]
    BY <1>2, AdvanceType DEF LoadKey, Phases
  <2>2. StoredFile' = StoredFile  BY <1>2, StoredKept
  <2>3. c \notin Running  BY <2>1 DEF Running
  <2>4. CASE phase'[c] = "loading"
    <3>1. Running' = Running  BY <2>1, <2>4 DEF Running
    <3>2. Memory' = Memory  BY <2>1, <2>3, <3>1 DEF Memory
    <3> QED  BY <2>2, <3>1, <3>2
  <2>5. CASE phase'[c] = "running"
    <3>1. Running' = Running \cup {c}  BY <2>1, <2>5 DEF Running
    <3>2. Memory' = [Memory EXCEPT
                        ![c] = [k \in KeySet |-> Reread[k][StoredFile[k]]]]
      BY <1>2, <2>1, <2>5, <3>1, StoredLoaded DEF Memory
    <3> QED  BY <2>2, <2>3, <3>1, <3>2 DEF Store!Open, StoredFile, Memory
  <2> QED  BY <2>1, <2>4, <2>5
<1>3. ASSUME NEW c \in Copies, NEW G \in Groups, NEW new \in Configs,
             Change(c, G, new)
      PROVE  Store!Assign(c, G)
  <2>1. Running' = Running /\ c \in Running  BY <1>3 DEF Change, Running
  <2>2. StoredFile' = StoredFile  BY <1>3, StoredKept
  <2>3. /\ Memory'[c] \in Configs
        /\ \A k \in KeySet \ G : Memory'[c][k] = Memory[c][k]
    <3>1. config'[c] \in Configs  OBVIOUS
    <3> QED  BY <1>3, <2>1, <3>1 DEF Change, Memory
  <2>4. Memory' = [Memory EXCEPT ![c] = Memory'[c]]
    BY <1>3, <2>1 DEF Change, Memory
  <2> QED  BY <2>1, <2>2, <2>3, <2>4 DEF Store!Assign, StoredFile, Memory
<1>4. ASSUME NEW c \in Copies, Close(c) PROVE Store!Save(c)
  <2>1. /\ phase[c] = "running" /\ phase'[c] = "saving"
        /\ \A d \in Copies \ {c} : phase'[d] = phase[d]
        /\ config' = config
    BY <1>4 DEF Close
  <2>2. Running' = Running \ {c} /\ c \in Running  BY <2>1 DEF Running
  <2>3. Memory' = [Memory EXCEPT ![c] = Constructed] /\ Memory[c] = config[c]
    BY <2>1, <2>2 DEF Memory
  <2>4. StoredFile' = [k \in KeySet |-> Written[k][Memory[c][k]]]
    BY <1>4, <2>3, StoredSaved DEF SavedFile, Saved
  <2> QED
    BY <2>2, <2>3, <2>4 DEF Store!Save, Store!Leave, StoredFile, Memory
<1>5. ASSUME NEW c \in Copies, SaveKey(c)
      PROVE  UNCHANGED <<StoredFile, Running, Memory>>
  <2>1. /\ phase[c] = "saving" /\ phase'[c] \in {"saving", "closed"}
        /\ \A d \in Copies \ {c} :
               phase'[d] = phase[d] /\ config'[d] = config[d]
    BY <1>5, AdvanceType DEF SaveKey, SaveEnds, Phases
  <2>2. Running' = Running /\ c \notin Running  BY <2>1 DEF Running
  <2>3. Memory' = Memory  BY <2>1, <2>2 DEF Memory
  <2> QED  BY <1>5, <2>2, <2>3, StoredKept
<1>6. ASSUME NEW c \in Copies, Kill(c)
      PROVE  UNCHANGED <<StoredFile, Running, Memory>> \/ Store!Die(c)
  <2>1. /\ phase[c] \in {"loading", "running"} /\ phase'[c] = "closed"
        /\ \A d \in Copies \ {c} :
               phase'[d] = phase[d] /\ config'[d] = config[d]
    BY <1>6 DEF Kill
  <2>2. StoredFile' = StoredFile  BY <1>6, StoredKept
  <2>3. CASE phase[c] = "loading"
    <3>1. Running' = Running /\ c \notin Running  BY <2>1, <2>3 DEF Running
    <3>2. Memory' = Memory  BY <2>1, <3>1 DEF Memory
    <3> QED  BY <2>2, <3>1, <3>2
  <2>4. CASE phase[c] = "running"
    <3>1. Running' = Running \ {c} /\ c \in Running  BY <2>1, <2>4 DEF Running
    <3>2. Memory' = [Memory EXCEPT ![c] = Constructed]
      BY <2>1, <3>1 DEF Memory
    <3> QED
      BY <2>2, <3>1, <3>2 DEF Store!Die, Store!Leave, StoredFile, Memory
  <2> QED  BY <2>1, <2>3, <2>4
<1>7. CASE UNCHANGED vars
  BY <1>7 DEF vars, StoredFile, SavedFile, Saved, Running, Saving, Memory
<1> QED
  BY <1>1, <1>2, <1>3, <1>4, <1>5, <1>6, <1>7 DEF Next, Store!Next

\* One copy at a time is busy, always.
LEMMA OneIsBusy ==
  ASSUME Orderly
  PROVE  Spec => []OneBusy
<1>1. TypeOK /\ OneBusy /\ [Next]_vars => OneBusy'  BY BusyStep
<1> QED  BY <1>1, BusyInit, TypeCorrect, PTL DEF Spec

\* The ten accesses of a load or of a save are one step of an atomic store,
\* where nothing fails and copies are opened and closed one after the other.
THEOREM FileImplementsStore ==
  ASSUME Orderly
  PROVE  Spec => KeepsStore
<1>1. Init => Store!Init
  BY DEF Init, Store!Init, Running
<1>2. /\ TypeOK /\ TypeOK' /\ OneBusy /\ OneBusy' /\ FileInv /\ FileInv'
      /\ [Next]_vars
      => [Store!Next]_(Store!vars)
  BY StoreStep
<1> QED
  BY <1>1, <1>2, OneIsBusy, TypeCorrect, FileInvariant, PTL
     DEF Spec, KeepsStore, Store!Spec
=============================================================================
