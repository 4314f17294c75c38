---------------------------- MODULE AppConfigProps ----------------------------
(***************************************************************************)
(* What the configuration file must satisfy.                               *)
(***************************************************************************)
EXTENDS AppConfig

\* What the history of the saves is: three fields, two of them of files.
IsHistory(h) ==
    /\ IsFile(h.old) /\ \A f \in h.news : IsFile(f)
    /\ h = [old |-> h.old, news |-> h.news, clean |-> h.clean]
    /\ h.clean \in BOOLEAN

\* Every variable keeps its type.
TypeOK ==
    /\ IsFile(file) /\ (IsFile(whole) \/ whole = NoFile)
    /\ phase \in [Copies -> {"closed", "loading", "running", "saving"}]
    /\ next \in [Copies -> 1..Len(Keys)]
    /\ config \in [Copies -> Configs]
    /\ alone \in [Copies -> BOOLEAN]
    /\ IsHistory(last)

\* After a save that nothing disturbed the file is the configuration of the copy
\* that saved, all of it, until the next save begins: neither the crash of a
\* copy, nor copies that load, nor writes that failed earlier show in it.
LastSaverWins == whole # NoFile => file = whole

\* A load or save that is undisturbed has the file to itself, as far as writing
\* goes; so has the file that an undisturbed save has left.
Undisturbed ==
    /\ \A c \in Copies : Busy(c) /\ alone[c] =>
           \A d \in Copies \ {c} : phase[d] # "saving"
    /\ whole # NoFile => \A c \in Copies : phase[c] # "saving"

\* Every load and every save begins with the first key.
FromFirst == \A c \in Copies : ~Busy(c) => next[c] = 1

\* What it has read so far is the file as it is, and what it has written so far is
\* its configuration.
LoadedSoFar ==
    \A c \in Copies : phase[c] = "loading" /\ alone[c] =>
        \A i \in 1..(next[c] - 1) : config[c][Keys[i]] = Loaded(file, Keys[i])
SavedSoFar ==
    \A c \in Copies : phase[c] = "saving" /\ alone[c] =>
        \A i \in 1..(next[c] - 1) : file[Keys[i]] = Saved(config[c], Keys[i])

\* The inductive invariant behind the properties of the file.
FileInv == FromFirst /\ Undisturbed /\ LastSaverWins /\ LoadedSoFar /\ SavedSoFar

\* The file f as far as the n-th key, and the file g from there on.
Spliced(f, g, n) ==
    [k \in KeySet |-> IF \E i \in 1..n : Keys[i] = k THEN f[k] ELSE g[k]]

\* What a save that is killed, misses a write or overlaps another can leave.  A key
\* has its text from before, or that of one of the saves, and no other.  A save on
\* its own whose writes succeed leaves, wherever it is killed, the new file up to
\* there and the old one after: not one configuration (the host may be new and the
\* password old), but never a key of neither.
SavedPiecewise ==
    /\ \A k \in KeySet : \E f \in {last.old} \cup last.news : file[k] = f[k]
    /\ last.clean => \E f \in {last.old} \cup last.news, n \in 0..Len(Keys) :
                         file = Spliced(f, last.old, n)

\* A copy that loaded while no other saved has read all keys from one state of the
\* file, although each access opens it anew.  That is one configuration, the one
\* saved last, only where the save was undisturbed too; else it is what
\* SavedPiecewise describes.
LoadsOneState ==
    [][\A c \in Copies :
           phase[c] = "loading" /\ phase'[c] = "running" /\ alone'[c] =>
               \A k \in KeySet :
                   /\ config'[c][k] = Loaded(file, k)
                   /\ whole # NoFile => config'[c][k] = Loaded(whole, k)]_vars

\* How many accesses a load or a save has yet to make.
AccessesLeft(c) == IF Busy(c) THEN Len(Keys) + 1 - next[c] ELSE 0

\* Whatever changes in a load or a save, and whether an access succeeds or not,
\* fewer accesses are left: none is repeated, by no copy's doing, so that a load
\* and a save end as long as the UI thread runs.
AccessesRunOut ==
    [][\A c \in Copies : Busy(c) =>
           \/ phase'[c] = phase[c] /\ next'[c] = next[c]
           \/ AccessesLeft(c)' < AccessesLeft(c)]_vars
-----------------------------------------------------------------------------
\* The store changes when a save begins, and a load takes effect when it ends.
Saving == {c \in Copies : phase[c] = "saving"}
Running == {c \in Copies : phase[c] = "running"}

Store == INSTANCE ConfigStore WITH
             Blank  <- Constructed,
             stored <- IF Saving = {} THEN file
                       ELSE SavedFile(config[CHOOSE c \in Saving : TRUE]),
             open   <- Running,
             memory <- [c \in Copies |-> IF c \in Running THEN config[c]
                                         ELSE Constructed]

\* The ten accesses of a load or of a save are together one step of a store.
\* It is claimed where no access fails, no process dies in the middle of a save
\* and copies are opened and closed one after the other.
KeepsStore == Store!Spec
=============================================================================
