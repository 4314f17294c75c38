------------------------------- MODULE IniText -------------------------------
(***************************************************************************)
(* What becomes of a text of the configuration, say a password, when it is *)
(* saved and loaded by one run of the tool after another.  AppConfig takes *)
(* these conversions as constants: Written is Save and Reread is Load.     *)
(***************************************************************************)
EXTENDS Integers, Sequences

CONSTANTS
    Chars,    \* characters
    Blanks,   \* those that are dropped at both ends of a value
    Quotes,   \* those that may enclose one
    Ansi,     \* what the code page of the file makes of a character
    BufSize,  \* the size of strBuff: 150
    Typed     \* bound: what the operator may type

Texts == Seq(Chars)

ASSUME TextAssumption ==
    /\ Blanks \subseteq Chars /\ Quotes \subseteq Chars \ Blanks
    /\ Ansi \in [Chars -> Chars]
    \* What the code page has, it leaves as it is.
    /\ \A c \in Chars : Ansi[Ansi[c]] = Ansi[c]
    /\ BufSize \in Nat \ {0}
    /\ Typed \subseteq Texts

VARIABLES
    value,  \* m_password, while a copy runs
    text,   \* what follows "password =" in the file
    since   \* history: the value was "typed" in this run, or "loaded"

vars == <<value, text, since>>

Init == value \in Typed /\ text = << >> /\ since = "typed"
-----------------------------------------------------------------------------
\* Mutant: a quote at the begin is doubled, which loading does not undo.
SaveEscaped(v) ==
    IF v # << >> /\ v[1] \in Quotes
    THEN [i \in 1..(Len(v) + 1) |-> Ansi[v[IF i = 1 THEN 1 ELSE i - 1]]]
    ELSE [i \in DOMAIN v |-> Ansi[v[i]]]

\* WritePrivateProfileString (external) converts to the code page of the file.
Save(v) == [i \in DOMAIN v |-> Ansi[v[i]]]

\* The positions that are not blank.
Inked(t) == {i \in DOMAIN t : t[i] \notin Blanks}

Trimmed(t) ==
    IF Inked(t) = {} THEN << >>
    ELSE LET first == CHOOSE i \in Inked(t) : \A j \in Inked(t) : i <= j
             last  == CHOOSE i \in Inked(t) : \A j \in Inked(t) : i >= j
         IN  SubSeq(t, first, last)

Quoted(t) == Len(t) >= 2 /\ t[1] \in Quotes /\ t[Len(t)] = t[1]

\* Mutant: quotes that do not match are taken off, too.
UnquotedAny(t) ==
    IF Len(t) >= 2 /\ t[1] \in Quotes /\ t[Len(t)] \in Quotes
    THEN SubSeq(t, 2, Len(t) - 1) ELSE t

Unquoted(t) == IF Quoted(t) THEN SubSeq(t, 2, Len(t) - 1) ELSE t

\* Mutant: the zero is forgotten.
CutWithoutZero(t) == IF Len(t) <= BufSize THEN t ELSE SubSeq(t, 1, BufSize)

Cut(t) == IF Len(t) < BufSize THEN t ELSE SubSeq(t, 1, BufSize - 1)

\* GetPrivateProfileString (external) into strBuff, whose last TCHAR is the zero.
Load(t) == Cut(Unquoted(Trimmed(t)))

\* A run ends and the next one begins; nothing is typed.
Restart == /\ text' = Save(value)
           /\ value' = Load(text')
           /\ since' = "loaded"

Spec == Init /\ [][Restart]_vars
=============================================================================
