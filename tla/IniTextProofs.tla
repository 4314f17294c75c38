---------------------------- MODULE IniTextProofs ----------------------------
(***************************************************************************)
(* Which texts the configuration file keeps, for texts and buffers of any  *)
(* length, any characters and any code page.                               *)
(***************************************************************************)
EXTENDS IniTextProps, SequenceTheorems, FiniteSetTheorems, TLAPS

\* Y is a proper part of X.
Contains(X, Y) == Y \subseteq X /\ Y # X

\* Among sets of positions there is one that contains no other of them.
LEMMA Minimal ==
  ASSUME NEW n \in Nat, NEW F \in SUBSET SUBSET (1..n), F # {}
  PROVE  \E X \in F : \A Y \in F : ~Contains(X, Y)
<1> DEFINE R == StrictSubsetOrdering(1..n)
<1>1. IsFiniteSet(1..n)  BY FS_Interval
<1>2. IsWellFoundedOn(R, FiniteSubsetsOf(1..n))
  BY <1>1, FS_StrictSubsetOrderingWellFounded
<1>3. F \subseteq FiniteSubsetsOf(1..n)
  BY <1>1, FS_Subset DEF FiniteSubsetsOf
<1>4. \A X, Y \in F : <<Y, X>> \in R <=> Contains(X, Y)
  BY DEF StrictSubsetOrdering, Contains
<1> HIDE DEF R
<1>5. PICK X \in F :  \A Y \in F : ~ (<<Y, X>> \in R)
  BY <1>2, <1>3, WFMin
<1> QED  BY <1>4, <1>5

\* So there is a first position in a set of positions.
LEMMA First ==
  ASSUME NEW n \in Nat, NEW T \in SUBSET (1..n), T # {}
  PROVE  \E x \in T : \A y \in T : x <= y
<1>1. PICK F : F = {1..x : x \in T}  OBVIOUS
<1>2. F \in SUBSET SUBSET (1..n)
  <2>1. ASSUME NEW x \in T PROVE 1..x \subseteq 1..n
    <3>1. x \in Int /\ 1 <= x /\ x <= n  OBVIOUS
    <3> QED  BY <3>1
  <2> QED  BY <1>1, <2>1
<1>3. F # {} /\ \A x \in T : 1..x \in F  BY <1>1
<1>4. PICK X \in F : \A Y \in F : ~Contains(X, Y)
  BY <1>2, <1>3, Minimal
<1>5. PICK x \in T : X = 1..x  BY <1>1
<1>6. ASSUME NEW y \in T, ~(x <= y) PROVE FALSE
  <2>1. x \in Int /\ y \in Int /\ y < x /\ 1 <= x  BY <1>6
  <2>2. 1..y \subseteq 1..x /\ x \in 1..x /\ x \notin 1..y  BY <2>1
  <2>3. 1..y \in F  BY <1>3
  <2> QED  BY <1>4, <1>5, <2>2, <2>3 DEF Contains
<1> QED  BY <1>6

\* And a last one.
LEMMA Last ==
  ASSUME NEW n \in Nat, NEW T \in SUBSET (1..n), T # {}
  PROVE  \E x \in T : \A y \in T : x >= y
<1>1. PICK F : F = {x..n : x \in T}  OBVIOUS
<1>2. F \in SUBSET SUBSET (1..n)
  <2>1. ASSUME NEW x \in T PROVE x..n \subseteq 1..n
    <3>1. x \in Int /\ 1 <= x /\ x <= n  OBVIOUS
    <3> QED  BY <3>1
  <2> QED  BY <1>1, <2>1
<1>3. F # {} /\ \A x \in T : x..n \in F  BY <1>1
<1>4. PICK X \in F : \A Y \in F : ~Contains(X, Y)
  BY <1>2, <1>3, Minimal
<1>5. PICK x \in T : X = x..n  BY <1>1
<1>6. ASSUME NEW y \in T, ~(x >= y) PROVE FALSE
  <2>1. x \in Int /\ y \in Int /\ x < y /\ x <= n  BY <1>6
  <2>2. y..n \subseteq x..n /\ x \in x..n /\ x \notin y..n  BY <2>1
  <2>3. y..n \in F  BY <1>3
  <2> QED  BY <1>4, <1>5, <2>2, <2>3 DEF Contains
<1> QED  BY <1>6
-----------------------------------------------------------------------------
\* A text begins and ends with characters that are not blank, or it is empty.
Inside(t) == t = << >> \/ (t[1] \notin Blanks /\ t[Len(t)] \notin Blanks)

\* Trimming keeps a text or makes it shorter.
LEMMA TrimmedIs ==
  ASSUME NEW t \in Texts
  PROVE  /\ Trimmed(t) \in Texts /\ Len(Trimmed(t)) <= Len(t)
         /\ Len(Trimmed(t)) = Len(t) => Trimmed(t) = t /\ Inside(t)
         /\ Inside(t) => Trimmed(t) = t
<1>1. /\ Len(t) \in Nat /\ DOMAIN t = 1..Len(t)
      /\ \A i \in 1..Len(t) : t[i] \in Chars
      /\ t = << >> <=> Len(t) = 0
  BY DEF Texts
<1>2. CASE Inked(t) = {}
  <2>1. Trimmed(t) = << >>  BY <1>2 DEF Trimmed
  <2>2. Inside(t) => t = << >>  BY <1>1, <1>2 DEF Inside, Inked
  <2> QED  BY <1>1, <2>1, <2>2 DEF Inside, Texts
<1>3. CASE Inked(t) # {}
  <2> DEFINE first == CHOOSE i \in Inked(t) : \A j \in Inked(t) : i <= j
             last  == CHOOSE i \in Inked(t) : \A j \in Inked(t) : i >= j
  <2>1. Inked(t) \in SUBSET (1..Len(t))  BY <1>1 DEF Inked
  <2>2. first \in Inked(t) /\ \A j \in Inked(t) : first <= j
    BY <1>1, <1>3, <2>1, First
  <2>3. last \in Inked(t) /\ \A j \in Inked(t) : last >= j
    BY <1>1, <1>3, <2>1, Last
  <2>4. Trimmed(t) = SubSeq(t, first, last)  BY <1>3 DEF Trimmed
  <2> HIDE DEF first, last
  <2>5. /\ first \in 1..Len(t) /\ last \in 1..Len(t) /\ first <= last
        /\ t[first] \notin Blanks /\ t[last] \notin Blanks
    BY <2>1, <2>2, <2>3 DEF Inked
  <2>6. \A i \in first..last : t[i] \in Chars  BY <1>1, <2>5
  <2>7. /\ Trimmed(t) \in Texts
        /\ Len(Trimmed(t)) = last - first + 1
    BY <2>4, <2>5, <2>6, SubSeqProperties DEF Texts
  <2>8. first = 1 /\ last = Len(t) => Trimmed(t) = t
    BY <2>4, SubSeqFull DEF Texts
  <2>9. Len(Trimmed(t)) = Len(t) => first = 1 /\ last = Len(t)
    <3>1. Len(t) \in Int /\ first \in Int /\ last \in Int  BY <1>1, <2>5
    <3>2. 1 <= first /\ last <= Len(t)  BY <2>5
    <3> QED  BY <2>7, <3>1, <3>2
  <2>10. Inside(t) => first = 1 /\ last = Len(t)
    <3>1. t # << >>  BY <1>1, <2>5
    <3>2. Inside(t) => 1 \in Inked(t) /\ Len(t) \in Inked(t)
      BY <1>1, <3>1 DEF Inside, Inked
    <3>3. Inside(t) => first <= 1 /\ last >= Len(t)  BY <2>2, <2>3, <3>2
    <3>4. Len(t) \in Int /\ first \in Int /\ last \in Int  BY <1>1, <2>5
    <3>5. 1 <= first /\ last <= Len(t)  BY <2>5
    <3> QED  BY <3>3, <3>4, <3>5
  <2>11. first = 1 /\ last = Len(t) => Inside(t)  BY <2>5 DEF Inside
  <2>12. Len(Trimmed(t)) <= Len(t)
    <3>1. Len(t) \in Int /\ first \in Int /\ last \in Int  BY <1>1, <2>5
    <3>2. 1 <= first /\ last <= Len(t)  BY <2>5
    <3> QED  BY <2>7, <3>1, <3>2
  <2> QED  BY <2>7, <2>8, <2>9, <2>10, <2>11, <2>12
<1> QED  BY <1>2, <1>3

\* Quotes are taken off, or the text is kept.
LEMMA UnquotedIs ==
  ASSUME NEW t \in Texts
  PROVE  /\ Unquoted(t) \in Texts /\ Len(Unquoted(t)) <= Len(t)
         /\ Quoted(t) => Len(Unquoted(t)) < Len(t)
         /\ ~Quoted(t) => Unquoted(t) = t
<1>1. CASE Quoted(t)
  <2>1. Len(t) \in Nat /\ Len(t) >= 2  BY <1>1 DEF Quoted, Texts
  <2>2. \A i \in 2..(Len(t) - 1) : t[i] \in Chars  BY <2>1 DEF Texts
  <2>3. Unquoted(t) = SubSeq(t, 2, Len(t) - 1)  BY <1>1 DEF Unquoted
  <2>4. /\ Unquoted(t) \in Texts
        /\ Len(Unquoted(t)) = IF 2 <= Len(t) - 1 THEN (Len(t) - 1) - 2 + 1 ELSE 0
    BY <2>1, <2>2, <2>3, SubSeqProperties DEF Texts
  <2> QED  BY <1>1, <2>1, <2>4
<1>2. CASE ~Quoted(t)  BY <1>2 DEF Unquoted, Texts
<1> QED  BY <1>1, <1>2

\* The buffer takes a text that fits with its zero, and the beginning of others.
LEMMA CutIs ==
  ASSUME NEW t \in Texts
  PROVE  /\ Cut(t) \in Texts /\ Len(Cut(t)) < BufSize /\ Len(Cut(t)) <= Len(t)
         /\ Len(t) < BufSize => Cut(t) = t
<1>1. Len(t) \in Nat /\ BufSize \in Nat \ {0}
  BY TextAssumption DEF TextAssumption, Texts
<1>2. CASE Len(t) < BufSize  BY <1>1, <1>2 DEF Cut
<1>3. CASE ~(Len(t) < BufSize)
  <2>1. \A i \in 1..(BufSize - 1) : t[i] \in Chars  BY <1>1, <1>3 DEF Texts
  <2>2. Cut(t) = SubSeq(t, 1, BufSize - 1)  BY <1>3 DEF Cut
  <2>3. /\ Cut(t) \in Texts
        /\ Len(Cut(t)) = IF 1 <= BufSize - 1 THEN (BufSize - 1) - 1 + 1 ELSE 0
    BY <1>1, <2>1, <2>2, SubSeqProperties DEF Texts
  <2> QED  BY <1>1, <1>3, <2>3
<1> QED  BY <1>2, <1>3

\* The code page changes characters, not their number.
LEMMA SaveIs ==
  ASSUME NEW v \in Texts
  PROVE  /\ Save(v) \in Texts /\ Len(Save(v)) = Len(v)
         /\ Save(v) = v <=> \A i \in DOMAIN v : Ansi[v[i]] = v[i]
<1>1. Ansi \in [Chars -> Chars]  BY TextAssumption DEF TextAssumption
<1>2. DOMAIN v = 1..Len(v) /\ Len(v) \in Nat  BY DEF Texts
<1>3. Save(v) \in Seq(Chars) /\ Len(Save(v)) = Len(v)
  <2>1. Save(v) = [i \in 1..Len(v) |-> Ansi[v[i]]]  BY <1>2 DEF Save
  <2>2. \A i \in 1..Len(v) : Ansi[v[i]] \in Chars  BY <1>1 DEF Texts
  <2>3. Save(v) \in [1..Len(v) -> Chars]  BY <2>1, <2>2
  <2> QED  BY <1>2, <2>1, <2>3
<1>4. v = [i \in DOMAIN v |-> v[i]]  BY DEF Texts
<1> QED  BY <1>3, <1>4 DEF Save, Texts

\* What a restart makes of a text is a text that fits, and is as long as the text
\* only if every step of the conversion keeps it.
LEMMA RestartIs ==
  ASSUME NEW v \in Texts
  PROVE  /\ Save(v) \in Texts /\ Load(Save(v)) \in Texts
         /\ Len(Load(Save(v))) < BufSize
         /\ Load(Save(v)) = v <=> Plain(v)
<1> DEFINE s == Save(v)
           t == Trimmed(s)
           u == Unquoted(t)
<1>1. s \in Texts /\ Len(s) = Len(v)  BY SaveIs
<1>2. t \in Texts /\ u \in Texts  BY <1>1, TrimmedIs, UnquotedIs
<1>3. Load(s) = Cut(u)  BY DEF Load
<1>4. Plain(v) <=> /\ Len(v) < BufSize /\ s = v /\ Inside(v) /\ ~Quoted(v)
  BY SaveIs DEF Plain, Inside
<1> HIDE DEF s
<1>5. Plain(v) => Load(s) = v
  BY <1>1, <1>2, <1>3, <1>4, TrimmedIs, UnquotedIs, CutIs
<1>6. ASSUME Load(s) = v PROVE Plain(v)
  <2>1. Len(t) <= Len(s) /\ Len(u) <= Len(t) /\ Len(Cut(u)) <= Len(u)
    BY <1>1, <1>2, TrimmedIs, UnquotedIs, CutIs
  <2>2. /\ Len(s) \in Nat /\ Len(t) \in Nat /\ Len(u) \in Nat
        /\ Len(Cut(u)) = Len(s)
    BY <1>1, <1>2, <1>3, <1>6 DEF Texts
  <2>3. Len(t) = Len(s) /\ Len(u) = Len(t)  BY <2>1, <2>2
  <2>4. t = s /\ Inside(s)  BY <1>1, <2>3, TrimmedIs
  <2>5. ~Quoted(s) /\ u = s  BY <1>2, <2>2, <2>3, <2>4, UnquotedIs
  <2>6. Len(s) < BufSize /\ Cut(s) = s
    BY <1>1, <2>2, <2>5, CutIs
  <2> QED  BY <1>3, <1>4, <1>6, <2>4, <2>5, <2>6
<1>7. Load(s) \in Texts /\ Len(Load(s)) < BufSize  BY <1>2, <1>3, CutIs
<1> QED  BY <1>1, <1>5, <1>6, <1>7 DEF s

\* Every variable keeps its type.
THEOREM TypeCorrect == Spec => []TypeOK
<1>1. Init => TypeOK
  BY TextAssumption DEF TextAssumption, Init, TypeOK, Texts
<1>2. TypeOK /\ [Restart]_vars => TypeOK'
  <2> SUFFICES ASSUME TypeOK, [Restart]_vars PROVE TypeOK'  OBVIOUS
  <2>1. CASE Restart  BY <2>1, RestartIs DEF Restart, TypeOK
  <2>2. CASE UNCHANGED vars  BY <2>2 DEF vars, TypeOK
  <2> QED  BY <2>1, <2>2
<1> QED  BY <1>1, <1>2, PTL DEF Spec

\* A text comes back from the file as it was exactly if it is plain.
THEOREM PlainSurvives == Spec => SurvivesIfPlain
<1>1. TypeOK /\ [Restart]_vars => [value' = value <=> Plain(value)]_vars
  BY RestartIs DEF Restart, TypeOK
<1> QED  BY <1>1, TypeCorrect, PTL DEF Spec, SurvivesIfPlain
-----------------------------------------------------------------------------
\* The characters that the code page has.
Page == {c \in Chars : Ansi[c] = c}

\* A part of a text has no other characters than the text.
LEMMA PartIn ==
  ASSUME NEW S, NEW t \in Seq(S), NEW m \in Nat \ {0}, NEW n \in Int, n <= Len(t)
  PROVE  SubSeq(t, m, n) \in Seq(S)
<1>1. \A i \in m..n : t[i] \in S  OBVIOUS
<1> QED  BY <1>1, SubSeqProperties

\* Nor has what is loaded of it.
LEMMA LoadIn ==
  ASSUME NEW S \in SUBSET Chars, NEW t \in Seq(S)
  PROVE  Load(t) \in Seq(S)
<1> DEFINE u == Trimmed(t)
           w == Unquoted(u)
<1>1. t \in Texts  BY DEF Texts
<1>2. u \in Seq(S)
  <2>1. CASE Inked(t) = {}
    <3>1. u = << >>  BY <2>1 DEF Trimmed
    <3> QED  BY <3>1
  <2>2. CASE Inked(t) # {}
    <3> DEFINE first == CHOOSE i \in Inked(t) : \A j \in Inked(t) : i <= j
               last  == CHOOSE i \in Inked(t) : \A j \in Inked(t) : i >= j
    <3>1. Inked(t) \in SUBSET (1..Len(t)) /\ Len(t) \in Nat  BY DEF Inked
    <3>2. first \in Inked(t)  BY <2>2, <3>1, First
    <3>3. last \in Inked(t)  BY <2>2, <3>1, Last
    <3>4. u = SubSeq(t, first, last)  BY <2>2 DEF Trimmed
    <3> HIDE DEF first, last, u
    <3>5. first \in Nat \ {0} /\ last \in Int /\ last <= Len(t)
      BY <3>1, <3>2, <3>3
    <3> QED  BY <3>4, <3>5, PartIn
  <2> QED  BY <2>1, <2>2
<1> HIDE DEF u
<1>3. w \in Seq(S)
  <2>1. Len(u) \in Nat  BY <1>2
  <2>2. SubSeq(u, 2, Len(u) - 1) \in Seq(S)  BY <1>2, <2>1, PartIn
  <2> QED  BY <1>2, <2>2 DEF Unquoted
<1> HIDE DEF w
<1>4. Cut(w) \in Seq(S)
  <2>1. Len(w) \in Nat /\ BufSize \in Nat \ {0}
    BY <1>3, TextAssumption DEF TextAssumption
  <2>2. CASE Len(w) < BufSize  BY <1>3, <2>2 DEF Cut
  <2>3. CASE ~(Len(w) < BufSize)
    <3>1. SubSeq(w, 1, BufSize - 1) \in Seq(S)  BY <1>3, <2>1, <2>3, PartIn
    <3> QED  BY <2>3, <3>1 DEF Cut
  <2> QED  BY <2>2, <2>3
<1>5. Load(t) = Cut(w)  BY DEF Load, w, u
<1> QED  BY <1>4, <1>5

\* The file has only characters of its code page.
LEMMA SaveIn ==
  ASSUME NEW v \in Texts
  PROVE  Save(v) \in Seq(Page) /\ (v \in Seq(Page) => Save(v) = v)
<1>1. /\ Ansi \in [Chars -> Chars]
      /\ \A c \in Chars : Ansi[Ansi[c]] = Ansi[c]
  BY TextAssumption DEF TextAssumption
<1>2. Save(v) = [i \in 1..Len(v) |-> Ansi[v[i]]] /\ Len(v) \in Nat
  BY DEF Save, Texts
<1>3. \A i \in 1..Len(v) : Ansi[v[i]] \in Page  BY <1>1 DEF Page, Texts
<1>4. Save(v) \in [1..Len(v) -> Page]  BY <1>2, <1>3
<1>5. v \in Seq(Page) => \A i \in DOMAIN v : Ansi[v[i]] = v[i]
  BY DEF Page
<1> QED  BY <1>2, <1>4, <1>5, SaveIs

\* Loading keeps a text or makes it shorter.
LEMMA LoadIs ==
  ASSUME NEW t \in Texts
  PROVE  /\ Load(t) \in Texts /\ Len(Load(t)) <= Len(t)
         /\ Len(Load(t)) = Len(t) => Load(t) = t
<1> DEFINE u == Trimmed(t)
           w == Unquoted(u)
<1>1. u \in Texts /\ w \in Texts /\ Cut(w) \in Texts
  BY TrimmedIs, UnquotedIs, CutIs
<1>2. Len(u) <= Len(t) /\ Len(w) <= Len(u) /\ Len(Cut(w)) <= Len(w)
  BY <1>1, TrimmedIs, UnquotedIs, CutIs
<1>3. /\ Len(t) \in Nat /\ Len(u) \in Nat /\ Len(w) \in Nat
      /\ Len(Cut(w)) \in Nat /\ BufSize \in Nat
  BY <1>1, TextAssumption DEF Texts, TextAssumption
<1>4. Load(t) = Cut(w)  BY DEF Load
<1>5. ASSUME Len(Cut(w)) = Len(t) PROVE Cut(w) = t
  <2>1. Len(u) = Len(t) /\ Len(w) = Len(u) /\ Len(Cut(w)) = Len(w)
    BY <1>2, <1>3, <1>5
  <2>2. u = t  BY <2>1, TrimmedIs
  <2>3. w = u  BY <1>1, <1>3, <2>1, UnquotedIs
  <2>4. Len(w) < BufSize  BY <1>1, <1>3, <2>1, CutIs
  <2> QED  BY <1>1, <2>2, <2>3, <2>4, CutIs
<1> HIDE DEF w
<1>6. Len(Cut(w)) <= Len(t)  BY <1>2, <1>3
<1> QED  BY <1>1, <1>4, <1>5, <1>6

\* What was loaded has only characters of the code page.
InPage == since = "loaded" => value \in Seq(Page)

\* A text that was loaded changes at a restart only by getting shorter.
THEOREM TextSettles == Spec => Settles
<1>1. Init => InPage  BY DEF Init, InPage
<1>2. TypeOK /\ InPage /\ [Restart]_vars => InPage'
  <2>1. CASE Restart
    <3>1. ASSUME TypeOK PROVE value' \in Seq(Page)
      <4>1. Save(value) \in Seq(Page)  BY <3>1, SaveIn DEF TypeOK
      <4>2. value' = Load(Save(value))  BY <2>1 DEF Restart
      <4> QED  BY <4>1, <4>2, LoadIn DEF Page
    <3> QED  BY <3>1 DEF InPage
  <2>2. CASE UNCHANGED vars  BY <2>2 DEF vars, InPage
  <2> QED  BY <2>1, <2>2
<1>3. TypeOK /\ InPage /\ [Restart]_vars =>
          [since = "loaded" /\ value' # value => Len(value') < Len(value)]_vars
  <2> SUFFICES ASSUME TypeOK, InPage, Restart, since = "loaded", value' # value
               PROVE  Len(value') < Len(value)
    OBVIOUS
  <2>1. value \in Texts /\ Save(value) = value
    BY SaveIn DEF TypeOK, InPage
  <2>2. value' = Load(value)  BY <2>1 DEF Restart
  <2>3. Len(value') <= Len(value) /\ Len(value') # Len(value)
    BY <2>1, <2>2, LoadIs
  <2>4. Len(value') \in Nat /\ Len(value) \in Nat
    BY <2>1, <2>2, LoadIs DEF Texts
  <2> QED  BY <2>3, <2>4
<1> QED  BY <1>1, <1>2, <1>3, TypeCorrect, PTL DEF Spec, Settles
=============================================================================
