----------------------------- MODULE IniTextProps -----------------------------
(***************************************************************************)
(* Which texts the configuration file keeps.                               *)
(***************************************************************************)
EXTENDS IniText

\* Every variable keeps its type, and what was loaded fits the buffer with the
\* zero that ends it.
TypeOK ==
    /\ value \in Texts /\ text \in Texts /\ since \in {"typed", "loaded"}
    /\ since = "loaded" => Len(value) < BufSize

\* A text that is short enough, in the code page of the file, without a blank at
\* either end and not enclosed in a pair of equal quotes.
Plain(t) ==
    /\ Len(t) < BufSize
    /\ \A i \in DOMAIN t : Ansi[t[i]] = t[i]
    /\ t = << >> \/ (t[1] \notin Blanks /\ t[Len(t)] \notin Blanks)
    /\ ~Quoted(t)

\* A password or a name comes back from the file as it was typed if it is plain,
\* at every restart, and only then: any other is another one after a restart, so
\* that the tool cannot connect, or names another account.
SurvivesIfPlain == [][value' = value <=> Plain(value)]_vars

\* A text that was loaded changes at a restart only by getting shorter, so that it
\* is the same for ever after as many restarts as it has characters; it is only
\* the first restart after it was typed that exchanges characters.
Settles ==
    [][since = "loaded" /\ value' # value => Len(value') < Len(value)]_vars
=============================================================================
