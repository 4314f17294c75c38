\* Two copies under fair scheduling, with a server that answers; every failure but
\* those after which the code uses a freed handle or leaves its button disabled.
SPECIFICATION FairSpec
CONSTANTS
    u1 = u1
    u2 = u2
    u3 = u3
    a1 = a1
    a2 = a2
    p1 = p1
    p2 = p2
    Senders = {s1, s2}
    Usernames = {u1}
    Accounts = {a1}
    Ansi <- MCAnsi1
    Prizes = {p1}
    Faults <- AnsweredFaults
    MaxClicks = 1
INVARIANTS
    NoUseAfterClose
    ButtonUsable
PROPERTIES
    SendsMoveOn
    
