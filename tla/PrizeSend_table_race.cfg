\* Two copies find account_prize missing; nothing else goes wrong.
SPECIFICATION Spec
CONSTANTS
    u1 = u1
    u2 = u2
    u3 = u3
    a1 = a1
    a2 = a2
    p1 = p1
    p2 = p2
    Senders = {s1, s2}
    Usernames = {u1}
    Accounts = {a1}
    Ansi <- MCAnsi1
    Prizes = {p1}
    Faults = {}
    MaxClicks = 1
INVARIANTS
    TableCheckPasses
