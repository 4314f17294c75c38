\* One copy, two clicks with different forms; retries and restarts.
SPECIFICATION Spec
CONSTANTS
    u1 = u1
    u2 = u2
    u3 = u3
    a1 = a1
    a2 = a2
    p1 = p1
    p2 = p2
    Senders = {s1}
    Usernames = {u1, u2, u3}
    Accounts = {a1, a2}
    Ansi <- MCAnsi
    Prizes = {p1, p2}
    Faults <- RetryFaults
    MaxClicks = 2
INVARIANTS
    DeliveredAsAsked
PROPERTIES
    KeepsPromise
