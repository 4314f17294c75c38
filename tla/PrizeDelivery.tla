---------------------------- MODULE PrizeDelivery ----------------------------
(***************************************************************************)
(* What sending prizes promises, without the calls that bring it about: an *)
(* order is delivered at most once, as it was given, and ends in one of    *)
(* three verdicts.  "sent" is told only after the delivery; "refused" only *)
(* of an order that is not delivered, and never will be; "in doubt" says   *)
(* nothing, and the delivery may even follow it.  An order whose process   *)
(* dies gets no verdict.                                                   *)
(***************************************************************************)
EXTENDS Naturals, Sequences

CONSTANTS Requests,   \* identities of requests
          Orders      \* what can be ordered

VARIABLES asked,      \* the orders given: [by, order] records
          verdicts,   \* what was told of them: [by, verdict] records
          delivered   \* the orders carried out, in order: [by, order] records

vars == <<asked, verdicts, delivered>>

Told(i) == \E v \in verdicts : v.by = i

Delivered(i) == \E k \in DOMAIN delivered : delivered[k].by = i

Init == asked = {} /\ verdicts = {} /\ delivered = << >>

Ask(i, o) ==
    /\ \A a \in asked : a.by # i
    /\ asked' = asked \cup {[by |-> i, order |-> o]}
    /\ UNCHANGED <<verdicts, delivered>>

Deliver(a) ==
    /\ ~Delivered(a.by)
    /\ \A v \in verdicts : v.by = a.by => v.verdict = "in doubt"
    /\ delivered' = Append(delivered, a)
    /\ UNCHANGED <<asked, verdicts>>

Tell(i, verdict) ==
    /\ ~Told(i)
    /\ verdict = "sent" => Delivered(i)
    /\ verdict = "refused" => ~Delivered(i)
    /\ verdicts' = verdicts \cup {[by |-> i, verdict |-> verdict]}
    /\ UNCHANGED <<asked, delivered>>

Next ==
    \/ \E i \in Requests, o \in Orders : Ask(i, o)
    \/ \E a \in asked :
           \/ Deliver(a)
           \/ \E verdict \in {"sent", "refused", "in doubt"} : Tell(a.by, verdict)

Spec == Init /\ [][Next]_vars
=============================================================================
