------------------------ MODULE PrizeDeliveryProofs ------------------------
(***************************************************************************)
(* What whoever sends a prize may rely on, by the promise of PrizeDelivery *)
(* alone: it holds of PrizeSend and of the whole tool, which keep it.      *)
(***************************************************************************)
EXTENDS PrizeDelivery, TLAPS

Verdicts == {"sent", "refused", "in doubt"}

\* Every variable keeps its type.
TypeOK ==
    /\ asked \in SUBSET [by : Requests, order : Orders]
    /\ verdicts \in SUBSET [by : Requests, verdict : Verdicts]
    /\ delivered \in Seq([by : Requests, order : Orders])

\* A request is asked for once, and told of once.
OneEach == /\ \A a, b \in asked : a.by = b.by => a = b
           /\ \A v, w \in verdicts : v.by = w.by => v = w

\* What arrives was asked for, as it arrives, and arrives once.
ArrivesAsAsked ==
    /\ \A k \in DOMAIN delivered : delivered[k] \in asked
    /\ \A j, k \in DOMAIN delivered : delivered[j].by = delivered[k].by => j = k

\* A verdict is true when it is told and stays true, whatever arrives later.
VerdictsTrue ==
    \A v \in verdicts : /\ v.verdict = "sent" => Delivered(v.by)
                        /\ v.verdict = "refused" => ~Delivered(v.by)

\* What the promise amounts to.
Promised == OneEach /\ ArrivesAsAsked /\ VerdictsTrue

\* Nothing is asked for at first.
LEMMA PromisedInit == Init => TypeOK /\ Promised
  BY DEF Init, TypeOK, Promised, OneEach, ArrivesAsAsked, VerdictsTrue

\* A request is asked for under an identity of its own.
LEMMA AskStep ==
  ASSUME TypeOK, Promised, NEW i \in Requests, NEW o \in Orders, Ask(i, o)
  PROVE  TypeOK' /\ Promised'
<1>1. TypeOK'  BY DEF TypeOK, Ask
<1>2. OneEach'  BY DEF Promised, OneEach, Ask
<1>3. ArrivesAsAsked'  BY DEF Promised, ArrivesAsAsked, Ask
<1>4. VerdictsTrue'  BY DEF Promised, VerdictsTrue, Delivered, Ask
<1> QED  BY <1>1, <1>2, <1>3, <1>4 DEF Promised

\* A delivery belies no verdict.
LEMMA DeliverStep ==
  ASSUME TypeOK, Promised, NEW a \in asked, Deliver(a)
  PROVE  TypeOK' /\ Promised'
<1>0. /\ delivered \in Seq([by : Requests, order : Orders])
      /\ a \in [by : Requests, order : Orders]
      /\ delivered' = Append(delivered, a) /\ UNCHANGED <<asked, verdicts>>
  BY DEF TypeOK, Deliver
<1>1. /\ delivered' \in Seq([by : Requests, order : Orders])
      /\ DOMAIN delivered' = 1..Len(delivered) + 1
      /\ delivered'[Len(delivered) + 1] = a
      /\ \A k \in DOMAIN delivered : delivered'[k] = delivered[k]
      /\ DOMAIN delivered = 1..Len(delivered) /\ Len(delivered) \in Nat
  BY <1>0
<1>2. TypeOK'  BY <1>0, <1>1 DEF TypeOK
<1>3. OneEach'  BY <1>0 DEF Promised, OneEach
<1>4. ArrivesAsAsked'
  <2>1. \A k \in DOMAIN delivered : delivered[k].by # a.by
    BY DEF Deliver, Delivered
  <2>2. \A k \in DOMAIN delivered' :
            k \in DOMAIN delivered \/ k = Len(delivered) + 1
    BY <1>1
  <2>3. \A k \in DOMAIN delivered' : delivered'[k] \in asked'
    BY <1>0, <1>1, <2>2 DEF Promised, ArrivesAsAsked
  <2>4. \A j, k \in DOMAIN delivered' :
            delivered'[j].by = delivered'[k].by => j = k
    BY <1>1, <2>1, <2>2 DEF Promised, ArrivesAsAsked
  <2> QED  BY <2>3, <2>4 DEF ArrivesAsAsked
<1>5. VerdictsTrue'
  <2>1. \A i : Delivered(i)' <=> Delivered(i) \/ i = a.by
    BY <1>1 DEF Delivered
  <2>2. \A v \in verdicts : v.by = a.by => v.verdict = "in doubt"
    BY DEF Deliver
  <2> QED  BY <1>0, <2>1, <2>2 DEF Promised, VerdictsTrue
<1> QED  BY <1>2, <1>3, <1>4, <1>5 DEF Promised

\* A verdict is told once, and is true.
LEMMA TellStep ==
  ASSUME TypeOK, Promised, NEW a \in asked, NEW verdict \in Verdicts,
         Tell(a.by, verdict)
  PROVE  TypeOK' /\ Promised'
<1>0. /\ verdicts' = verdicts \cup {[by |-> a.by, verdict |-> verdict]}
      /\ UNCHANGED <<asked, delivered>>
  BY DEF Tell
<1>1. a.by \in Requests  BY DEF TypeOK
<1>2. TypeOK'  BY <1>0, <1>1 DEF TypeOK
<1>3. OneEach'  BY <1>0 DEF Promised, OneEach, Tell, Told
<1>4. ArrivesAsAsked'  BY <1>0 DEF Promised, ArrivesAsAsked
<1>5. VerdictsTrue'
  BY <1>0 DEF Promised, VerdictsTrue, Delivered, Tell
<1> QED  BY <1>2, <1>3, <1>4, <1>5 DEF Promised

\* Every step keeps the promise.
LEMMA PromisedStep ==
  TypeOK /\ Promised /\ [Next]_vars => TypeOK' /\ Promised'
<1>1. TypeOK /\ Promised /\ UNCHANGED vars => TypeOK' /\ Promised'
  BY DEF vars, TypeOK, Promised, OneEach, ArrivesAsAsked, VerdictsTrue,
         Delivered
<1> QED  BY <1>1, AskStep, DeliverStep, TellStep DEF Next, Verdicts

\* Whoever keeps the promise delivers what was asked for, at most once, and tells
\* of every request at most once, and truly: "sent" is of what has arrived, and
\* what was "refused" never arrives.
THEOREM PromiseHolds == Spec => [](TypeOK /\ Promised)
  BY PromisedInit, PromisedStep, PTL DEF Spec
=============================================================================
