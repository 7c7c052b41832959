----------------------------- MODULE MCDelivery -----------------------------
(* TLC instances of Delivery: the values of constants that a .cfg cannot     *)
(* write, shared by the configurations MCDelivery*.cfg.                      *)
EXTENDS DeliveryProperties, TLC

LOCAL INSTANCE SequencesExt

CONSTANTS e1, e2

\* e1 allows no second attempt, e2 does.
MCMaxRetries == [e \in Endpoints |-> IF e = e1 THEN 1 ELSE 3]

\* One code of each kind that the code tells apart.
MCCodes == {200, 404, 500}

\* For liveness: a success; a failure is an attempt without a response.
MCLiveCodes == {200}

\* The goroutines of the pool are interchangeable, and so are the events.
MCSymmetry == Permutations(Workers) \cup Permutations(Events)

\* What the endpoint e answered is among codes.
MCAnswers(e, codes) ==
  \A j \in Jobs : j.endpoint = e => \A i \in DOMAIN received[j] : received[j][i] \in codes

\* Bound: one event for both endpoints, of which e1, with its single attempt, fails; or
\* several for e2 alone, which succeed or bring no answer, of clients that stay.
MCWorkload ==
  \/ /\ \E ev \in Events : \A other \in Events \ {ev} : handler[other].pc = "idle"
     /\ MCAnswers(e1, {500, NoResponse})
  \/ /\ \A ev \in Events : handler[ev].endpoints \subseteq {e2}
     /\ MCAnswers(e2, {200, NoResponse})
     /\ gone = {}

\* Bound, for liveness: the loop of Dispatch comes to the endpoints in one order.
MCOneOrder ==
  LET order == SetToSeq(Endpoints)
  IN  \A ev \in Events : \E n \in 0..Len(order) :
        handler[ev].todo = {order[i] : i \in (n + 1)..Len(order)}
=============================================================================
