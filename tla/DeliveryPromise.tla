--------------------------- MODULE DeliveryPromise ---------------------------
(***************************************************************************)
(* What the ingest pipeline promises of a delivery, without requests,      *)
(* records or workers: it is published before it is accepted or stored,    *)
(* none of the three is taken back, and, where Fairness is promised, what  *)
(* is published is stored in the end, accepted or not.                     *)
(***************************************************************************)

CONSTANT Deliveries

VARIABLES
    published,  \* deliveries that are in the raw topic
    accepted,   \* deliveries a request of which was answered 202
    stored      \* deliveries that have their raw row

vars == <<published, accepted, stored>>

Init == published = {} /\ accepted = {} /\ stored = {}

Publish(d) ==
    /\ published' = published \cup {d}
    /\ UNCHANGED <<accepted, stored>>

Accept(d) ==
    /\ d \in published
    /\ accepted' = accepted \cup {d}
    /\ UNCHANGED <<published, stored>>

Store(d) ==
    /\ d \in published
    /\ stored' = stored \cup {d}
    /\ UNCHANGED <<published, accepted>>

Next == \E d \in Deliveries : Publish(d) \/ Accept(d) \/ Store(d)

Spec == Init /\ [][Next]_vars

\* What is published is stored in the end.
Fairness == \A d \in Deliveries : WF_vars(Store(d))
=============================================================================
