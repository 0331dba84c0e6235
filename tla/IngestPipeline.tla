--------------------------- MODULE IngestPipeline ---------------------------
(***************************************************************************)
(* From the webhook to the raw table: the receiver of webhook/, the raw    *)
(* topic, and the group of writers of consumers/warehouse.py.  GitHub, or  *)
(* an operator, may deliver one delivery in several requests.  The broker  *)
(* appends a record in a joint step: to the receiver its request is        *)
(* appended, to the group its delivery is produced.                        *)
(***************************************************************************)
EXTENDS WarehouseWriter

CONSTANTS
    Requests, Malformed, Probes, MaxThreads, MaxQueue, MaxRestarts,
    DeliveryOf   \* the delivery a request carries; it is the value of the
                 \* record, since both sides build it from the same envelope

VARIABLES stage, answer, overdue, acked, queue, sent, reports, appended, restarts

Receiver == INSTANCE WebhookReceiver

ASSUME PipelineAssumption ==
    /\ DeliveryOf \in [Requests -> Valid]
    /\ Receiver!ReceiverAssumption

receiverVars ==
    <<stage, answer, overdue, acked, queue, sent, reports, appended, restarts>>
pipelineVars == <<vars, receiverVars>>

Deliveries == {DeliveryOf[r] : r \in Requests}

PipelineInit == Init /\ Receiver!Init

\* The record of a request reaches the raw topic.
AppendRecord(r) ==
    /\ Receiver!Append_(r)
    /\ Produce(DeliveryOf[r])
    /\ UNCHANGED stores

\* Whatever else writes to the topic, a further copy of a delivery included.
AppendForeign(v) ==
    /\ Produce(v)
    /\ UNCHANGED <<stores, receiverVars>>

WriterStep ==
    \/ MemberStep /\ UNCHANGED stores
    \/ \E w \in Workers : Process(w)

PipelineNext ==
    \/ \E r \in Requests : AppendRecord(r)
    \/ \E v \in Values : AppendForeign(v)
    \/ Receiver!ReceiverStep /\ UNCHANGED vars
    \/ WriterStep /\ UNCHANGED receiverVars

PipelineSpec == PipelineInit /\ [][PipelineNext]_pipelineVars

\* The group of writers is as fair as by itself.  Nothing is asked of the
\* receiver, of GitHub or of the broker.
PipelineFairSpec == PipelineSpec /\ Fairness

-----------------------------------------------------------------------------
(* Properties.                                                             *)

IsStored(d) == \E row \in raw : row.key = d

\* A record of the delivery that the group has yet to commit.
IsAhead(d) ==
    \E p \in Partitions : \E o \in committed[p] .. Len(log[p]) - 1 :
        RecordAt(p, o) = d

\* What the receiver has promised with a 202 is in the raw table, or in the topic
\* at an offset the group has not passed: no crash of either side, no lost
\* answer and no rebalance leaves a gap between the two promises
\* (webhook/app.py:162-177, warehouse.py:111-152).
NothingAcceptedIsLost ==
    \A r \in Requests : answer[r] = 202 =>
        IsStored(DeliveryOf[r]) \/ IsAhead(DeliveryOf[r])

Published == {d \in Deliveries : \E p \in Partitions : \E o \in 0 .. Len(log[p]) - 1 :
                                    RecordAt(p, o) = d}
Accepted == {DeliveryOf[r] : r \in {q \in Requests : answer[q] = 202}}
Stored == {d \in Deliveries : IsStored(d)}

Promise == INSTANCE DeliveryPromise WITH
    published <- Published, accepted <- Accepted, stored <- Stored

\* From outside, receiver, topic and writers take deliveries, accept only what
\* is published and store each one once.  If no record of the topic is one that the
\* database refuses, they also store in the end all that was published, what was
\* answered 503 or delivered again included.  A refused delivery passes the
\* receiver's checks and is answered 202 once it is published, but has never a row,
\* and it ends each writer that reads it (warehouse.py:111), so whatever is behind
\* it, or in the same writer's other partitions, may have none either.
KeepsPromise ==
    /\ Promise!Spec
    /\ [](\A p \in Partitions : \A o \in DOMAIN log[p] : log[p][o] \notin Unstorable)
        => Promise!Fairness

-----------------------------------------------------------------------------
(* The invariant that joins the two ends.                                  *)

\* What the receiver's side counts as appended is in the group's log.
AppendedIsInTopic == \A r \in appended : DeliveryOf[r] \in Published

PipelineInv ==
    /\ IInv
    /\ Receiver!IInv
    /\ AppendedIsInTopic
=============================================================================
