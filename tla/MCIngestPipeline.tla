--------------------------- MODULE MCIngestPipeline ---------------------------
\* A small instance of IngestPipeline for TLC: one request has a delivery that is
\* stored, the other one that the database refuses.
EXTENDS IngestPipeline

CONSTANTS w1, w2, p1, d1, refused, first, second

OnePartition == [v \in Values |-> p1]
DeliveriesOf == [r \in Requests |-> IF r = first THEN d1 ELSE refused]
=============================================================================
