------------------------- MODULE MCWarehouseWriter -------------------------
\* A small instance of WarehouseWriter for TLC: d1 and d2 are deliveries, bad
\* is no envelope, big is a delivery the database refuses.
EXTENDS WarehouseWriter

CONSTANTS w1, w2, d1, d2, bad, big, p1, p2

TwoPartitions == [v \in Values |-> IF v \in {d2, big} THEN p2 ELSE p1]
=============================================================================
