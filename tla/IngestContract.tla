--------------------------- MODULE IngestContract ---------------------------
(***************************************************************************)
(* What ADR 0001 asks of a consumer of the raw topic, without workers,     *)
(* rebalances or crashes: a record is stored or dead-lettered only when    *)
(* everything before it in its partition is accounted for, and the         *)
(* confirmed offset moves one record at a time over accounted ones.        *)
(***************************************************************************)
EXTENDS Naturals, Sequences

CONSTANTS Partitions, Values, Valid, PartitionOf

VARIABLES
    log,        \* the records of each partition
    stored,     \* deliveries that have their raw row
    dead,       \* lineages that have a dead letter
    confirmed   \* offsets the consumer will not read again

vars == <<log, stored, dead, confirmed>>

Record(p, o) == log[p][o + 1]

Accounted(p, o) ==
    IF Record(p, o) \in Valid THEN Record(p, o) \in stored
                              ELSE <<p, o>> \in dead

InTurn(p, o) ==
    /\ o < Len(log[p])
    /\ \A n \in 0 .. o - 1 : Accounted(p, n)

Init ==
    /\ log = [p \in Partitions |-> <<>>]
    /\ stored = {}
    /\ dead = {}
    /\ confirmed = [p \in Partitions |-> 0]

Arrive(v) ==
    /\ log' = [log EXCEPT ![PartitionOf[v]] = Append(@, v)]
    /\ UNCHANGED <<stored, dead, confirmed>>

Store(p, o) ==
    /\ InTurn(p, o)
    /\ Record(p, o) \in Valid
    /\ stored' = stored \cup {Record(p, o)}
    /\ UNCHANGED <<log, dead, confirmed>>

Bury(p, o) ==
    /\ InTurn(p, o)
    /\ Record(p, o) \notin Valid
    /\ dead' = dead \cup {<<p, o>>}
    /\ UNCHANGED <<log, stored, confirmed>>

Confirm(p) ==
    /\ confirmed[p] < Len(log[p])
    /\ Accounted(p, confirmed[p])
    /\ confirmed' = [confirmed EXCEPT ![p] = @ + 1]
    /\ UNCHANGED <<log, stored, dead>>

Next ==
    \/ \E v \in Values : Arrive(v)
    \/ \E p \in Partitions :
        \/ Confirm(p)
        \/ \E o \in 0 .. Len(log[p]) - 1 : Store(p, o) \/ Bury(p, o)

Spec == Init /\ [][Next]_vars
=============================================================================
