--------------------------- MODULE ConsumerGroup ---------------------------
(***************************************************************************)
(* The part that consumers/warehouse.py and consumers/pr_monitor.py share: *)
(* a Kafka log read by a group of workers that poll one record, do its     *)
(* durable effect, and only then commit the offset synchronously.          *)
(*                                                                         *)
(* The broker (log, committed, owner) is external: it is modelled from the *)
(* way the workers use it.  Automatic commits and automatic offset stores  *)
(* are off, so committed moves in CommitOffset and CommitFails only.       *)
(***************************************************************************)
EXTENDS Naturals, Sequences, FiniteSets

CONSTANTS
    Workers,        \* processes of one consumer group
    Partitions,     \* partitions of the raw topic
    Values,         \* record values
    PartitionOf,    \* the partition the record key of a value hashes to
    Nobody,         \* owner of an unassigned partition
    NoMessage,      \* the message of a worker that holds none
    MaxLog,         \* bound: records appended to one partition
    MaxDisruptions  \* bound: crashes, failed calls and rebalances

Offsets == 0 .. MaxLog - 1
Lineage == [partition : Partitions, offset : Nat]

ASSUME GroupAssumption ==
    /\ PartitionOf \in [Values -> Partitions]
    /\ Nobody \notin Workers
    /\ NoMessage \notin Lineage
    /\ MaxLog \in Nat
    /\ MaxDisruptions \in Nat

VARIABLES
    log,          \* log[p]: the records of partition p, offset o at o + 1
    committed,    \* committed[p]: the group's committed offset
    owner,        \* owner[p]: the worker the coordinator gives p to
    assigned,     \* assigned[w]: the partitions w believes it owns
    position,     \* position[w][p]: the offset of w's next poll of p
    pc,           \* pc[w]: where w is in run_forever
    cur,          \* cur[w]: lineage of the message w is processing
    disruptions   \* crashes, failed calls and rebalances so far

groupVars ==
    <<log, committed, owner, assigned, position, pc, cur, disruptions>>
brokerVars == <<log, committed>>
memberVars == <<owner, assigned, position>>

GroupTypeOK ==
    /\ log \in [Partitions -> Seq(Values)]
    /\ \A p \in Partitions : Len(log[p]) <= MaxLog
    /\ committed \in [Partitions -> Nat]
    /\ owner \in [Partitions -> Workers \cup {Nobody}]
    /\ assigned \in [Workers -> SUBSET Partitions]
    /\ position \in [Workers -> [Partitions -> Nat]]
    /\ pc \in [Workers -> {"down", "poll", "process", "commit"}]
    /\ cur \in [Workers -> Lineage \cup {NoMessage}]
    /\ disruptions \in 0 .. MaxDisruptions

GroupInit ==
    /\ log = [p \in Partitions |-> <<>>]
    /\ committed = [p \in Partitions |-> 0]      \* auto.offset.reset: earliest
    /\ owner = [p \in Partitions |-> Nobody]
    /\ assigned = [w \in Workers |-> {}]
    /\ position = [w \in Workers |-> [p \in Partitions |-> 0]]
    /\ pc = [w \in Workers |-> "down"]
    /\ cur = [w \in Workers |-> NoMessage]
    /\ disruptions = 0

RecordAt(p, o) == log[p][o + 1]
Message(w) == RecordAt(cur[w].partition, cur[w].offset)
Busy(w) == pc[w] \in {"process", "commit"}

\* The first offset of p whose effect worker w does not vouch for yet.
Frontier(w, p) ==
    IF Busy(w) /\ cur[w].partition = p THEN cur[w].offset ELSE position[w][p]

Disrupt ==
    /\ disruptions < MaxDisruptions
    /\ disruptions' = disruptions + 1

-----------------------------------------------------------------------------
(* The broker.                                                             *)

\* A record is appended under its key; one delivery may be appended twice.
Produce(v) ==
    LET p == PartitionOf[v] IN
    /\ Len(log[p]) < MaxLog
    /\ log' = [log EXCEPT ![p] = Append(@, v)]
    /\ UNCHANGED <<committed, memberVars, pc, cur, disruptions>>

\* The coordinator gives an unowned partition to a worker inside poll; the
\* worker starts from the committed offset.
Assign(p, w) ==
    /\ owner[p] = Nobody
    /\ pc[w] = "poll"
    /\ \A q \in assigned[w] : owner[q] = w
    /\ owner' = [owner EXCEPT ![p] = w]
    /\ assigned' = [assigned EXCEPT ![w] = @ \cup {p}]
    /\ position' = [position EXCEPT ![w][p] = committed[p]]
    /\ UNCHANGED <<brokerVars, pc, cur, disruptions>>

\* A rebalance takes p from a worker that is inside poll and so takes part.
Revoke(p, w) ==
    /\ owner[p] = w
    /\ pc[w] = "poll"
    /\ Disrupt
    /\ owner' = [owner EXCEPT ![p] = Nobody]
    /\ assigned' = [assigned EXCEPT ![w] = @ \ {p}]
    /\ position' = [position EXCEPT ![w][p] = 0]
    /\ UNCHANGED <<brokerVars, pc, cur>>

Release(w) ==
    owner' = [p \in Partitions |-> IF owner[p] = w THEN Nobody ELSE owner[p]]

\* A slow worker is expelled from the group and does not know it yet.
Fence(w) ==
    /\ \E p \in Partitions : owner[p] = w
    /\ Disrupt
    /\ Release(w)
    /\ UNCHANGED <<brokerVars, assigned, position, pc, cur>>

\* An expelled worker learns of it in poll and gives up its partitions.
Rejoin(w) ==
    /\ pc[w] = "poll"
    /\ \E p \in assigned[w] : owner[p] # w
    /\ Release(w)
    /\ assigned' = [assigned EXCEPT ![w] = {}]
    /\ position' = [position EXCEPT ![w] = [p \in Partitions |-> 0]]
    /\ UNCHANGED <<brokerVars, pc, cur, disruptions>>

-----------------------------------------------------------------------------
(* A worker.                                                               *)

Start(w) ==
    /\ pc[w] = "down"
    /\ pc' = [pc EXCEPT ![w] = "poll"]
    /\ UNCHANGED <<brokerVars, memberVars, cur, disruptions>>

\* The process ends: an exception left run_forever, or it was killed.
Stop(w) ==
    /\ Release(w)
    /\ assigned' = [assigned EXCEPT ![w] = {}]
    /\ position' = [position EXCEPT ![w] = [p \in Partitions |-> 0]]
    /\ pc' = [pc EXCEPT ![w] = "down"]
    /\ cur' = [cur EXCEPT ![w] = NoMessage]

\* A kill at any point, and the errors poll raises or returns in a message.
Crash(w) ==
    /\ pc[w] # "down"
    /\ Disrupt
    /\ Stop(w)
    /\ UNCHANGED brokerVars

Poll(w, p) ==
    /\ pc[w] = "poll"
    /\ p \in assigned[w]
    /\ position[w][p] < Len(log[p])
    /\ cur' = [cur EXCEPT ![w] = [partition |-> p, offset |-> position[w][p]]]
    /\ position' = [position EXCEPT ![w][p] = @ + 1]
    /\ pc' = [pc EXCEPT ![w] = "process"]
    /\ UNCHANGED <<brokerVars, owner, assigned, disruptions>>

\* The durable effect of the message is acknowledged; commit comes next.
EffectDone(w) ==
    /\ pc' = [pc EXCEPT ![w] = "commit"]
    /\ UNCHANGED <<brokerVars, memberVars, cur, disruptions>>

\* Mutant: the error is logged and the offset committed all the same.
EffectSwallowed(w) ==
    /\ Disrupt
    /\ pc' = [pc EXCEPT ![w] = "commit"]
    /\ UNCHANGED <<brokerVars, memberVars, cur>>

\* A durable effect raised: the exception stops the worker.
EffectRaised(w) ==
    /\ Disrupt
    /\ Stop(w)
    /\ UNCHANGED brokerVars

AdvanceOffset(w) ==
    committed' = [committed EXCEPT ![cur[w].partition] = cur[w].offset + 1]

CommitOffset(w) ==
    /\ pc[w] = "commit"
    /\ owner[cur[w].partition] = w
    /\ AdvanceOffset(w)
    /\ pc' = [pc EXCEPT ![w] = "poll"]
    /\ cur' = [cur EXCEPT ![w] = NoMessage]
    /\ UNCHANGED <<log, memberVars, disruptions>>

\* Mutant: partitions taken by assign(), not subscribe(): nobody refuses a
\* late commit.
CommitUnfenced(w) ==
    /\ pc[w] = "commit"
    /\ owner[cur[w].partition] # w
    /\ AdvanceOffset(w)
    /\ Stop(w)
    /\ UNCHANGED <<log, disruptions>>

\* The coordinator refuses the commit of an expelled worker.
CommitRejected(w) ==
    /\ pc[w] = "commit"
    /\ owner[cur[w].partition] # w
    /\ Stop(w)
    /\ UNCHANGED <<brokerVars, disruptions>>

\* The commit call fails; the broker may have stored the offset all the same.
CommitFails(w) ==
    /\ pc[w] = "commit"
    /\ owner[cur[w].partition] = w
    /\ Disrupt
    /\ AdvanceOffset(w) \/ UNCHANGED committed
    /\ Stop(w)
    /\ UNCHANGED log

\* Every step of the group that does not depend on what a message says.
MemberStep ==
    \E w \in Workers :
        \/ \E p \in Partitions : Assign(p, w) \/ Revoke(p, w) \/ Poll(w, p)
        \/ Fence(w) \/ Rejoin(w) \/ Start(w) \/ Crash(w)
        \/ CommitOffset(w) \/ CommitRejected(w) \/ CommitFails(w)

GroupStep == MemberStep \/ \E v \in Values : Produce(v)

-----------------------------------------------------------------------------
(* What the group keeps, whatever the effects are.                         *)

CommittedInLog == \A p \in Partitions : committed[p] <= Len(log[p])

StoppedHoldsNothing == \A w \in Workers : pc[w] = "down" => assigned[w] = {}

BusyHoldsMessage ==
    \A w \in Workers : Busy(w) =>
        /\ cur[w] \in Lineage
        /\ cur[w].partition \in assigned[w]
        /\ position[w][cur[w].partition] = cur[w].offset + 1

PositionInLog ==
    \A w \in Workers : \A p \in assigned[w] : position[w][p] <= Len(log[p])

\* An owner resumes exactly at the committed offset: neither a skip nor a
\* re-read builds up in the consumer's memory.
OwnerAtCommitted ==
    \A w \in Workers, p \in Partitions :
        owner[p] = w => p \in assigned[w] /\ committed[p] = Frontier(w, p)

GroupInv ==
    /\ CommittedInLog
    /\ StoppedHoldsNothing
    /\ BusyHoldsMessage
    /\ PositionInLog
    /\ OwnerAtCommitted

\* A worker that has lost one of the partitions it believes it owns has lost
\* them all, until it learns of it.
ExpelledFromAll ==
    \A w \in Workers : (\E p \in assigned[w] : owner[p] # w) =>
        \A q \in Partitions : owner[q] # w

\* Committing is what moves a group forward: an expelled or restarted worker
\* must never move the group's offset back over records already committed
\* (warehouse.py:148-152, pr_monitor.py:273-277).
CommittedNeverRegresses ==
    [][\A p \in Partitions : committed'[p] >= committed[p]]_groupVars
=============================================================================
