-------------------------- MODULE WarehouseWriter --------------------------
(***************************************************************************)
(* consumers/warehouse.py, consumers/storage.py and the two uses it makes  *)
(* of consumers/dlq.py: the group of warehouse writers that lands the raw  *)
(* topic in raw.github_events and sends what it cannot validate to the     *)
(* dead-letter topic.  A value stands for the record of one delivery: its  *)
(* key in raw.github_events is the value itself.                           *)
(***************************************************************************)
EXTENDS ConsumerGroup

CONSTANTS
    Valid,       \* values that are a GitHubEventEnvelope
    Unstorable   \* valid values PostgreSQL refuses each time, such as an
                 \* integer out of the column's range

ASSUME WriterAssumption ==
    /\ Valid \subseteq Values
    /\ Unstorable \subseteq Valid

VARIABLES
    raw,   \* rows of raw.github_events whose source is 'webhook'
    dlq    \* dlq[p][o]: dead letters whose source lineage is <<p, o>>

vars == <<groupVars, raw, dlq>>
stores == <<raw, dlq>>

RawRow == [key : Valid \ Unstorable, partition : Partitions, offset : Nat]

TypeOK ==
    /\ GroupTypeOK
    /\ raw \in SUBSET RawRow
    /\ dlq \in [Partitions -> [Offsets -> Nat]]

Init ==
    /\ GroupInit
    /\ raw = {}
    /\ dlq = [p \in Partitions |-> [o \in Offsets |-> 0]]

-----------------------------------------------------------------------------
(* process: one durable effect per message.                                *)

RowOf(w) == [key |-> Message(w),
             partition |-> cur[w].partition, offset |-> cur[w].offset]

\* Mutant: ON CONFLICT DO UPDATE, the last record of a delivery wins.
UpdatedRows(w) == {r \in raw : r.key # Message(w)} \cup {RowOf(w)}

\* INSERT ... ON CONFLICT (source, source_record_key) DO NOTHING.
InsertedRows(w) ==
    IF \E r \in raw : r.key = Message(w) THEN raw ELSE raw \cup {RowOf(w)}

\* Mutant: a producer without idempotence, whose retry appends again.
RetriedLetters(w) == [dlq EXCEPT ![cur[w].partition][cur[w].offset] = @ + 2]

PublishedLetters(w) == [dlq EXCEPT ![cur[w].partition][cur[w].offset] = @ + 1]

Insert(w) ==
    /\ pc[w] = "process"
    /\ Message(w) \in Valid \ Unstorable
    /\ raw' = InsertedRows(w)
    /\ EffectDone(w)
    /\ UNCHANGED dlq

\* The insert raises; the lost answer may be that of a committed transaction.
InsertFails(w) ==
    /\ pc[w] = "process"
    /\ Message(w) \in Valid \ Unstorable
    /\ raw' \in {raw, InsertedRows(w)}
    /\ EffectRaised(w)
    /\ UNCHANGED dlq

\* Mutant: the exception of a refused row is caught, and the record passed over.
InsertSwallowed(w) ==
    /\ pc[w] = "process"
    /\ Message(w) \in Unstorable
    /\ EffectDone(w)
    /\ UNCHANGED stores

\* The database refuses the row itself: nothing is dead-lettered, the worker
\* stops.  It happens each time the record is read, so it is not bounded.
InsertRefused(w) ==
    /\ pc[w] = "process"
    /\ Message(w) \in Unstorable
    /\ Stop(w)
    /\ UNCHANGED <<brokerVars, disruptions, stores>>

\* Mutant: the validation error ends the worker.
DeadLetterEscapes(w) ==
    /\ pc[w] = "process"
    /\ Message(w) \notin Valid
    /\ Stop(w)
    /\ UNCHANGED <<brokerVars, disruptions, stores>>

DeadLetter(w) ==
    /\ pc[w] = "process"
    /\ Message(w) \notin Valid
    /\ dlq' = PublishedLetters(w)
    /\ EffectDone(w)
    /\ UNCHANGED raw

\* Mutant: publish does not wait for the delivery report.
DeadLetterUnconfirmed(w) ==
    /\ pc[w] = "process"
    /\ Message(w) \notin Valid
    /\ dlq' \in {dlq, PublishedLetters(w)}
    /\ EffectDone(w)
    /\ UNCHANGED raw

\* publish raises; the dead letter may have reached the topic all the same.
DeadLetterFails(w) ==
    /\ pc[w] = "process"
    /\ Message(w) \notin Valid
    /\ dlq' \in {dlq, PublishedLetters(w)}
    /\ EffectRaised(w)
    /\ UNCHANGED raw

Process(w) ==
    \/ Insert(w) \/ InsertFails(w) \/ InsertRefused(w)
    \/ DeadLetter(w) \/ DeadLetterFails(w)

Next ==
    \/ GroupStep /\ UNCHANGED stores
    \/ \E w \in Workers : Process(w)

Spec == Init /\ [][Next]_vars

\* The operator starts a stopped worker again, the coordinator assigns every
\* partition, and a worker that can take its next step takes it.
Fairness ==
    /\ \A p \in Partitions : WF_vars(\E w \in Workers : Assign(p, w) /\ UNCHANGED stores)
    /\ \A w \in Workers :
        /\ WF_vars(Start(w) /\ UNCHANGED stores)
        /\ WF_vars(Rejoin(w) /\ UNCHANGED stores)
        /\ WF_vars(\E p \in Partitions : Poll(w, p) /\ UNCHANGED stores)
        /\ WF_vars(Insert(w) \/ DeadLetter(w))
        /\ WF_vars((CommitOffset(w) \/ CommitRejected(w)) /\ UNCHANGED stores)

FairSpec == Spec /\ Fairness

-----------------------------------------------------------------------------
(* Properties.                                                             *)

Accounted(p, o) ==
    IF RecordAt(p, o) \in Valid
    THEN \E r \in raw : r.key = RecordAt(p, o)
    ELSE o \in Offsets /\ dlq[p][o] > 0

\* Every record below the committed offset has left a durable trace, its raw
\* row or an acknowledged dead letter, whatever crashed, was fenced or lost
\* its answer between the two commits (warehouse.py:111-152).
CommittedIsDurable ==
    \A p \in Partitions : \A o \in 0 .. committed[p] - 1 : Accounted(p, o)

\* A delivery that is in the log several times is stored once, with the
\* lineage of its first record: no worker may overtake an earlier offset,
\* and a replay must not add or replace a row (storage.py:41).
FirstLineageStored ==
    \A r \in raw :
        /\ r.partition = PartitionOf[r.key]
        /\ r.offset < Len(log[r.partition])
        /\ RecordAt(r.partition, r.offset) = r.key
        /\ \A o \in 0 .. r.offset - 1 : RecordAt(r.partition, o) # r.key
        /\ \A s \in raw : s.key = r.key => s = r

\* A poison record is published again only after a crash, a failed call or a
\* rebalance hit the group between publication and commit: one extra dead
\* letter for each such event at most (warehouse.py:128-133).
DeadLettersBounded ==
    \A p \in Partitions, o \in Offsets : dlq[p][o] <= 1 + disruptions

\* Once disruptions have stopped every record is committed, if the database
\* refuses none: neither a poison record nor a duplicate holds up the ones behind
\* it (warehouse.py:87-146).  A refused record stops every worker that polls it,
\* whatever other partitions the worker has, so it may hold up all of them.
EveryRecordCommitted ==
    [](\A p \in Partitions : \A o \in DOMAIN log[p] : log[p][o] \notin Unstorable) =>
        \A p \in Partitions, o \in Offsets :
            (o < Len(log[p])) ~> (o < committed[p])

\* A valid record the database refuses is never skipped: the partition waits
\* in front of it (run_forever lets the exception end the worker).
RefusedRecordBlocks ==
    \A p \in Partitions : \A o \in 0 .. Len(log[p]) - 1 :
        RecordAt(p, o) \in Unstorable => committed[p] <= o

-----------------------------------------------------------------------------
(* The inductive invariant behind the two of them.                         *)

\* Records are where their key puts them.
LogIsRouted ==
    \A p \in Partitions : \A o \in 0 .. Len(log[p]) - 1 :
        PartitionOf[RecordAt(p, o)] = p

\* A worker vouches for everything below its frontier, an expelled one too,
\* and for its message once it is about to commit.
WorkersVouch ==
    \A w \in Workers :
        /\ \A p \in assigned[w] : \A o \in 0 .. Frontier(w, p) - 1 : Accounted(p, o)
        /\ pc[w] = "commit" => Accounted(cur[w].partition, cur[w].offset)

IInv ==
    /\ TypeOK
    /\ GroupInv
    /\ LogIsRouted
    /\ CommittedIsDurable
    /\ WorkersVouch
    /\ FirstLineageStored

-----------------------------------------------------------------------------
(* The inductive invariant behind DeadLettersBounded.                      *)

\* Workers expelled from p that may still have a record of p to publish.
Expelled(p) ==
    {w \in Workers : p \in assigned[w] /\ owner[p] # w /\ pc[w] # "commit"}

\* The owner of p, or the next one, has the record at o still to publish.
Unsettled(p, o) ==
    /\ committed[p] <= o
    /\ ~ \E w \in Workers : /\ owner[p] = w /\ pc[w] = "commit"
                            /\ cur[w].partition = p /\ cur[w].offset = o

\* What has been published of a record and what may yet be is paid for: one
\* letter by the record itself, every other one by a disruption.
DeadLettersOwed ==
    /\ ExpelledFromAll
    /\ \A p \in Partitions, o \in Offsets :
        /\ IsFiniteSet(Expelled(p))
        /\ dlq[p][o] + Cardinality(Expelled(p)) + (IF Unsettled(p, o) THEN 1 ELSE 0)
            <= 1 + disruptions

-----------------------------------------------------------------------------
(* Refinement.                                                             *)

Contract == INSTANCE IngestContract WITH
    stored <- {r.key : r \in raw},
    dead <- {l \in Partitions \X Offsets : dlq[l[1]][l[2]] > 0},
    confirmed <- committed

\* Crashes, fencing, lost answers and replays of the group of writers amount
\* to stuttering of a consumer that accounts for each record in turn and
\* confirms one accounted record at a time (docs/adr/0001).
ImplementsContract == Contract!Spec
=============================================================================
