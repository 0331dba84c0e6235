----------------------- MODULE IngestPipeline_proofs -----------------------
(***************************************************************************)
(* The writers first, by themselves: IInv, for every number of workers,    *)
(* partitions and values and every bound, what follows from it, and the    *)
(* contract they implement.  Then the promises of the two ends of the      *)
(* pipeline, joined: the receiver's invariant and the writers' carry over  *)
(* to the composition, and between them no accepted delivery is lost.      *)
(***************************************************************************)
EXTENDS IngestPipeline, ConsumerGroup_proofs, FiniteSetTheorems

-----------------------------------------------------------------------------
(* The writers.  Spec, Next, vars and IInv are WarehouseWriter's.          *)

\* Once a record is accounted for it stays so: the log is append-only, rows
\* and dead letters are never removed.
LEMMA AccountedStays ==
    ASSUME TypeOK, TypeOK', NEW p \in Partitions, NEW o \in Nat,
           o < Len(log[p]), Accounted(p, o),
           RecordAt(p, o)' = RecordAt(p, o),
           raw \subseteq raw',
           \A q \in Partitions, n \in Offsets : dlq'[q][n] >= dlq[q][n]
    PROVE  Accounted(p, o)'
<1>1. CASE RecordAt(p, o) \in Valid
    BY <1>1 DEF Accounted
<1>2. CASE RecordAt(p, o) \notin Valid
  <2>1. dlq[p][o] \in Nat /\ dlq'[p][o] \in Nat
    BY <1>2 DEF Accounted, TypeOK
  <2> QED
    BY <1>2, <2>1 DEF Accounted
<1> QED
    BY <1>1, <1>2

\* The initial state satisfies the invariant.
LEMMA InitIInv == Init => IInv
<1> SUFFICES ASSUME Init PROVE IInv
    OBVIOUS
<1>1. TypeOK /\ GroupInv
    BY GroupInitial DEF Init, TypeOK
<1>2. \A p \in Partitions : Len(log[p]) = 0 /\ committed[p] = 0
    BY DEF Init, GroupInit
<1>3. LogIsRouted /\ CommittedIsDurable
    BY <1>2 DEF LogIsRouted, CommittedIsDurable
<1>4. WorkersVouch
    BY DEF Init, GroupInit, WorkersVouch
<1>5. FirstLineageStored
    BY DEF Init, FirstLineageStored
<1> QED
    BY <1>1, <1>3, <1>4, <1>5 DEF IInv

-----------------------------------------------------------------------------
(* Types, and what only grows.                                             *)

\* Inserting adds at most the row of the message in hand; publishing adds one
\* dead letter.
LEMMA EffectTypes ==
    ASSUME TypeOK, GroupInv, NEW w \in Workers, pc[w] = "process"
    PROVE  /\ Message(w) \in Values
           /\ raw \subseteq InsertedRows(w)
           /\ Message(w) \in Valid \ Unstorable => InsertedRows(w) \in SUBSET RawRow
           /\ PublishedLetters(w) \in [Partitions -> [Offsets -> Nat]]
           /\ \A q \in Partitions, n \in Offsets :
                 PublishedLetters(w)[q][n] >= dlq[q][n]
           /\ cur[w].offset \in Offsets
           /\ PublishedLetters(w)[cur[w].partition][cur[w].offset] > 0
<1> DEFINE p == cur[w].partition
           o == cur[w].offset
<1>1. p \in Partitions /\ o \in Nat /\ o < Len(log[p])
    BY BusyHolds DEF TypeOK, Busy
<1>2. log[p] \in Seq(Values) /\ Len(log[p]) <= MaxLog
    BY <1>1 DEF TypeOK, GroupTypeOK
<1>3. o \in Offsets
    BY <1>1, <1>2, GroupAssumption DEF Offsets
<1>4. Message(w) \in Values
    BY <1>1, <1>2 DEF Message, RecordAt
<1>5. raw \subseteq InsertedRows(w)
    BY DEF InsertedRows
<1>6. Message(w) \in Valid \ Unstorable => RowOf(w) \in RawRow
    BY <1>1 DEF RowOf, RawRow
<1>7. Message(w) \in Valid \ Unstorable => InsertedRows(w) \in SUBSET RawRow
    BY <1>6 DEF InsertedRows, TypeOK
<1> HIDE DEF p, o
<1>8. PublishedLetters(w) = [dlq EXCEPT ![p][o] = @ + 1]
    BY DEF PublishedLetters, p, o
<1>9. /\ PublishedLetters(w) \in [Partitions -> [Offsets -> Nat]]
      /\ PublishedLetters(w)[p][o] > 0
      /\ \A q \in Partitions, n \in Offsets : PublishedLetters(w)[q][n] >= dlq[q][n]
    BY <1>1, <1>3, <1>8 DEF TypeOK
<1> QED
    BY <1>3, <1>4, <1>5, <1>7, <1>9 DEF p, o

\* Every step keeps the types and the group's invariant.
LEMMA TypeStep == TypeOK /\ GroupInv /\ [Next]_vars => TypeOK' /\ GroupInv'
<1> SUFFICES ASSUME TypeOK, GroupInv, [Next]_vars PROVE TypeOK' /\ GroupInv'
    OBVIOUS
<1>1. CASE GroupStep /\ UNCHANGED stores
    BY <1>1, GroupStepKeeps DEF TypeOK, stores
<1>2. ASSUME NEW w \in Workers, Insert(w) \/ DeadLetter(w)
      PROVE  TypeOK' /\ GroupInv'
    BY <1>2, EffectTypes, EffectDoneKeeps DEF Insert, DeadLetter, TypeOK
<1>3. ASSUME NEW w \in Workers, InsertFails(w) \/ DeadLetterFails(w)
      PROVE  TypeOK' /\ GroupInv'
  <2>1. GroupTypeOK' /\ GroupInv'
    BY <1>3, StopKeeps, GroupAssumption
    DEF InsertFails, DeadLetterFails, EffectRaised, Disrupt, brokerVars,
        TypeOK, GroupTypeOK
  <2> QED
    BY <1>3, <2>1, EffectTypes DEF InsertFails, DeadLetterFails, TypeOK
<1>4. ASSUME NEW w \in Workers, InsertRefused(w)
      PROVE  TypeOK' /\ GroupInv'
    BY <1>4, StopKeeps DEF InsertRefused, brokerVars, stores, TypeOK, GroupTypeOK
<1>5. CASE UNCHANGED vars
  <2> USE <1>5 DEF vars, groupVars
  <2>1. TypeOK'
    BY DEF TypeOK, GroupTypeOK
  <2>2. GroupInv'
    BY DEF GroupInv, CommittedInLog, StoppedHoldsNothing, BusyHoldsMessage,
       PositionInLog, OwnerAtCommitted, Busy, Frontier
  <2> QED
    BY <2>1, <2>2
<1> QED
    BY <1>1, <1>2, <1>3, <1>4, <1>5 DEF Next, Process

\* A step appends a record, or it leaves the log alone.
LEMMA LogStep ==
    [Next]_vars => log' = log \/ \E v \in Values : Produce(v)
BY DEF Next, vars, groupVars, GroupStep, MemberStep, Assign, Revoke, Poll, Fence, Rejoin,
   Start, Crash, CommitOffset, CommitRejected, CommitFails, Process, Insert,
   InsertFails, InsertRefused, DeadLetter, DeadLetterFails, EffectDone,
   EffectRaised, brokerVars

\* Rows and dead letters only accumulate.
LEMMA StoresGrow ==
    TypeOK /\ GroupInv /\ [Next]_vars =>
        /\ raw \subseteq raw'
        /\ \A q \in Partitions, n \in Offsets : dlq'[q][n] >= dlq[q][n]
<1> SUFFICES ASSUME TypeOK, GroupInv, [Next]_vars
    PROVE  /\ raw \subseteq raw'
           /\ \A q \in Partitions, n \in Offsets : dlq'[q][n] >= dlq[q][n]
    OBVIOUS
<1>1. CASE UNCHANGED stores
    BY <1>1 DEF stores, TypeOK
<1>2. ASSUME NEW w \in Workers, Process(w), ~ UNCHANGED stores
      PROVE  /\ raw \subseteq raw'
             /\ \A q \in Partitions, n \in Offsets : dlq'[q][n] >= dlq[q][n]
  <2>1. pc[w] = "process"
    BY <1>2 DEF Process, Insert, InsertFails, InsertRefused, DeadLetter, DeadLetterFails
  <2>2. raw' \in {raw, InsertedRows(w)} /\ dlq' \in {dlq, PublishedLetters(w)}
    BY <1>2 DEF Process, Insert, InsertFails, InsertRefused, DeadLetter,
       DeadLetterFails, stores
  <2> QED
    BY <2>1, <2>2, EffectTypes DEF TypeOK
<1> QED
    BY <1>1, <1>2 DEF Next, vars, stores

\* So what a record is accounted for by survives every step.
LEMMA AccountedKept ==
    ASSUME TypeOK, GroupInv, [Next]_vars, NEW p \in Partitions, NEW o \in Nat,
           o < Len(log[p]), Accounted(p, o)
    PROVE  Accounted(p, o)'
<1>1. TypeOK'
    BY TypeStep
<1>2. RecordAt(p, o)' = RecordAt(p, o)
    BY LogStep, RecordKept DEF TypeOK
<1> QED
    BY <1>1, <1>2, StoresGrow, AccountedStays

-----------------------------------------------------------------------------
(* The inductive step, one lemma per conjunct of IInv.                     *)

\* Effects do not move committed offsets.
LEMMA EffectCommits ==
    [Next]_vars => GroupStep \/ committed' = committed
BY DEF Next, vars, groupVars, Process, Insert, InsertFails, InsertRefused,
   DeadLetter, DeadLetterFails, EffectDone, EffectRaised, brokerVars

LEMMA RoutedStep ==
    ASSUME IInv, [Next]_vars PROVE LogIsRouted'
<1>1. CASE log' = log
    BY <1>1 DEF IInv, LogIsRouted, RecordAt
<1>2. ASSUME NEW v \in Values, Produce(v) PROVE LogIsRouted'
  <2> SUFFICES ASSUME NEW p \in Partitions, NEW o \in 0 .. Len(log'[p]) - 1
               PROVE  PartitionOf[RecordAt(p, o)'] = p
    BY DEF LogIsRouted
  <2>1. CASE o < Len(log[p])
    <3>1. o \in 0 .. Len(log[p]) - 1
      BY <2>1 DEF IInv, TypeOK, GroupTypeOK
    <3> QED
      BY <1>2, <3>1, RecordsStay DEF IInv, TypeOK, LogIsRouted
  <2>2. CASE ~ o < Len(log[p])
    BY <1>2, <2>2, RecordsStay DEF IInv, TypeOK, GroupTypeOK
  <2> QED
    BY <2>1, <2>2
<1> QED
    BY <1>1, <1>2, LogStep

LEMMA DurableStep ==
    ASSUME IInv, [Next]_vars PROVE CommittedIsDurable'
<1> SUFFICES ASSUME NEW p \in Partitions, NEW o \in 0 .. committed'[p] - 1
             PROVE  Accounted(p, o)'
    BY DEF CommittedIsDurable
<1> USE DEF IInv
<1>1. committed[p] \in Nat /\ Len(log[p]) \in Nat /\ committed[p] <= Len(log[p])
      /\ committed'[p] \in Nat
    BY TypeStep DEF TypeOK, GroupTypeOK, GroupInv, CommittedInLog
<1>2. CASE o < committed[p]
  <2>1. Accounted(p, o)
    BY <1>1, <1>2 DEF CommittedIsDurable
  <2> QED
    BY <1>1, <1>2, <2>1, AccountedKept
<1>3. ASSUME ~ o < committed[p],
             NEW w \in Workers, pc[w] = "commit", AdvanceOffset(w)
      PROVE  Accounted(p, o)'
  <2>1. /\ cur[w].partition \in Partitions /\ cur[w].offset \in Nat
        /\ cur[w].partition \in assigned[w]
        /\ cur[w].offset < Len(log[cur[w].partition])
    BY <1>3, BusyHolds DEF TypeOK, Busy
  <2>2. cur[w].partition = p /\ committed'[p] = cur[w].offset + 1
    BY <1>1, <1>3, <2>1 DEF AdvanceOffset, TypeOK, GroupTypeOK
  <2>3. CASE o = cur[w].offset
    BY <1>3, <2>1, <2>2, <2>3, AccountedKept DEF WorkersVouch
  <2>4. CASE o < cur[w].offset
    <3>1. Frontier(w, p) = cur[w].offset
      BY <1>3, <2>2 DEF Frontier, Busy
    <3>2. Accounted(p, o)
      BY <2>1, <2>2, <2>4, <3>1 DEF WorkersVouch
    <3> QED
      BY <1>1, <2>1, <2>2, <2>4, <3>2, AccountedKept
  <2> QED
    BY <2>1, <2>2, <2>3, <2>4
<1> QED
    BY <1>1, <1>2, <1>3, CommitStep, EffectCommits

\* What the group sees of a step of a writer.
LEMMA GroupView ==
    [Next]_vars => \/ GroupStep
                   \/ \E u \in Workers : Stop(u)
                   \/ \E u \in Workers : pc[u] = "process" /\ EffectDone(u)
                   \/ UNCHANGED groupVars
BY DEF Next, vars, Process, Insert, InsertFails, InsertRefused, DeadLetter,
   DeadLetterFails, EffectRaised

\* A worker about to commit has just had its effect acknowledged, or already
\* had it before the step.
LEMMA CommitNext ==
    ASSUME TypeOK, GroupInv, [Next]_vars, NEW w \in Workers, pc'[w] = "commit"
    PROVE  /\ cur'[w] = cur[w]
           /\ \/ pc[w] = "commit"
              \/ pc[w] = "process" /\ log' = log /\ (Insert(w) \/ DeadLetter(w))
BY DEF TypeOK, GroupTypeOK, Next, vars, groupVars, GroupStep, MemberStep, Produce, Assign,
   Revoke, Poll, Fence, Rejoin, Start, Crash, Stop, CommitOffset, CommitRejected,
   CommitFails, Process, Insert, InsertFails, InsertRefused, DeadLetter,
   DeadLetterFails, EffectDone, EffectRaised, brokerVars

LEMMA VouchStep ==
    ASSUME IInv, [Next]_vars PROVE WorkersVouch'
<1> USE DEF IInv
<1>1. TypeOK' /\ GroupInv'
    BY TypeStep
<1>2. ASSUME NEW w \in Workers, NEW p \in assigned'[w],
             NEW o \in 0 .. Frontier(w, p)' - 1
      PROVE  Accounted(p, o)'
  <2>1. p \in Partitions /\ Len(log[p]) \in Nat /\ o \in Nat
    BY <1>1 DEF TypeOK, GroupTypeOK
  <2>2. CASE p \in assigned[w] /\ Frontier(w, p)' = Frontier(w, p)
    <3>1. Accounted(p, o)
      BY <2>2 DEF WorkersVouch
    <3>2. o < Len(log[p])
      BY <2>1, <2>2 DEF Frontier, GroupInv, PositionInLog, BusyHoldsMessage,
         TypeOK, GroupTypeOK, Lineage
    <3> QED
      BY <2>1, <3>1, <3>2, AccountedKept
  <2>3. CASE Frontier(w, p)' = committed[p]
    <3>1. Accounted(p, o) /\ o < Len(log[p])
      BY <2>1, <2>3 DEF CommittedIsDurable, GroupInv, CommittedInLog, TypeOK, GroupTypeOK
    <3> QED
      BY <2>1, <3>1, AccountedKept
  <2>4. CASE /\ pc[w] = "commit" /\ cur[w].partition = p
             /\ p \in assigned[w] /\ Frontier(w, p)' = cur[w].offset + 1
    <3>1. cur[w].offset \in Nat /\ cur[w].offset < Len(log[p])
      BY <2>4, BusyHolds DEF TypeOK, Busy
    <3>2. Frontier(w, p) = cur[w].offset
      BY <2>4 DEF Frontier, Busy
    <3>3. Accounted(p, o)
      BY <2>4, <3>1, <3>2 DEF WorkersVouch
    <3>4. o < Len(log[p])
      BY <2>1, <2>4, <3>1
    <3> QED
      BY <2>1, <3>3, <3>4, AccountedKept
  <2> QED
    BY <1>1, <2>2, <2>3, <2>4, GroupView, FrontierStep DEF TypeOK
<1>3. ASSUME NEW w \in Workers, pc'[w] = "commit"
      PROVE  Accounted(cur[w].partition, cur[w].offset)'
  <2>1. /\ cur'[w] = cur[w] /\ Busy(w)
        /\ \/ pc[w] = "commit"
           \/ pc[w] = "process" /\ log' = log /\ (Insert(w) \/ DeadLetter(w))
    BY <1>3, CommitNext DEF Busy
  <2>2. PICK p \in Partitions, o \in Nat :
            /\ p = cur[w].partition /\ o = cur[w].offset
            /\ o < Len(log[p])
    BY <2>1, BusyHolds DEF TypeOK
  <2>3. CASE pc[w] = "commit"
    <3>1. Accounted(p, o)
      BY <2>2, <2>3 DEF WorkersVouch
    <3> QED
      BY <2>1, <2>2, <3>1, AccountedKept
  <2>4. CASE Insert(w) /\ log' = log
    <3>1. \E r \in raw' : r.key = RecordAt(p, o)
      <4>1. Message(w) = RecordAt(p, o) /\ raw' = InsertedRows(w)
        BY <2>2, <2>4 DEF Insert, Message
      <4>2. RowOf(w).key = Message(w)
        BY DEF RowOf
      <4> QED
        BY <4>1, <4>2 DEF InsertedRows
    <3>2. RecordAt(p, o) \in Valid
      BY <2>2, <2>4 DEF Insert, Message
    <3>3. Accounted(p, o)'
      BY <2>4, <3>1, <3>2 DEF Accounted, RecordAt
    <3> QED
      BY <2>1, <2>2, <3>3
  <2>5. CASE DeadLetter(w) /\ log' = log
    <3>1. pc[w] = "process" /\ RecordAt(p, o) \notin Valid /\ dlq' = PublishedLetters(w)
      BY <2>2, <2>5 DEF DeadLetter, Message
    <3>2. o \in Offsets /\ dlq'[p][o] > 0
      BY <2>2, <3>1, EffectTypes
    <3>3. Accounted(p, o)'
      BY <2>5, <3>1, <3>2 DEF Accounted, RecordAt
    <3> QED
      BY <2>1, <2>2, <3>3
  <2> QED
    BY <2>1, <2>3, <2>4, <2>5
<1> QED
  <2>1. \A w \in Workers : \A p \in assigned'[w] :
            \A o \in 0 .. Frontier(w, p)' - 1 : Accounted(p, o)'
    BY <1>2
  <2> QED
    BY <1>3, <2>1 DEF WorkersVouch

\* A row is added only by the worker that reaches its delivery first.
LEMMA NewRow ==
    ASSUME TypeOK, GroupInv, [Next]_vars, NEW r \in raw', r \notin raw
    PROVE  \E w \in Workers : /\ pc[w] = "process" /\ log' = log
                              /\ Message(w) \in Valid
                              /\ r = RowOf(w) /\ raw' = raw \cup {RowOf(w)}
                              /\ \A s \in raw : s.key # Message(w)
BY DEF Next, vars, stores, Process, Insert, InsertFails, InsertRefused,
   DeadLetter, DeadLetterFails, EffectDone, EffectRaised, InsertedRows, brokerVars

LEMMA LineageStep ==
    ASSUME IInv, [Next]_vars PROVE FirstLineageStored'
<1> USE DEF IInv
<1>1. TypeOK' /\ GroupInv'
    BY TypeStep
<1>2. ASSUME NEW r \in raw
      PROVE  /\ r.partition = PartitionOf[r.key]
             /\ r.offset < Len(log'[r.partition])
             /\ RecordAt(r.partition, r.offset)' = r.key
             /\ \A o \in 0 .. r.offset - 1 : RecordAt(r.partition, o)' # r.key
  <2>1. r.partition \in Partitions /\ r.offset \in Nat
        /\ Len(log[r.partition]) \in Nat
    BY DEF TypeOK, RawRow, GroupTypeOK
  <2>2. /\ r.partition = PartitionOf[r.key]
        /\ r.offset < Len(log[r.partition])
        /\ RecordAt(r.partition, r.offset) = r.key
        /\ \A o \in 0 .. r.offset - 1 : RecordAt(r.partition, o) # r.key
    BY DEF FirstLineageStored
  <2>3. CASE log' = log
    BY <2>2, <2>3 DEF RecordAt
  <2>4. ASSUME NEW v \in Values, Produce(v)
        PROVE  /\ r.offset < Len(log'[r.partition])
               /\ RecordAt(r.partition, r.offset)' = r.key
               /\ \A o \in 0 .. r.offset - 1 : RecordAt(r.partition, o)' # r.key
    <3> DEFINE p == r.partition
               n == r.offset
    <3>1. /\ Len(log'[p]) \in Nat /\ Len(log[p]) <= Len(log'[p])
          /\ \A o \in 0 .. Len(log[p]) - 1 : RecordAt(p, o)' = RecordAt(p, o)
      BY <2>1, <2>4, RecordsStay DEF TypeOK
    <3>2. \A o \in 0 .. n : RecordAt(p, o)' = RecordAt(p, o)
      BY <2>1, <2>2, <3>1
    <3> QED
      BY <2>1, <2>2, <3>1, <3>2
  <2> QED
    BY <2>2, <2>3, <2>4, LogStep
<1>3. ASSUME NEW r \in raw', r \notin raw
      PROVE  /\ r.partition = PartitionOf[r.key]
             /\ r.offset < Len(log'[r.partition])
             /\ RecordAt(r.partition, r.offset)' = r.key
             /\ \A o \in 0 .. r.offset - 1 : RecordAt(r.partition, o)' # r.key
             /\ \A s \in raw : s.key # r.key
             /\ \A s \in raw' : s \notin raw => s = r
  <2>1. PICK w \in Workers : /\ pc[w] = "process" /\ log' = log
                             /\ Message(w) \in Valid
                             /\ r = RowOf(w) /\ raw' = raw \cup {RowOf(w)}
                             /\ \A s \in raw : s.key # Message(w)
    BY <1>3, NewRow
  <2>2. PICK p \in Partitions, o \in Nat :
            /\ p = cur[w].partition /\ o = cur[w].offset
            /\ o < Len(log[p]) /\ p \in assigned[w]
    BY <2>1, BusyHolds DEF TypeOK, Busy
  <2>3. r.partition = p /\ r.offset = o /\ r.key = RecordAt(p, o)
    BY <2>1, <2>2 DEF RowOf, Message
  <2>4. PartitionOf[RecordAt(p, o)] = p
    BY <2>2 DEF LogIsRouted, TypeOK, GroupTypeOK
  <2>5. ASSUME NEW n \in 0 .. o - 1, RecordAt(p, n) = r.key
        PROVE  FALSE
    <3>1. Frontier(w, p) = o
      BY <2>1, <2>2 DEF Frontier, Busy
    <3>2. Accounted(p, n)
      BY <2>2, <3>1 DEF WorkersVouch
    <3>3. \E s \in raw : s.key = r.key
      BY <2>1, <2>2, <2>3, <2>5, <3>2 DEF Accounted, Message
    <3> QED
      BY <2>1, <2>2, <2>3, <3>3 DEF Message
  <2>6. \A s \in raw : s.key # r.key
    BY <2>1, <2>2, <2>3 DEF Message
  <2>7. \A n \in Nat : RecordAt(p, n)' = RecordAt(p, n)
    BY <2>1 DEF RecordAt
  <2> QED
    BY <2>1, <2>2, <2>3, <2>4, <2>5, <2>6, <2>7
<1>4. \A r, s \in raw' : s.key = r.key => s = r
    BY <1>3 DEF FirstLineageStored
<1> QED
    BY <1>2, <1>3, <1>4 DEF FirstLineageStored

-----------------------------------------------------------------------------

\* Types of the writer's state hold in every reachable state, for every size
\* of group, topic and bound (warehouse.py, storage.py).
THEOREM TypeCorrect == Spec => []TypeOK
<1>1. Init => TypeOK /\ GroupInv
    BY GroupInitial DEF Init, TypeOK
<1>2. TypeOK /\ GroupInv /\ [Next]_vars => TypeOK' /\ GroupInv'
    BY TypeStep
<1> QED
    BY <1>1, <1>2, PTL DEF Spec

\* The inductive invariant holds in every reachable state.
THEOREM Inductive == Spec => []IInv
<1>1. IInv /\ [Next]_vars => IInv'
    BY TypeStep, RoutedStep, DurableStep, VouchStep, LineageStep DEF IInv
<1> QED
    BY <1>1, InitIInv, PTL DEF Spec

\* No committed offset runs ahead of a durable effect (warehouse.py:111-152).
THEOREM Durability == Spec => []CommittedIsDurable
<1>1. IInv => CommittedIsDurable
    BY DEF IInv
<1> QED
    BY <1>1, Inductive, PTL

\* A delivery has one row, with the lineage of its first record
\* (storage.py:41, warehouse.py:87-92).
THEOREM FirstLineage == Spec => []FirstLineageStored
<1>1. IInv => FirstLineageStored
    BY DEF IInv
<1> QED
    BY <1>1, Inductive, PTL

\* A refused record is never passed by its partition's committed offset.
THEOREM RefusedBlocks == Spec => []RefusedRecordBlocks
<1>1. IInv => RefusedRecordBlocks
  <2> SUFFICES ASSUME IInv, NEW p \in Partitions, NEW o \in 0 .. Len(log[p]) - 1,
                      RecordAt(p, o) \in Unstorable, ~ committed[p] <= o
               PROVE  FALSE
    BY DEF RefusedRecordBlocks
  <2>1. committed[p] \in Nat /\ Len(log[p]) \in Nat
    BY DEF IInv, TypeOK, GroupTypeOK
  <2>2. Accounted(p, o)
    BY <2>1 DEF IInv, CommittedIsDurable
  <2>3. \E r \in raw : r.key = RecordAt(p, o)
    BY <2>2, WriterAssumption DEF Accounted
  <2> QED
    BY <2>3 DEF IInv, TypeOK, RawRow
<1> QED
    BY <1>1, Inductive, PTL

\* Committed offsets never move back (warehouse.py:148-152).
THEOREM NeverRegresses == Spec => CommittedNeverRegresses
<1>1. TypeOK /\ GroupInv /\ [Next]_vars =>
        [\A p \in Partitions : committed'[p] >= committed[p]]_groupVars
  <2> SUFFICES ASSUME TypeOK, GroupInv, [Next]_vars, NEW p \in Partitions
               PROVE  committed'[p] >= committed[p]
    OBVIOUS
  <2>1. CASE GroupStep
    BY <2>1, CommittedGrows DEF TypeOK
  <2>2. CASE committed' = committed
    BY <2>2 DEF TypeOK, GroupTypeOK
  <2> QED
    BY <2>1, <2>2 DEF Next, vars, groupVars, Process, Insert, InsertFails,
       InsertRefused, DeadLetter, DeadLetterFails, EffectDone, EffectRaised, brokerVars
<1>2. Init => TypeOK /\ GroupInv
    BY GroupInitial DEF Init, TypeOK
<1>3. TypeOK /\ GroupInv /\ [Next]_vars => TypeOK' /\ GroupInv'
    BY TypeStep
<1> QED
    BY <1>1, <1>2, <1>3, PTL DEF Spec, CommittedNeverRegresses

-----------------------------------------------------------------------------
(* Refinement: each step of the group is one step of IngestContract, or    *)
(* none.                                                                   *)

\* The contract's stored deliveries and dead lineages.
StoredKeys == {r.key : r \in raw}
DeadLineages == {l \in Partitions \X Offsets : dlq[l[1]][l[2]] > 0}

LEMMA ContractState ==
    /\ Contract!vars = <<log, StoredKeys, DeadLineages, committed>>
    /\ \A p \in Partitions, o \in Nat : Contract!Accounted(p, o) <=> Accounted(p, o)
<1>1. ASSUME NEW p \in Partitions, NEW o \in Nat
      PROVE  Contract!Accounted(p, o) <=> Accounted(p, o)
  <2>1. <<p, o>> \in DeadLineages <=> o \in Offsets /\ dlq[p][o] > 0
    BY DEF DeadLineages
  <2>2. RecordAt(p, o) \in StoredKeys <=> \E r \in raw : r.key = RecordAt(p, o)
    BY DEF StoredKeys
  <2> QED
    BY <2>1, <2>2 DEF Contract!Accounted, Contract!Record, Accounted, RecordAt, StoredKeys, DeadLineages
<1> QED
    BY <1>1 DEF Contract!vars, StoredKeys, DeadLineages

\* The message in hand is in turn: everything before it is accounted for.
LEMMA MessageInTurn ==
    ASSUME IInv, NEW w \in Workers, Busy(w)
    PROVE  /\ cur[w].partition \in Partitions
           /\ cur[w].offset \in 0 .. Len(log[cur[w].partition]) - 1
           /\ Contract!InTurn(cur[w].partition, cur[w].offset)
           /\ Message(w) = Contract!Record(cur[w].partition, cur[w].offset)
<1> USE DEF IInv
<1>1. PICK p \in Partitions, o \in Nat :
          /\ p = cur[w].partition /\ o = cur[w].offset
          /\ o < Len(log[p]) /\ p \in assigned[w]
    BY BusyHolds DEF TypeOK
<1>2. Frontier(w, p) = o
    BY <1>1 DEF Frontier
<1>3. \A n \in 0 .. o - 1 : Accounted(p, n)
    BY <1>1, <1>2 DEF WorkersVouch
<1>4. \A n \in 0 .. o - 1 : Contract!Accounted(p, n)
    BY <1>3, ContractState
<1>5. Len(log[p]) \in Nat
    BY DEF TypeOK, GroupTypeOK
<1> QED
    BY <1>1, <1>4, <1>5 DEF Contract!InTurn, Contract!Record, Message, RecordAt

\* A worker that processes a message stores it, buries it, or changes nothing.
LEMMA ProcessImplements ==
    ASSUME IInv, NEW w \in Workers, Process(w)
    PROVE  [Contract!Next]_(Contract!vars)
<1>1. /\ pc[w] = "process" /\ Busy(w)
      /\ log' = log /\ committed' = committed
    BY DEF Busy, Process, Insert, InsertFails, InsertRefused, DeadLetter,
       DeadLetterFails, EffectDone, EffectRaised, brokerVars
<1>2. PICK p \in Partitions, o \in Nat :
          /\ p = cur[w].partition /\ o = cur[w].offset
          /\ o \in 0 .. Len(log[p]) - 1
          /\ Contract!InTurn(p, o) /\ Message(w) = Contract!Record(p, o)
    BY <1>1, MessageInTurn
<1>3. CASE UNCHANGED stores
    BY <1>1, <1>3, Zenon DEF stores, Contract!vars
<1>4. CASE Message(w) \in Valid /\ raw' = InsertedRows(w) /\ dlq' = dlq
  <2>1. RowOf(w).key = Message(w)
    BY DEF RowOf
  <2>2. StoredKeys' = StoredKeys \cup {Message(w)}
    BY <1>4, <2>1 DEF StoredKeys, InsertedRows
  <2>3. DeadLineages' = DeadLineages
    BY <1>4 DEF DeadLineages
  <2>4. Contract!Store(p, o)
    BY <1>1, <1>2, <1>4, <2>2, <2>3 DEF Contract!Store, StoredKeys, DeadLineages
  <2> QED
    BY <1>2, <2>4 DEF Contract!Next
<1>5. CASE Message(w) \notin Valid /\ dlq' = PublishedLetters(w) /\ raw' = raw
  <2>1. /\ o \in Offsets /\ dlq'[p][o] > 0
        /\ dlq' = [dlq EXCEPT ![p][o] = @ + 1]
    BY <1>1, <1>2, <1>5, EffectTypes DEF IInv, PublishedLetters
  <2>2. \A q \in Partitions, n \in Offsets :
            dlq'[q][n] > 0 <=> dlq[q][n] > 0 \/ <<q, n>> = <<p, o>>
    BY <1>2, <2>1 DEF IInv, TypeOK
  <2>3. DeadLineages' = DeadLineages \cup {<<p, o>>}
    BY <1>2, <2>1, <2>2 DEF DeadLineages
  <2>4. StoredKeys' = StoredKeys
    BY <1>5 DEF StoredKeys
  <2>5. Contract!Bury(p, o)
    BY <1>1, <1>2, <1>5, <2>3, <2>4 DEF Contract!Bury, StoredKeys, DeadLineages
  <2> QED
    BY <1>2, <2>5 DEF Contract!Next
<1> QED
    BY <1>3, <1>4, <1>5 DEF Process, Insert, InsertFails, InsertRefused, DeadLetter,
       DeadLetterFails, stores

\* Only an append and a commit show in the contract; a commit confirms the one
\* record behind the confirmed offset.
LEMMA GroupImplements ==
    ASSUME IInv, GroupStep, UNCHANGED stores
    PROVE  [Contract!Next]_(Contract!vars)
<1> USE DEF IInv
<1>1. StoredKeys' = StoredKeys /\ DeadLineages' = DeadLineages
    BY DEF stores, StoredKeys, DeadLineages
<1>2. CASE committed' = committed
  <2>1. CASE log' = log
    BY <1>1, <1>2, <2>1, Zenon DEF Contract!vars, StoredKeys, DeadLineages
  <2>2. ASSUME NEW v \in Values, Produce(v) PROVE Contract!Next
    BY <1>1, <1>2, <2>2 DEF Produce, Contract!Next, Contract!Arrive, StoredKeys, DeadLineages
  <2> QED
    BY <2>1, <2>2, LogStep DEF Next
<1>3. ASSUME NEW w \in Workers, pc[w] = "commit", owner[cur[w].partition] = w,
             AdvanceOffset(w), log' = log
      PROVE  Contract!Next
  <2>1. PICK p \in Partitions, o \in Nat :
            p = cur[w].partition /\ o = cur[w].offset /\ o < Len(log[p])
    BY <1>3, BusyHolds DEF TypeOK, Busy
  <2>2. committed[p] = o
    BY <1>3, <2>1 DEF GroupInv, OwnerAtCommitted, Frontier, Busy
  <2>3. committed' = [committed EXCEPT ![p] = @ + 1]
    BY <1>3, <2>1, <2>2 DEF AdvanceOffset
  <2>4. Contract!Accounted(p, o)
    BY <1>3, <2>1, ContractState DEF WorkersVouch
  <2>5. Contract!Confirm(p)
    BY <1>1, <1>3, <2>1, <2>2, <2>3, <2>4 DEF Contract!Confirm, StoredKeys, DeadLineages
  <2> QED
    BY <2>1, <2>5 DEF Contract!Next
<1> QED
    BY <1>2, <1>3, CommitStep

\* The group of writers implements the contract of ADR 0001: rows and dead letters
\* in turn, offsets confirmed one accounted record at a time, and everything
\* else a stutter (warehouse.py:87-152, storage.py:41).
THEOREM ContractKept == Spec => ImplementsContract
<1>1. Init => Contract!Init
    BY DEF Init, GroupInit, Contract!Init
<1>2. IInv /\ [Next]_vars => [Contract!Next]_(Contract!vars)
  <2>1. ASSUME UNCHANGED vars PROVE UNCHANGED Contract!vars
    BY <2>1, Zenon DEF vars, groupVars, Contract!vars
  <2> QED
    BY <2>1, ProcessImplements, GroupImplements DEF Next
<1> QED
    BY <1>1, <1>2, Inductive, PTL DEF Spec, ImplementsContract, Contract!Spec

-----------------------------------------------------------------------------
(* Dead letters.                                                           *)

\* A worker that stops publishes nothing more.
LEMMA StopOwes ==
    ASSUME TypeOK, NEW u \in Workers, Stop(u), NEW p \in Partitions
    PROVE  Expelled(p)' \subseteq Expelled(p)
BY GroupAssumption DEF TypeOK, GroupTypeOK, Stop, Release, Expelled

\* Between two effects the group can come to owe a letter more, and then only
\* by a disruption that turns the owner out or stops it before its commit.
LEMMA GroupOwes ==
    ASSUME TypeOK, GroupInv, ExpelledFromAll, GroupStep,
           NEW p \in Partitions, NEW o \in Offsets
    PROVE  \/ /\ Expelled(p)' \subseteq Expelled(p)
              /\ Unsettled(p, o)' => Unsettled(p, o)
              /\ disruptions' \in {disruptions, disruptions + 1}
           \/ Expelled(p)' \subseteq Expelled(p) /\ disruptions' = disruptions + 1
           \/ /\ \E w \in Workers : Expelled(p)' \subseteq Expelled(p) \cup {w}
              /\ Unsettled(p, o)' => Unsettled(p, o)
              /\ disruptions' = disruptions + 1
<1> USE GroupAssumption DEF TypeOK, GroupTypeOK
<1>1. ASSUME NEW u \in Workers, Crash(u) \/ CommitFails(u)
      PROVE  Expelled(p)' \subseteq Expelled(p) /\ disruptions' = disruptions + 1
    BY <1>1, StopOwes DEF Crash, CommitFails, Disrupt
<1>2. ASSUME NEW u \in Workers, CommitRejected(u)
      PROVE  /\ Expelled(p)' \subseteq Expelled(p)
             /\ Unsettled(p, o)' => Unsettled(p, o)
             /\ disruptions' = disruptions
  <2>1. \A w \in Workers : owner[p] = w /\ cur[w].partition = p => w # u
    BY <1>2 DEF CommitRejected
  <2> QED
    BY <1>2, <2>1, StopOwes DEF CommitRejected, Stop, Release, Unsettled, brokerVars
<1>3. ASSUME NEW u \in Workers, Fence(u)
      PROVE  /\ disruptions' = disruptions + 1
             /\ \/ Expelled(p)' \subseteq Expelled(p)
                \/ /\ Expelled(p)' \subseteq Expelled(p) \cup {u}
                   /\ Unsettled(p, o)' => Unsettled(p, o)
  <2>1. disruptions' = disruptions + 1
    BY <1>3 DEF Fence, Disrupt
  <2>2. CASE pc[u] = "commit"
    BY <1>3, <2>1, <2>2 DEF Fence, Release, Expelled
  <2>3. CASE pc[u] # "commit"
    <3>1. Expelled(p)' \subseteq Expelled(p) \cup {u}
      BY <1>3 DEF Fence, Release, Expelled
    <3>2. Unsettled(p, o)' => Unsettled(p, o)
      BY <1>3, <2>3 DEF Fence, Release, Unsettled, brokerVars
    <3> QED
      BY <2>1, <3>1, <3>2
  <2> QED
    BY <2>2, <2>3
<1>4. ASSUME NEW u \in Workers, Rejoin(u)
      PROVE  /\ Expelled(p)' \subseteq Expelled(p)
             /\ Unsettled(p, o)' => Unsettled(p, o)
             /\ disruptions' = disruptions
    BY <1>4 DEF Rejoin, Release, Expelled, Unsettled, brokerVars
<1>5. ASSUME NEW u \in Workers, NEW q \in Partitions, Assign(q, u)
      PROVE  /\ Expelled(p)' \subseteq Expelled(p)
             /\ Unsettled(p, o)' => Unsettled(p, o)
             /\ disruptions' = disruptions
    BY <1>5 DEF Assign, Expelled, Unsettled, brokerVars
<1>6. ASSUME NEW u \in Workers, NEW q \in Partitions, Revoke(q, u)
      PROVE  Expelled(p)' \subseteq Expelled(p) /\ disruptions' = disruptions + 1
    BY <1>6 DEF Revoke, Disrupt, Expelled
<1>7. ASSUME NEW u \in Workers, NEW q \in Partitions, Poll(u, q)
      PROVE  /\ Expelled(p)' \subseteq Expelled(p)
             /\ Unsettled(p, o)' => Unsettled(p, o)
             /\ disruptions' = disruptions
    BY <1>7 DEF Poll, Expelled, Unsettled, brokerVars
<1>8. ASSUME NEW u \in Workers, Start(u)
      PROVE  /\ Expelled(p)' \subseteq Expelled(p)
             /\ Unsettled(p, o)' => Unsettled(p, o)
             /\ disruptions' = disruptions
    BY <1>8 DEF Start, Expelled, Unsettled, brokerVars, memberVars
<1>9. ASSUME NEW v \in Values, Produce(v)
      PROVE  /\ Expelled(p)' \subseteq Expelled(p)
             /\ Unsettled(p, o)' => Unsettled(p, o)
             /\ disruptions' = disruptions
    BY <1>9 DEF Produce, Expelled, Unsettled, memberVars
<1>10. ASSUME NEW u \in Workers, CommitOffset(u)
       PROVE  /\ Expelled(p)' \subseteq Expelled(p)
              /\ Unsettled(p, o)' => Unsettled(p, o)
              /\ disruptions' = disruptions
  <2>1. /\ cur[u].partition \in Partitions /\ cur[u].offset \in Nat
        /\ owner[cur[u].partition] = u /\ o \in Nat
    BY <1>10, BusyHolds DEF CommitOffset, Busy, Offsets
  <2>2. p \in assigned[u] => owner[p] = u
    BY <2>1 DEF ExpelledFromAll
  <2>3. Expelled(p)' \subseteq Expelled(p)
    BY <1>10, <2>2 DEF CommitOffset, Expelled, memberVars
  <2>4. CASE p = cur[u].partition
    <3>1. committed[p] = cur[u].offset /\ committed'[p] = cur[u].offset + 1
      BY <1>10, <2>1, <2>4
      DEF CommitOffset, AdvanceOffset, GroupInv, OwnerAtCommitted, Frontier, Busy
    <3>2. ASSUME Unsettled(p, o)' PROVE Unsettled(p, o)
      <4>1. cur[u].offset + 1 <= o
        BY <3>1, <3>2 DEF Unsettled
      <4> QED
        BY <2>1, <2>4, <3>1, <4>1 DEF Unsettled
    <3> QED
      BY <1>10, <2>3, <3>2 DEF CommitOffset
  <2>5. CASE p # cur[u].partition
    BY <1>10, <2>1, <2>3, <2>5
    DEF CommitOffset, AdvanceOffset, Unsettled, memberVars
  <2> QED
    BY <2>4, <2>5
<1> QED
    BY <1>1, <1>2, <1>3, <1>4, <1>5, <1>6, <1>7, <1>8, <1>9, <1>10
    DEF GroupStep, MemberStep

\* Publishing a letter settles the record, or uses up an expulsion, or fails,
\* which is a disruption; the other effects publish nothing.
LEMMA ProcessOwes ==
    ASSUME TypeOK, GroupInv, NEW w \in Workers, Process(w),
           NEW p \in Partitions, NEW o \in Offsets
    PROVE  \/ /\ dlq'[p][o] = dlq[p][o]
              /\ Expelled(p)' \subseteq Expelled(p)
              /\ Unsettled(p, o)' => Unsettled(p, o)
              /\ disruptions' \in {disruptions, disruptions + 1}
           \/ /\ dlq'[p][o] = dlq[p][o] + 1
              /\ disruptions' = disruptions
              /\ Expelled(p)' \subseteq Expelled(p)
              /\ Unsettled(p, o) /\ ~ Unsettled(p, o)'
           \/ /\ dlq'[p][o] = dlq[p][o] + 1
              /\ disruptions' = disruptions
              /\ w \in Expelled(p) /\ Expelled(p)' \subseteq Expelled(p) \ {w}
              /\ Unsettled(p, o)' => Unsettled(p, o)
           \/ /\ dlq'[p][o] = dlq[p][o] + 1
              /\ disruptions' = disruptions + 1
              /\ Expelled(p)' \subseteq Expelled(p)
              /\ Unsettled(p, o)' => Unsettled(p, o)
<1> USE GroupAssumption DEF TypeOK, GroupTypeOK
<1>1. pc[w] = "process"
    BY DEF Process, Insert, InsertFails, InsertRefused, DeadLetter, DeadLetterFails
<1>2. /\ cur[w].partition \in Partitions /\ cur[w].offset \in Nat
      /\ cur[w].partition \in assigned[w] /\ cur[w].offset \in Offsets
    BY <1>1, BusyHolds, EffectTypes DEF Busy
<1>3. ASSUME EffectDone(w)
      PROVE  /\ disruptions' = disruptions
             /\ Expelled(p)' \subseteq Expelled(p) \ {w}
             /\ Unsettled(p, o)' => Unsettled(p, o)
    BY <1>1, <1>3 DEF EffectDone, Expelled, Unsettled, brokerVars, memberVars
<1>4. ASSUME Stop(w), UNCHANGED brokerVars
      PROVE  /\ Expelled(p)' \subseteq Expelled(p)
             /\ Unsettled(p, o)' => Unsettled(p, o)
    BY <1>1, <1>4, StopOwes DEF Stop, Release, Unsettled, brokerVars
<1>5. ASSUME dlq' = PublishedLetters(w)
      PROVE  dlq'[p][o] = dlq[p][o]
             \/ /\ dlq'[p][o] = dlq[p][o] + 1
                /\ p = cur[w].partition /\ o = cur[w].offset
  <2> DEFINE q == cur[w].partition
             n == cur[w].offset
  <2>1. q \in Partitions /\ n \in Offsets
    BY <1>2
  <2>2. dlq' = [dlq EXCEPT ![q][n] = @ + 1]
    BY <1>5 DEF PublishedLetters
  <2> HIDE DEF q, n
  <2>3. dlq'[p][o] = dlq[p][o] \/ (dlq'[p][o] = dlq[p][o] + 1 /\ p = q /\ o = n)
    BY <2>1, <2>2
  <2> QED
    BY <2>3 DEF q, n
<1>6. ASSUME Insert(w) \/ InsertFails(w) \/ InsertRefused(w)
      PROVE  /\ dlq'[p][o] = dlq[p][o]
             /\ Expelled(p)' \subseteq Expelled(p)
             /\ Unsettled(p, o)' => Unsettled(p, o)
             /\ disruptions' \in {disruptions, disruptions + 1}
    BY <1>3, <1>4, <1>6
    DEF Insert, InsertFails, InsertRefused, EffectRaised, Disrupt, stores
<1>7. CASE DeadLetterFails(w)
  <2>1. /\ Expelled(p)' \subseteq Expelled(p)
        /\ Unsettled(p, o)' => Unsettled(p, o)
        /\ disruptions' = disruptions + 1
    BY <1>4, <1>7 DEF DeadLetterFails, EffectRaised, Disrupt
  <2> QED
    BY <1>5, <1>7, <2>1 DEF DeadLetterFails
<1>8. CASE DeadLetter(w)
  <2>1. EffectDone(w) /\ dlq' = PublishedLetters(w)
    BY <1>8 DEF DeadLetter
  <2>2. CASE dlq'[p][o] = dlq[p][o]
    BY <1>3, <2>1, <2>2
  <2>3. CASE /\ dlq'[p][o] = dlq[p][o] + 1
             /\ p = cur[w].partition /\ o = cur[w].offset
    <3>1. CASE owner[p] = w
      <4>1. committed[p] = o
        BY <1>1, <2>3, <3>1 DEF GroupInv, OwnerAtCommitted, Frontier, Busy
      <4>2. Unsettled(p, o)
        BY <1>1, <3>1, <4>1 DEF Unsettled
      <4>3. ~ Unsettled(p, o)'
        BY <2>1, <2>3, <3>1 DEF Unsettled, EffectDone, brokerVars, memberVars
      <4> QED
        BY <1>3, <2>1, <2>3, <4>2, <4>3
    <3>2. CASE owner[p] # w
      <4>1. w \in Expelled(p)
        BY <1>1, <1>2, <2>3, <3>2 DEF Expelled
      <4> QED
        BY <1>3, <2>1, <2>3, <4>1
    <3> QED
      BY <3>1, <3>2
  <2> QED
    BY <1>5, <2>1, <2>2, <2>3
<1> QED
    BY <1>6, <1>7, <1>8 DEF Process

\* What is published and owed grows by disruptions only.
LEMMA OwedStep ==
    ASSUME IInv, DeadLettersOwed, [Next]_vars PROVE DeadLettersOwed'
<1> USE DEF IInv
<1>1. ExpelledFromAll /\ ExpelledFromAll'
    BY GroupView, ExpelledStep DEF DeadLettersOwed, TypeOK
<1>2. TypeOK'
    BY TypeStep
<1> SUFFICES ASSUME NEW p \in Partitions, NEW o \in Offsets
    PROVE  /\ IsFiniteSet(Expelled(p)')
           /\ dlq'[p][o] + Cardinality(Expelled(p)')
                + (IF Unsettled(p, o)' THEN 1 ELSE 0) <= 1 + disruptions'
    BY <1>1 DEF DeadLettersOwed
<1> DEFINE E == Expelled(p)
           F == Expelled(p)'
<1>3. IsFiniteSet(E) /\ Cardinality(E) \in Nat
    BY FS_CardinalityType DEF DeadLettersOwed
<1>4. F \subseteq E =>
        IsFiniteSet(F) /\ Cardinality(F) \in Nat /\ Cardinality(F) <= Cardinality(E)
    BY <1>3, FS_Subset, FS_CardinalityType
<1>5. ASSUME NEW w, F \subseteq E \cup {w}
      PROVE  /\ IsFiniteSet(F) /\ Cardinality(F) \in Nat
             /\ Cardinality(F) <= Cardinality(E) + 1
  <2>1. /\ IsFiniteSet(E \cup {w})
        /\ Cardinality(E \cup {w}) = Cardinality(E)
           \/ Cardinality(E \cup {w}) = Cardinality(E) + 1
    BY <1>3, FS_AddElement
  <2>2. IsFiniteSet(F) /\ Cardinality(F) <= Cardinality(E \cup {w})
    BY <1>5, <2>1, FS_Subset
  <2> QED
    BY <1>3, <2>1, <2>2, FS_CardinalityType
<1>6. ASSUME NEW w \in E, F \subseteq E \ {w}
      PROVE  /\ IsFiniteSet(F) /\ Cardinality(F) \in Nat
             /\ Cardinality(F) <= Cardinality(E) - 1
  <2>1. IsFiniteSet(E \ {w}) /\ Cardinality(E \ {w}) = Cardinality(E) - 1
    BY <1>3, FS_RemoveElement
  <2>2. IsFiniteSet(F) /\ Cardinality(F) <= Cardinality(E \ {w})
    BY <1>6, <2>1, FS_Subset
  <2> QED
    BY <1>3, <2>1, <2>2, FS_CardinalityType
<1> DEFINE U == IF Unsettled(p, o) THEN 1 ELSE 0
           V == IF Unsettled(p, o)' THEN 1 ELSE 0
           d == dlq[p][o]
<1>7. /\ d \in Nat /\ dlq'[p][o] \in Nat
      /\ disruptions \in Nat /\ disruptions' \in Nat
    BY <1>2, GroupAssumption DEF TypeOK, GroupTypeOK
<1>8. d + Cardinality(E) + U <= 1 + disruptions
    BY DEF DeadLettersOwed
<1>9. /\ U \in {0, 1} /\ V \in {0, 1}
      /\ (Unsettled(p, o)' => Unsettled(p, o)) => V <= U
      /\ Unsettled(p, o) /\ ~ Unsettled(p, o)' => U = 1 /\ V = 0
    OBVIOUS
<1>10. ASSUME GroupStep, UNCHANGED stores
       PROVE  IsFiniteSet(F) /\ dlq'[p][o] + Cardinality(F) + V <= 1 + disruptions'
  <2>1. dlq'[p][o] = d
    BY <1>10 DEF stores
  <2>2. \/ /\ F \subseteq E /\ (Unsettled(p, o)' => Unsettled(p, o))
           /\ disruptions' \in {disruptions, disruptions + 1}
        \/ F \subseteq E /\ disruptions' = disruptions + 1
        \/ /\ \E w \in Workers : F \subseteq E \cup {w}
           /\ Unsettled(p, o)' => Unsettled(p, o)
           /\ disruptions' = disruptions + 1
    BY <1>1, <1>10, GroupOwes
  <2> HIDE DEF E, F, U, V, d
  <2>3. CASE F \subseteq E
    BY <1>3, <1>4, <1>7, <1>8, <1>9, <2>1, <2>2, <2>3
  <2>4. CASE \E w \in Workers : F \subseteq E \cup {w}
    BY <1>3, <1>5, <1>7, <1>8, <1>9, <2>1, <2>2, <2>3, <2>4
  <2> QED
    BY <2>2, <2>3, <2>4
<1>11. ASSUME NEW w \in Workers, Process(w)
       PROVE  IsFiniteSet(F) /\ dlq'[p][o] + Cardinality(F) + V <= 1 + disruptions'
  <2>1. \/ /\ dlq'[p][o] = d /\ F \subseteq E
           /\ Unsettled(p, o)' => Unsettled(p, o)
           /\ disruptions' \in {disruptions, disruptions + 1}
        \/ /\ dlq'[p][o] = d + 1 /\ disruptions' = disruptions
           /\ F \subseteq E /\ Unsettled(p, o) /\ ~ Unsettled(p, o)'
        \/ /\ dlq'[p][o] = d + 1 /\ disruptions' = disruptions
           /\ w \in E /\ F \subseteq E \ {w}
           /\ Unsettled(p, o)' => Unsettled(p, o)
        \/ /\ dlq'[p][o] = d + 1 /\ disruptions' = disruptions + 1
           /\ F \subseteq E
           /\ Unsettled(p, o)' => Unsettled(p, o)
    BY <1>11, ProcessOwes
  <2> HIDE DEF E, F, U, V, d
  <2>2. CASE F \subseteq E \ {w} /\ w \in E
    BY <1>3, <1>6, <1>7, <1>8, <1>9, <2>1, <2>2
  <2>3. CASE F \subseteq E /\ ~ (F \subseteq E \ {w} /\ w \in E)
    BY <1>3, <1>4, <1>7, <1>8, <1>9, <2>1, <2>3
  <2> QED
    BY <2>1, <2>2, <2>3
<1>12. CASE UNCHANGED vars
  <2>1. /\ F = E /\ dlq'[p][o] = d /\ disruptions' = disruptions
        /\ Unsettled(p, o)' = Unsettled(p, o)
    BY <1>12 DEF vars, groupVars, Expelled, Unsettled
  <2> QED
    BY <1>3, <1>8, <2>1
<1> QED
    BY <1>10, <1>11, <1>12 DEF Next

\* A record is published to the dead-letter topic once, and once more for each
\* disruption at most, for every size of the group (warehouse.py:128-133).
THEOREM LettersBounded == Spec => []DeadLettersBounded
<1>1. Init => DeadLettersOwed
  <2> SUFFICES ASSUME Init PROVE DeadLettersOwed
    OBVIOUS
  <2>1. ExpelledFromAll
    BY DEF Init, GroupInit, ExpelledFromAll
  <2>2. \A p \in Partitions : Expelled(p) = {}
    BY DEF Init, GroupInit, Expelled
  <2>3. \A p \in Partitions, o \in Offsets : dlq[p][o] = 0
    BY DEF Init
  <2>4. disruptions = 0
    BY DEF Init, GroupInit
  <2> QED
    BY <2>1, <2>2, <2>3, <2>4, FS_EmptySet DEF DeadLettersOwed
<1>2. IInv /\ DeadLettersOwed => DeadLettersBounded
  <2> SUFFICES ASSUME IInv, DeadLettersOwed, NEW p \in Partitions, NEW o \in Offsets
               PROVE  dlq[p][o] <= 1 + disruptions
    BY DEF DeadLettersBounded
  <2>1. Cardinality(Expelled(p)) \in Nat
    BY FS_CardinalityType DEF DeadLettersOwed
  <2>2. dlq[p][o] \in Nat /\ disruptions \in Nat
    BY GroupAssumption DEF IInv, TypeOK, GroupTypeOK
  <2> QED
    BY <2>1, <2>2 DEF DeadLettersOwed
<1> QED
    BY <1>1, <1>2, OwedStep, Inductive, PTL DEF Spec

-----------------------------------------------------------------------------
(* The receiver's theorems, of an instance of its own: the two instances    *)
(* say the same, definition by definition.                                  *)

RP == INSTANCE WebhookReceiver_proofs

LEMMA SameActions ==
    /\ Receiver!ReceiverStep <=> RP!ReceiverStep
    /\ \A r \in Requests : Receiver!Append_(r) <=> RP!Append_(r)
    /\ Receiver!Init <=> RP!Init
    /\ Receiver!IInv <=> RP!IInv
    /\ receiverVars' = receiverVars => UNCHANGED RP!vars
<1> USE DEF Receiver!Goto, RP!Goto, Receiver!Respond, RP!Respond,
            Receiver!producerVars, RP!producerVars, Receiver!Clients, RP!Clients
<1>1. ASSUME NEW r \in Requests
      PROVE  /\ Receiver!receive_github_webhook(r) <=> RP!receive_github_webhook(r)
             /\ Receiver!Publish(r) <=> RP!Publish(r)
  <2>1. Receiver!receive_github_webhook(r) <=> RP!receive_github_webhook(r)
    BY DEF Receiver!receive_github_webhook, RP!receive_github_webhook
  <2>2. Receiver!produce(r) <=> RP!produce(r)
    BY Zenon DEF Receiver!produce, RP!produce, Receiver!Cardinality, RP!Cardinality
  <2>3. Receiver!Look(r) <=> RP!Look(r)
    BY DEF Receiver!Look, RP!Look
  <2>4. Receiver!TimeOut(r) <=> RP!TimeOut(r)
    BY DEF Receiver!TimeOut, RP!TimeOut
  <2>5. Receiver!Poll(r) <=> RP!Poll(r)
    BY DEF Receiver!Poll, RP!Poll
  <2> QED BY <2>1, <2>2, <2>3, <2>4, <2>5 DEF Receiver!Publish, RP!Publish
<1>2. ASSUME NEW r \in Requests
      PROVE  /\ Receiver!Send(r) <=> RP!Send(r)
             /\ Receiver!Deadline(r) <=> RP!Deadline(r)
             /\ Receiver!Append_(r) <=> RP!Append_(r)
             /\ \A error \in BOOLEAN : Receiver!Report(r, error) <=> RP!Report(r, error)
    BY DEF Receiver!Send, RP!Send, Receiver!Deadline, RP!Deadline,
           Receiver!Append_, RP!Append_, Receiver!Report, RP!Report
<1>3. ASSUME NEW c \in Probes
      PROVE  /\ Receiver!readiness(c) <=> RP!readiness(c)
             /\ Receiver!list_topics(c) <=> RP!list_topics(c)
    BY DEF Receiver!readiness, RP!readiness, Receiver!list_topics, RP!list_topics
<1>4. \A c \in Receiver!Clients : Receiver!TakeThread(c) <=> RP!TakeThread(c)
    BY Zenon DEF Receiver!TakeThread, RP!TakeThread, Receiver!InThread, RP!InThread,
           Receiver!Cardinality, RP!Cardinality
<1>5. Receiver!Restart <=> RP!Restart
    BY DEF Receiver!Restart, RP!Restart, Receiver!UnderWay, RP!UnderWay
<1>6. Receiver!ReceiverStep <=> RP!ReceiverStep
    BY <1>1, <1>2, <1>3, <1>4, <1>5 DEF Receiver!ReceiverStep, RP!ReceiverStep
<1>7. Receiver!Init <=> RP!Init
    BY DEF Receiver!Init, RP!Init
<1>8. Receiver!IInv <=> RP!IInv
    BY DEF Receiver!IInv, RP!IInv, Receiver!TypeOK, RP!TypeOK,
       Receiver!AnsweredIsDone, RP!AnsweredIsDone,
       Receiver!SuccessIsTrue, RP!SuccessIsTrue, Receiver!QueuedIsOpen, RP!QueuedIsOpen,
       Receiver!UnproducedIsUnknown, RP!UnproducedIsUnknown,
       Receiver!AcceptedIsLogged, RP!AcceptedIsLogged,
       Receiver!NoReportIsLost, RP!NoReportIsLost
<1>9. receiverVars' = receiverVars => UNCHANGED RP!vars
    BY DEF receiverVars, RP!vars
<1> QED
    BY <1>2, <1>6, <1>7, <1>8, <1>9

\* Every step of the pipeline is one of the receiver's, or leaves it alone.
LEMMA ReceiverView == [PipelineNext]_pipelineVars => [RP!Next]_(RP!vars)
<1> SUFFICES ASSUME [PipelineNext]_pipelineVars PROVE [RP!Next]_(RP!vars)
    OBVIOUS
<1>1. CASE receiverVars' = receiverVars
    BY <1>1, SameActions
<1>2. CASE Receiver!ReceiverStep
    BY <1>2, SameActions DEF RP!Next
<1>3. ASSUME NEW r \in Requests, AppendRecord(r) PROVE RP!Next
    BY <1>3, SameActions DEF AppendRecord, RP!Next
<1> QED
    BY <1>1, <1>2, <1>3
    DEF PipelineNext, pipelineVars, AppendForeign, receiverVars

\* And one of the group's, or leaves it alone: a delivery is a value.
LEMMA WriterView == [PipelineNext]_pipelineVars => [Next]_vars
<1> SUFFICES ASSUME [PipelineNext]_pipelineVars PROVE [Next]_vars
    OBVIOUS
<1>1. ASSUME NEW r \in Requests, AppendRecord(r) PROVE Next
  <2>1. DeliveryOf[r] \in Values
    BY PipelineAssumption, WriterAssumption
  <2> QED BY <1>1, <2>1 DEF AppendRecord, Next, GroupStep
<1> QED
    BY <1>1 DEF PipelineNext, pipelineVars, AppendForeign, WriterStep, Next, GroupStep

LEMMA WriterKeeps == IInv /\ [Next]_vars => IInv'
BY TypeStep, RoutedStep, DurableStep, VouchStep, LineageStep DEF IInv

LEMMA ReceiverKeeps == Receiver!IInv /\ [RP!Next]_(RP!vars) => Receiver!IInv'
<1>1. RP!IInv /\ [RP!Next]_(RP!vars) => RP!IInv'
    BY RP!StepKeeps, PipelineAssumption DEF Receiver!ReceiverAssumption
<1>2. Receiver!IInv' <=> RP!IInv'
    BY DEF Receiver!IInv, RP!IInv, Receiver!TypeOK, RP!TypeOK,
       Receiver!AnsweredIsDone, RP!AnsweredIsDone,
       Receiver!SuccessIsTrue, RP!SuccessIsTrue, Receiver!QueuedIsOpen, RP!QueuedIsOpen,
       Receiver!UnproducedIsUnknown, RP!UnproducedIsUnknown,
       Receiver!AcceptedIsLogged, RP!AcceptedIsLogged,
       Receiver!NoReportIsLost, RP!NoReportIsLost, Receiver!Clients, RP!Clients
<1> QED
    BY <1>1, <1>2, SameActions

-----------------------------------------------------------------------------
(* The topic between them.                                                 *)

\* What is published stays published, and a record that is appended is.
LEMMA PublishedStays ==
    ASSUME IInv, [Next]_vars PROVE Published \subseteq Published'
<1> SUFFICES ASSUME NEW d \in Deliveries, NEW p \in Partitions,
                    NEW o \in 0 .. Len(log[p]) - 1, RecordAt(p, o) = d
             PROVE  d \in Published'
    BY DEF Published, Deliveries
<1>1. GroupTypeOK /\ GroupTypeOK' /\ Len(log[p]) \in Nat /\ Len(log'[p]) \in Nat
    BY WriterKeeps DEF IInv, TypeOK, GroupTypeOK
<1>2. RecordAt(p, o)' = d
    BY <1>1, LogStep, RecordKept
<1>3. Len(log[p]) <= Len(log'[p])
    BY <1>1, LogStep, RecordsStay
<1> QED
    BY <1>1, <1>2, <1>3 DEF Published, Deliveries

\* Producing v publishes v, if it is a delivery, and nothing else.
LEMMA ProducePublishes ==
    ASSUME IInv, [Next]_vars, NEW v \in Values, Produce(v)
    PROVE  Published' = Published \cup ({v} \cap Deliveries)
<1>1. GroupTypeOK
    BY DEF IInv, TypeOK
<1>2. ASSUME NEW d \in Published', d # v PROVE d \in Published
  <2>1. PICK p \in Partitions : \E o \in 0 .. Len(log'[p]) - 1 : RecordAt(p, o)' = d
    BY <1>2 DEF Published
  <2>2. PICK o \in 0 .. Len(log'[p]) - 1 : RecordAt(p, o)' = d
    BY <2>1
  <2>3. o < Len(log[p]) /\ Len(log[p]) \in Nat /\ Len(log'[p]) \in Nat
    BY <1>1, <1>2, <2>2, RecordsStay DEF GroupTypeOK
  <2>4. o \in 0 .. Len(log[p]) - 1
    BY <2>3
  <2>5. RecordAt(p, o) = d
    BY <1>1, <2>2, <2>4, RecordsStay
  <2> QED BY <1>2, <2>4, <2>5 DEF Published, Deliveries
<1>3. ASSUME v \in Deliveries PROVE v \in Published'
  <2> DEFINE p == PartitionOf[v]
  <2>1. p \in Partitions /\ log[p] \in Seq(Values) /\ log'[p] = Append(log[p], v)
    BY <1>1, GroupAssumption DEF Produce, GroupTypeOK
  <2>2. PICK o \in Nat : o = Len(log[p])
    BY <2>1
  <2>3. o \in 0 .. Len(log'[p]) - 1 /\ log'[p][o + 1] = v
    BY <2>1, <2>2
  <2>4. RecordAt(p, o)' = v
    BY <2>3 DEF RecordAt
  <2> QED BY <1>3, <2>1, <2>3, <2>4 DEF Published, Deliveries
<1> QED
    BY <1>2, <1>3, PublishedStays DEF Published, Deliveries

\* Only AppendRecord makes a request's record appended.
LEMMA AppendedStep ==
    ASSUME PipelineNext, appended' # appended
    PROVE  \E r \in Requests : AppendRecord(r)
BY DEF PipelineNext, AppendForeign, receiverVars, Receiver!producerVars,
   Receiver!ReceiverStep, Receiver!receive_github_webhook, Receiver!Publish, Receiver!produce, Receiver!Look,
   Receiver!TimeOut, Receiver!Poll, Receiver!Send, Receiver!Deadline, Receiver!Report,
   Receiver!readiness, Receiver!list_topics, Receiver!TakeThread, Receiver!Restart

LEMMA TopicKeeps ==
    ASSUME IInv, AppendedIsInTopic, [PipelineNext]_pipelineVars
    PROVE  AppendedIsInTopic'
<1>1. [Next]_vars
    BY WriterView
<1>2. CASE appended' = appended
    BY <1>1, <1>2, PublishedStays DEF AppendedIsInTopic
<1>3. CASE appended' # appended
  <2>1. PICK r \in Requests : AppendRecord(r)
    BY <1>3, AppendedStep DEF pipelineVars, receiverVars
  <2>2. DeliveryOf[r] \in Values /\ DeliveryOf[r] \in Deliveries
    BY PipelineAssumption, WriterAssumption DEF Deliveries
  <2>3. DeliveryOf[r] \in Published'
    BY <1>1, <2>1, <2>2, ProducePublishes DEF AppendRecord
  <2>4. appended' = appended \cup {r}
    BY <2>1 DEF AppendRecord, Receiver!Append_
  <2> QED BY <1>1, <2>3, <2>4, PublishedStays DEF AppendedIsInTopic
<1> QED
    BY <1>2, <1>3

THEOREM Joined == PipelineSpec => []PipelineInv
<1>1. PipelineInit => PipelineInv
  <2> SUFFICES ASSUME PipelineInit PROVE PipelineInv
    OBVIOUS
  <2>1. IInv
    BY InitIInv DEF PipelineInit
  <2>2. Receiver!IInv
    BY RP!Initial, SameActions, PipelineAssumption
    DEF PipelineInit, Receiver!ReceiverAssumption
  <2>3. AppendedIsInTopic
    BY DEF PipelineInit, Receiver!Init, AppendedIsInTopic
  <2> QED BY <2>1, <2>2, <2>3 DEF PipelineInv
<1>2. PipelineInv /\ [PipelineNext]_pipelineVars => PipelineInv'
    BY WriterView, ReceiverView, WriterKeeps, ReceiverKeeps, TopicKeeps DEF PipelineInv
<1> QED
    BY <1>1, <1>2, PTL DEF PipelineSpec

\* A delivery answered 202 is in the raw table or ahead of the group's committed
\* offset, whatever crashed in between (webhook/app.py:162-177,
\* warehouse.py:111-152).
THEOREM NothingLost == PipelineSpec => []NothingAcceptedIsLost
<1>1. PipelineInv => NothingAcceptedIsLost
  <2> SUFFICES ASSUME PipelineInv, NEW r \in Requests, answer[r] = 202
               PROVE  IsStored(DeliveryOf[r]) \/ IsAhead(DeliveryOf[r])
    BY DEF NothingAcceptedIsLost
  <2>1. r \in appended
    BY DEF PipelineInv, Receiver!IInv, Receiver!AcceptedIsLogged
  <2>2. PICK p \in Partitions :
          \E o \in 0 .. Len(log[p]) - 1 : RecordAt(p, o) = DeliveryOf[r]
    BY <2>1 DEF PipelineInv, AppendedIsInTopic, Published
  <2>3. PICK o \in 0 .. Len(log[p]) - 1 : RecordAt(p, o) = DeliveryOf[r]
    BY <2>2
  <2>4. committed[p] \in Nat /\ Len(log[p]) \in Nat
    BY DEF PipelineInv, IInv, TypeOK, GroupTypeOK
  <2>5. CASE o < committed[p]
    <3>1. Accounted(p, o)
      BY <2>4, <2>5 DEF PipelineInv, IInv, CommittedIsDurable
    <3>2. DeliveryOf[r] \in Valid
      BY PipelineAssumption
    <3> QED BY <2>3, <3>1, <3>2 DEF Accounted, IsStored
  <2>6. CASE committed[p] <= o
    <3>1. o \in committed[p] .. Len(log[p]) - 1
      BY <2>4, <2>6
    <3> QED BY <2>3, <3>1 DEF IsAhead
  <2> QED BY <2>4, <2>5, <2>6
<1> QED
    BY <1>1, Joined, PTL

-----------------------------------------------------------------------------
(* Refinement: the steps of the pipeline are steps of DeliveryPromise.      *)

\* A step of the receiver answers at most one client, one without an answer.
LEMMA AnswerStep ==
    ASSUME Receiver!IInv, Receiver!ReceiverStep, answer' # answer
    PROVE  \E c \in Receiver!Clients, status \in {200, 202, 422, 503} :
              answer[c] = 0 /\ answer' = [answer EXCEPT ![c] = status]
<1>1. ASSUME NEW c \in Receiver!Clients, stage[c] # "done" PROVE answer[c] = 0
    BY <1>1 DEF Receiver!IInv, Receiver!AnsweredIsDone
<1>2. ASSUME NEW c \in Receiver!Clients, NEW status \in {200, 202, 422, 503},
             stage[c] # "done", Receiver!Respond(c, status)
      PROVE  answer[c] = 0 /\ answer' = [answer EXCEPT ![c] = status]
    BY <1>1, <1>2 DEF Receiver!Respond
<1>3. ASSUME NEW r \in Requests,
             Receiver!receive_github_webhook(r) \/ Receiver!Publish(r)
      PROVE  \E status \in {422, 202, 503} :
                stage[r] # "done" /\ Receiver!Respond(r, status)
    BY <1>3 DEF Receiver!receive_github_webhook, Receiver!Publish, Receiver!produce,
       Receiver!Look, Receiver!TimeOut, Receiver!Poll
<1>4. ASSUME NEW c \in Probes, Receiver!readiness(c) \/ Receiver!list_topics(c)
      PROVE  \E status \in {200, 503} :
                stage[c] # "done" /\ Receiver!Respond(c, status)
    BY <1>4 DEF Receiver!readiness, Receiver!list_topics
<1>5. \/ \E r \in Requests : Receiver!receive_github_webhook(r) \/ Receiver!Publish(r)
      \/ \E c \in Probes : Receiver!readiness(c) \/ Receiver!list_topics(c)
    BY DEF Receiver!ReceiverStep, Receiver!Send, Receiver!Deadline, Receiver!Report,
       Receiver!TakeThread, Receiver!Restart
<1> QED
    BY <1>2, <1>3, <1>4, <1>5 DEF Receiver!Clients

\* The receiver accepts what is published, or accepts nothing.
LEMMA ReceiverImplements ==
    ASSUME PipelineInv, PipelineInv', Receiver!ReceiverStep, UNCHANGED vars
    PROVE  [Promise!Next]_(Promise!vars)
<1>1. Published' = Published /\ Stored' = Stored
    BY DEF vars, groupVars, brokerVars, Published, Stored, IsStored, RecordAt
<1>2. CASE answer' = answer
    BY <1>1, <1>2 DEF Promise!vars, Accepted
<1>3. CASE answer' # answer
  <2>1. PICK c \in Receiver!Clients, status \in {200, 202, 422, 503} :
           answer[c] = 0 /\ answer' = [answer EXCEPT ![c] = status]
    BY <1>3, AnswerStep DEF PipelineInv
  <2>2. answer \in [Receiver!Clients -> {0, 200, 202, 422, 503}]
        /\ \A r \in Requests : r \in Receiver!Clients
    BY DEF PipelineInv, Receiver!IInv, Receiver!TypeOK, Receiver!Clients
  <2>3. CASE c \in Requests /\ status = 202
    <3>1. Accepted' = Accepted \cup {DeliveryOf[c]}
      BY <2>1, <2>2, <2>3 DEF Accepted
    <3>2. answer'[c] = 202
      BY <2>1, <2>2, <2>3
    <3>3. c \in appended'
      BY <2>3, <3>2 DEF PipelineInv, Receiver!IInv, Receiver!AcceptedIsLogged
    <3>4. DeliveryOf[c] \in Published /\ DeliveryOf[c] \in Deliveries
      BY <1>1, <2>3, <3>3 DEF PipelineInv, AppendedIsInTopic, Deliveries
    <3> QED BY <1>1, <3>1, <3>4 DEF Promise!Next, Promise!Accept
  <2>4. CASE ~ (c \in Requests /\ status = 202)
    <3>1. \A r \in Requests : (answer'[r] = 202) <=> (answer[r] = 202)
      BY <2>1, <2>2, <2>4
    <3>2. Accepted' = Accepted
      BY <3>1 DEF Accepted
    <3> QED BY <1>1, <3>2 DEF Promise!vars
  <2> QED BY <2>3, <2>4
<1> QED
    BY <1>2, <1>3

\* The writers store a delivery that is published, or nothing new.
LEMMA WriterImplements ==
    ASSUME PipelineInv, WriterStep, UNCHANGED receiverVars
    PROVE  [Promise!Next]_(Promise!vars)
<1>1. Accepted' = Accepted
    BY DEF receiverVars, Accepted
<1>2. log' = log
    BY DEF WriterStep, MemberStep, Assign, Revoke, Poll, Fence, Rejoin, Start, Crash,
       CommitOffset, CommitRejected, CommitFails, Process, Insert, InsertFails,
       InsertRefused, DeadLetter, DeadLetterFails, EffectDone, EffectRaised, brokerVars
<1>3. Published' = Published
    BY <1>2 DEF Published, RecordAt
<1>4. [Next]_vars /\ TypeOK /\ GroupInv
    BY DEF WriterStep, Next, GroupStep, PipelineInv, IInv
<1>5. raw \subseteq raw'
    BY <1>4, StoresGrow
<1>6. CASE raw' = raw
    BY <1>1, <1>3, <1>6 DEF Stored, IsStored, Promise!vars
<1>7. ASSUME NEW r \in raw', r \notin raw PROVE [Promise!Next]_(Promise!vars)
  <2>1. PICK w \in Workers : /\ pc[w] = "process"
                             /\ r = RowOf(w) /\ raw' = raw \cup {RowOf(w)}
    BY <1>4, <1>7, NewRow
  <2>2. RowOf(w).key = Message(w)
    BY DEF RowOf
  <2>3. Stored' = Stored \cup ({Message(w)} \cap Deliveries)
    BY <2>1, <2>2 DEF Stored, IsStored, Deliveries
  <2>4. CASE Message(w) \notin Deliveries
    BY <1>1, <1>3, <2>3, <2>4 DEF Promise!vars
  <2>5. CASE Message(w) \in Deliveries
    <3>1. /\ cur[w].partition \in Partitions
          /\ cur[w].offset \in 0 .. Len(log[cur[w].partition]) - 1
      BY <1>4, <2>1, BusyHolds DEF Busy, TypeOK, GroupTypeOK
    <3>2. Message(w) \in Published
      BY <2>5, <3>1 DEF Published, Message
    <3> QED BY <1>1, <1>3, <2>3, <2>5, <3>2 DEF Promise!Next, Promise!Store
  <2> QED BY <2>4, <2>5
<1> QED
    BY <1>5, <1>6, <1>7

\* A record that is appended publishes a delivery, again or for the first time,
\* or none.
LEMMA AppendImplements ==
    ASSUME PipelineInv, NEW v \in Values, Produce(v), UNCHANGED <<stores, answer>>
    PROVE  [Promise!Next]_(Promise!vars)
<1>1. Accepted' = Accepted /\ Stored' = Stored
    BY DEF Accepted, Stored, IsStored, stores
<1>2. Published' = Published \cup ({v} \cap Deliveries)
    BY ProducePublishes DEF PipelineInv, Next, GroupStep
<1>3. CASE v \in Deliveries
    BY <1>1, <1>2, <1>3 DEF Promise!Next, Promise!Publish
<1>4. CASE v \notin Deliveries
    BY <1>1, <1>2, <1>4 DEF Promise!vars
<1> QED
    BY <1>3, <1>4

\* Receiver, topic and writers implement the safety part of DeliveryPromise: a
\* delivery is accepted or stored only once it is published, and nothing is taken
\* back (webhook/app.py:162-177, storage.py:41).
THEOREM Implements == PipelineSpec => Promise!Spec
<1>1. PipelineInit => Promise!Init
    BY DEF PipelineInit, Init, GroupInit, Receiver!Init, Receiver!Clients, Promise!Init,
       Published, Accepted, Stored, IsStored
<1>2. ASSUME PipelineInv, PipelineInv', [PipelineNext]_pipelineVars
      PROVE  [Promise!Next]_(Promise!vars)
  <2>1. ASSUME NEW r \in Requests, AppendRecord(r) PROVE [Promise!Next]_(Promise!vars)
    <3>1. DeliveryOf[r] \in Values
      BY PipelineAssumption, WriterAssumption
    <3> QED BY <1>2, <2>1, <3>1, AppendImplements DEF AppendRecord, Receiver!Append_
  <2>2. ASSUME NEW v \in Values, AppendForeign(v) PROVE [Promise!Next]_(Promise!vars)
    BY <1>2, <2>2, AppendImplements DEF AppendForeign, receiverVars
  <2>3. CASE Receiver!ReceiverStep /\ UNCHANGED vars
    BY <1>2, <2>3, ReceiverImplements
  <2>4. CASE WriterStep /\ UNCHANGED receiverVars
    BY <1>2, <2>4, WriterImplements
  <2>5. CASE UNCHANGED pipelineVars
    BY <2>5 DEF pipelineVars, vars, groupVars, brokerVars, receiverVars, Promise!vars,
       Published, Accepted, Stored, IsStored, RecordAt
  <2> QED BY <1>2, <2>1, <2>2, <2>3, <2>4, <2>5 DEF PipelineNext
<1> QED
    BY <1>1, <1>2, Joined, PTL DEF PipelineSpec, Promise!Spec
=============================================================================
