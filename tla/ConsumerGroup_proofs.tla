------------------------ MODULE ConsumerGroup_proofs ------------------------
(***************************************************************************)
(* Facts about the steps of ConsumerGroup that the proofs about both       *)
(* consumers cite: every step keeps GroupTypeOK and GroupInv.              *)
(***************************************************************************)
EXTENDS ConsumerGroup, TLAPS

\* The group starts typed and with nothing assigned (pr_monitor.py:163-168).
LEMMA GroupInitial == GroupInit => GroupTypeOK /\ GroupInv
BY GroupAssumption DEF GroupInit, GroupTypeOK, GroupInv, CommittedInLog,
    StoppedHoldsNothing, BusyHoldsMessage, PositionInLog, OwnerAtCommitted, Busy

\* A worker that processes a message holds its lineage.
LEMMA BusyHolds ==
    ASSUME GroupTypeOK, GroupInv, NEW w \in Workers, Busy(w)
    PROVE  /\ cur[w].partition \in Partitions
           /\ cur[w].offset \in Nat
           /\ cur[w].partition \in assigned[w]
           /\ position[w][cur[w].partition] = cur[w].offset + 1
           /\ cur[w].offset < Len(log[cur[w].partition])
<1>1. cur[w] \in Lineage /\ cur[w].partition \in assigned[w]
      /\ position[w][cur[w].partition] = cur[w].offset + 1
    BY DEF GroupInv, BusyHoldsMessage
<1>2. cur[w].partition \in Partitions /\ cur[w].offset \in Nat
    BY <1>1 DEF Lineage
<1>3. position[w][cur[w].partition] <= Len(log[cur[w].partition])
    BY <1>1 DEF GroupInv, PositionInLog
<1>4. Len(log[cur[w].partition]) \in Nat
    BY <1>2 DEF GroupTypeOK
<1> QED
    BY <1>1, <1>2, <1>3, <1>4

\* The committed offset stays a natural number.
LEMMA AdvanceType ==
    ASSUME GroupTypeOK, GroupInv, NEW w \in Workers, Busy(w), AdvanceOffset(w)
    PROVE  committed' \in [Partitions -> Nat]
<1> DEFINE q == cur[w].partition
           n == cur[w].offset + 1
<1>1. q \in Partitions /\ n \in Nat
    BY BusyHolds
<1>2. committed' = [committed EXCEPT ![q] = n]
    BY DEF AdvanceOffset
<1> HIDE DEF q, n
<1> QED
    BY <1>1, <1>2 DEF GroupTypeOK

\* Broker and worker steps that no effect takes part in keep the types.
LEMMA GroupStepType == GroupTypeOK /\ GroupInv /\ GroupStep => GroupTypeOK'
<1> SUFFICES ASSUME GroupTypeOK, GroupInv, GroupStep PROVE GroupTypeOK'
    OBVIOUS
<1> USE GroupAssumption DEF GroupTypeOK
<1>1. ASSUME NEW v \in Values, Produce(v) PROVE GroupTypeOK'
    BY <1>1 DEF Produce, memberVars
<1>2. ASSUME NEW w \in Workers, NEW p \in Partitions, Assign(p, w)
      PROVE  GroupTypeOK'
    BY <1>2 DEF Assign, brokerVars
<1>3. ASSUME NEW w \in Workers, NEW p \in Partitions, Revoke(p, w)
      PROVE  GroupTypeOK'
    BY <1>3 DEF Revoke, Disrupt, brokerVars
<1>4. ASSUME NEW w \in Workers, NEW p \in Partitions, Poll(w, p)
      PROVE  GroupTypeOK'
  <2> DEFINE m == [partition |-> p, offset |-> position[w][p]]
  <2>1. m \in Lineage
    BY DEF Lineage
  <2>2. cur' = [cur EXCEPT ![w] = m]
    BY <1>4 DEF Poll
  <2> HIDE DEF m
  <2>3. cur' \in [Workers -> Lineage \cup {NoMessage}]
    BY <2>1, <2>2
  <2>4. position' \in [Workers -> [Partitions -> Nat]]
    BY <1>4 DEF Poll
  <2> QED
    BY <1>4, <2>3, <2>4 DEF Poll, brokerVars
<1>5. ASSUME NEW w \in Workers, Fence(w) PROVE GroupTypeOK'
    BY <1>5 DEF Fence, Release, Disrupt, brokerVars
<1>6. ASSUME NEW w \in Workers, Rejoin(w) PROVE GroupTypeOK'
    BY <1>6 DEF Rejoin, Release, brokerVars
<1>7. ASSUME NEW w \in Workers, Start(w) PROVE GroupTypeOK'
    BY <1>7 DEF Start, brokerVars, memberVars
<1>8. ASSUME NEW w \in Workers, Crash(w) PROVE GroupTypeOK'
    BY <1>8 DEF Crash, Stop, Release, Disrupt, brokerVars
<1>9. ASSUME NEW w \in Workers, CommitOffset(w) PROVE GroupTypeOK'
  <2>1. committed' \in [Partitions -> Nat]
    BY <1>9, AdvanceType DEF CommitOffset, Busy
  <2> QED
    BY <1>9, <2>1 DEF CommitOffset, memberVars
<1>10. ASSUME NEW w \in Workers, CommitRejected(w) PROVE GroupTypeOK'
    BY <1>10 DEF CommitRejected, Stop, Release, brokerVars
<1>11. ASSUME NEW w \in Workers, CommitFails(w) PROVE GroupTypeOK'
  <2>1. committed' \in [Partitions -> Nat]
    BY <1>11, AdvanceType DEF CommitFails, Busy
  <2> QED
    BY <1>11, <2>1 DEF CommitFails, Stop, Release, Disrupt
<1> QED
    BY <1>1, <1>2, <1>3, <1>4, <1>5, <1>6, <1>7, <1>8, <1>9, <1>10, <1>11
    DEF GroupStep, MemberStep

-----------------------------------------------------------------------------

\* A worker that stops keeps the invariant of the others, whether or not the
\* broker stored the offset it was committing.
LEMMA StopKeeps ==
    ASSUME GroupTypeOK, GroupInv, NEW w \in Workers, Stop(w), log' = log,
           \/ committed' = committed
           \/ Busy(w) /\ owner[cur[w].partition] = w /\ AdvanceOffset(w),
           disruptions' \in 0 .. MaxDisruptions
    PROVE  GroupTypeOK' /\ GroupInv'
<1> USE GroupAssumption
<1>1. committed' \in [Partitions -> Nat]
    BY AdvanceType DEF GroupTypeOK
<1>2. GroupTypeOK'
    BY <1>1 DEF GroupTypeOK, Stop, Release
<1>3. CommittedInLog'
  <2>1. CASE committed' = committed
    BY <2>1 DEF GroupInv, CommittedInLog
  <2>2. CASE Busy(w) /\ AdvanceOffset(w)
    BY <2>2, BusyHolds DEF AdvanceOffset, GroupInv, CommittedInLog, GroupTypeOK
  <2> QED
    BY <2>1, <2>2
<1>4. StoppedHoldsNothing'
    BY DEF Stop, GroupInv, StoppedHoldsNothing, GroupTypeOK
<1>5. BusyHoldsMessage'
    BY DEF Stop, GroupInv, BusyHoldsMessage, Busy, GroupTypeOK
<1>6. PositionInLog'
    BY DEF Stop, GroupInv, PositionInLog, GroupTypeOK
<1>7. OwnerAtCommitted'
  <2> SUFFICES ASSUME NEW u \in Workers, NEW p \in Partitions, owner'[p] = u
               PROVE  p \in assigned'[u] /\ committed'[p] = Frontier(u, p)'
    BY DEF OwnerAtCommitted
  <2>1. owner[p] = u /\ u # w
    BY DEF Stop, Release, GroupTypeOK
  <2>2. committed'[p] = committed[p]
    BY <2>1, BusyHolds DEF AdvanceOffset, GroupTypeOK
  <2>3. p \in assigned[u] /\ committed[p] = Frontier(u, p)
    BY <2>1 DEF GroupInv, OwnerAtCommitted
  <2> QED
    BY <2>1, <2>2, <2>3 DEF Stop, Frontier, Busy, GroupTypeOK
<1> QED
    BY <1>2, <1>3, <1>4, <1>5, <1>6, <1>7 DEF GroupInv

\* Acknowledging the effect moves the worker on to its commit, nothing else.
LEMMA EffectDoneKeeps ==
    ASSUME GroupTypeOK, GroupInv, NEW w \in Workers, pc[w] = "process",
           EffectDone(w)
    PROVE  GroupTypeOK' /\ GroupInv'
<1> USE DEF EffectDone, brokerVars, memberVars
<1>1. GroupTypeOK'
    BY DEF GroupTypeOK
<1>2. \A u \in Workers : Busy(u)' <=> Busy(u)
    BY DEF Busy, GroupTypeOK
<1>3. \A u \in Workers, p \in Partitions : Frontier(u, p)' = Frontier(u, p)
    BY <1>2 DEF Frontier
<1>4. CommittedInLog' /\ PositionInLog'
    BY DEF GroupInv, CommittedInLog, PositionInLog
<1>5. StoppedHoldsNothing'
    BY DEF GroupInv, StoppedHoldsNothing, GroupTypeOK
<1>6. BusyHoldsMessage'
    BY <1>2 DEF GroupInv, BusyHoldsMessage
<1>7. OwnerAtCommitted'
    BY <1>3 DEF GroupInv, OwnerAtCommitted
<1> QED
    BY <1>1, <1>4, <1>5, <1>6, <1>7 DEF GroupInv

\* Appending a record leaves every offset inside the log.
LEMMA ProduceKeeps ==
    ASSUME GroupTypeOK, GroupInv, NEW v \in Values, Produce(v)
    PROVE  GroupInv'
<1> USE DEF Produce, memberVars
<1>1. PartitionOf[v] \in Partitions
    BY GroupAssumption
<1>2. \A p \in Partitions : Len(log[p]) <= Len(log'[p])
  <2> SUFFICES ASSUME NEW p \in Partitions PROVE Len(log[p]) <= Len(log'[p])
    OBVIOUS
  <2>1. log[p] \in Seq(Values)
    BY DEF GroupTypeOK
  <2>2. log'[p] = log[p] \/ log'[p] = Append(log[p], v)
    BY <1>1 DEF GroupTypeOK
  <2> QED
    BY <2>1, <2>2
<1>3. \A p \in Partitions : Len(log[p]) \in Nat /\ Len(log'[p]) \in Nat
    BY GroupStepType DEF GroupTypeOK, GroupStep, MemberStep
<1>4. CommittedInLog'
    BY <1>2, <1>3 DEF GroupInv, CommittedInLog, GroupTypeOK
<1>5. PositionInLog'
    BY <1>2, <1>3 DEF GroupInv, PositionInLog, GroupTypeOK
<1>6. StoppedHoldsNothing' /\ BusyHoldsMessage' /\ OwnerAtCommitted'
    BY DEF GroupInv, StoppedHoldsNothing, BusyHoldsMessage, OwnerAtCommitted,
       Busy, Frontier
<1> QED
    BY <1>4, <1>5, <1>6 DEF GroupInv

\* A worker that gets a partition starts at its committed offset.
LEMMA AssignKeeps ==
    ASSUME GroupTypeOK, GroupInv, NEW w \in Workers, NEW p \in Partitions,
           Assign(p, w)
    PROVE  GroupInv'
<1> USE DEF Assign, brokerVars, GroupTypeOK
<1>1. CommittedInLog' /\ StoppedHoldsNothing'
    BY DEF GroupInv, CommittedInLog, StoppedHoldsNothing
<1>2. BusyHoldsMessage'
    BY DEF GroupInv, BusyHoldsMessage, Busy
<1>3. PositionInLog'
    BY DEF GroupInv, PositionInLog, CommittedInLog
<1>4. OwnerAtCommitted'
    BY DEF GroupInv, OwnerAtCommitted, Frontier, Busy
<1> QED
    BY <1>1, <1>2, <1>3, <1>4 DEF GroupInv

\* Revoking a partition from a worker inside poll interrupts no message.
LEMMA RevokeKeeps ==
    ASSUME GroupTypeOK, GroupInv, NEW w \in Workers, NEW p \in Partitions,
           Revoke(p, w)
    PROVE  GroupInv'
<1> USE GroupAssumption DEF Revoke, Disrupt, brokerVars, GroupTypeOK
<1>1. CommittedInLog' /\ StoppedHoldsNothing'
    BY DEF GroupInv, CommittedInLog, StoppedHoldsNothing
<1>2. BusyHoldsMessage'
    BY DEF GroupInv, BusyHoldsMessage, Busy
<1>3. PositionInLog'
    BY DEF GroupInv, PositionInLog
<1>4. OwnerAtCommitted'
    BY DEF GroupInv, OwnerAtCommitted, Frontier, Busy
<1> QED
    BY <1>1, <1>2, <1>3, <1>4 DEF GroupInv

\* Expelling a worker and its return to the group leave no owner behind whose
\* position is not the committed offset.
LEMMA LeaveKeeps ==
    ASSUME GroupTypeOK, GroupInv, NEW w \in Workers, Fence(w) \/ Rejoin(w)
    PROVE  GroupInv'
<1> USE GroupAssumption DEF Release, Disrupt, brokerVars, GroupTypeOK
<1>1. CASE Fence(w)
  <2> USE <1>1 DEF Fence
  <2>1. CommittedInLog' /\ StoppedHoldsNothing' /\ PositionInLog'
    BY DEF GroupInv, CommittedInLog, StoppedHoldsNothing, PositionInLog
  <2>2. BusyHoldsMessage'
    BY DEF GroupInv, BusyHoldsMessage, Busy
  <2>3. OwnerAtCommitted'
    BY DEF GroupInv, OwnerAtCommitted, Frontier, Busy
  <2> QED
    BY <2>1, <2>2, <2>3 DEF GroupInv
<1>2. CASE Rejoin(w)
  <2> USE <1>2 DEF Rejoin
  <2>1. CommittedInLog' /\ StoppedHoldsNothing' /\ PositionInLog'
    BY DEF GroupInv, CommittedInLog, StoppedHoldsNothing, PositionInLog
  <2>2. BusyHoldsMessage'
    BY DEF GroupInv, BusyHoldsMessage, Busy
  <2>3. OwnerAtCommitted'
    BY DEF GroupInv, OwnerAtCommitted, Frontier, Busy
  <2> QED
    BY <2>1, <2>2, <2>3 DEF GroupInv
<1> QED
    BY <1>1, <1>2

\* Starting a worker gives it nothing yet.
LEMMA StartKeeps ==
    ASSUME GroupTypeOK, GroupInv, NEW w \in Workers, Start(w)
    PROVE  GroupInv'
<1> USE DEF Start, brokerVars, memberVars, GroupTypeOK
<1>1. CommittedInLog' /\ StoppedHoldsNothing' /\ PositionInLog'
    BY DEF GroupInv, CommittedInLog, StoppedHoldsNothing, PositionInLog
<1>2. BusyHoldsMessage' /\ OwnerAtCommitted'
    BY DEF GroupInv, BusyHoldsMessage, OwnerAtCommitted, Frontier, Busy
<1> QED
    BY <1>1, <1>2 DEF GroupInv

\* Polling moves the position past the message in hand, not the frontier.
LEMMA PollKeeps ==
    ASSUME GroupTypeOK, GroupInv, NEW w \in Workers, NEW p \in Partitions,
           Poll(w, p)
    PROVE  GroupInv'
<1> USE DEF Poll, brokerVars
<1>1. /\ position[w][p] \in Nat
      /\ cur'[w] = [partition |-> p, offset |-> position[w][p]]
      /\ position'[w][p] = position[w][p] + 1
      /\ \A q \in Partitions \ {p} : position'[w][q] = position[w][q]
      /\ Busy(w)' /\ ~ Busy(w)
    BY DEF GroupTypeOK, Busy
<1>2. \A u \in Workers \ {w} : /\ position'[u] = position[u]
                              /\ cur'[u] = cur[u]
                              /\ pc'[u] = pc[u]
                              /\ Busy(u)' <=> Busy(u)
    BY DEF GroupTypeOK, Busy
<1>3. cur'[w] \in Lineage /\ cur'[w].partition = p
      /\ cur'[w].offset = position[w][p]
    BY <1>1 DEF Lineage
<1>4. CommittedInLog' /\ StoppedHoldsNothing'
    BY DEF GroupInv, CommittedInLog, StoppedHoldsNothing, GroupTypeOK
<1>5. BusyHoldsMessage'
    BY <1>1, <1>2, <1>3 DEF GroupInv, BusyHoldsMessage
<1>6. PositionInLog'
  <2>1. Len(log[p]) \in Nat
    BY DEF GroupTypeOK
  <2> QED
    BY <1>1, <1>2, <2>1 DEF GroupInv, PositionInLog, GroupTypeOK
<1>7. \A u \in Workers, q \in Partitions : Frontier(u, q)' = Frontier(u, q)
    BY <1>1, <1>2, <1>3 DEF Frontier
<1>8. OwnerAtCommitted'
    BY <1>7 DEF GroupInv, OwnerAtCommitted
<1> QED
    BY <1>4, <1>5, <1>6, <1>8 DEF GroupInv

\* A commit the coordinator accepts brings the offset up to the position.
LEMMA CommitKeeps ==
    ASSUME GroupTypeOK, GroupInv, NEW w \in Workers, CommitOffset(w)
    PROVE  GroupInv'
<1> DEFINE q == cur[w].partition
           n == cur[w].offset + 1
<1> USE DEF CommitOffset, memberVars
<1>1. Busy(w) /\ ~ Busy(w)'
    BY DEF Busy, GroupTypeOK
<1>2. q \in Partitions /\ n \in Nat /\ q \in assigned[w]
      /\ position[w][q] = n /\ n <= Len(log[q])
  <2>1. Len(log[q]) \in Nat
    BY <1>1, BusyHolds DEF GroupTypeOK
  <2> QED
    BY <1>1, <2>1, BusyHolds
<1>3. committed'[q] = n /\ \A p \in Partitions \ {q} : committed'[p] = committed[p]
    BY <1>2 DEF AdvanceOffset, GroupTypeOK
<1>4. \A u \in Workers \ {w} : /\ cur'[u] = cur[u]
                              /\ pc'[u] = pc[u]
                              /\ Busy(u)' <=> Busy(u)
    BY DEF GroupTypeOK, Busy
<1>5. CommittedInLog'
    BY <1>2, <1>3 DEF GroupInv, CommittedInLog
<1>6. StoppedHoldsNothing' /\ PositionInLog'
    BY <1>4 DEF GroupInv, StoppedHoldsNothing, PositionInLog, GroupTypeOK
<1>7. BusyHoldsMessage'
    BY <1>1, <1>4 DEF GroupInv, BusyHoldsMessage
<1>8. OwnerAtCommitted'
    BY <1>1, <1>2, <1>3, <1>4 DEF GroupInv, OwnerAtCommitted, Frontier
<1> QED
    BY <1>5, <1>6, <1>7, <1>8 DEF GroupInv

-----------------------------------------------------------------------------

\* Every step of the group keeps types and invariant.
LEMMA GroupStepKeeps ==
    GroupTypeOK /\ GroupInv /\ GroupStep => GroupTypeOK' /\ GroupInv'
<1> SUFFICES ASSUME GroupTypeOK, GroupInv, GroupStep PROVE GroupInv'
    BY GroupStepType
<1>1. ASSUME NEW w \in Workers, Crash(w) PROVE GroupInv'
    BY <1>1, GroupAssumption, StopKeeps DEF Crash, Disrupt, brokerVars, GroupTypeOK
<1>2. ASSUME NEW w \in Workers, CommitRejected(w) PROVE GroupInv'
    BY <1>2, GroupAssumption, StopKeeps DEF CommitRejected, brokerVars, GroupTypeOK
<1>3. ASSUME NEW w \in Workers, CommitFails(w) PROVE GroupInv'
    BY <1>3, GroupAssumption, StopKeeps DEF CommitFails, Disrupt, Busy, GroupTypeOK
<1> QED
    BY <1>1, <1>2, <1>3, ProduceKeeps, AssignKeeps, RevokeKeeps, LeaveKeeps,
       StartKeeps, PollKeeps, CommitKeeps
    DEF GroupStep, MemberStep

\* No step of the group moves a committed offset back.
LEMMA CommittedGrows ==
    GroupTypeOK /\ GroupInv /\ GroupStep =>
        \A p \in Partitions : committed'[p] >= committed[p]
<1> SUFFICES ASSUME GroupTypeOK, GroupInv, GroupStep, NEW p \in Partitions
             PROVE  committed'[p] >= committed[p]
    OBVIOUS
<1>1. ASSUME NEW w \in Workers, Busy(w), owner[cur[w].partition] = w,
             AdvanceOffset(w)
      PROVE  committed'[p] >= committed[p]
  <2>1. cur[w].partition \in Partitions /\ cur[w].offset \in Nat
    BY <1>1, BusyHolds
  <2>2. committed[cur[w].partition] = cur[w].offset
    BY <1>1, <2>1 DEF GroupInv, OwnerAtCommitted, Frontier
  <2> QED
    BY <1>1, <2>1, <2>2 DEF AdvanceOffset, GroupTypeOK
<1>2. CASE committed' = committed
    BY <1>2 DEF GroupTypeOK
<1> QED
    BY <1>1, <1>2 DEF GroupStep, MemberStep, Produce, Assign, Revoke, Poll, Fence, Rejoin,
       Start, Crash, CommitOffset, CommitRejected, CommitFails, brokerVars, Busy

\* A frontier moves in an assignment, to the committed offset, or in a commit,
\* over the worker's own message; a worker is about to commit only after its
\* own effect.
LEMMA FrontierStep ==
    ASSUME GroupTypeOK, GroupTypeOK', GroupInv, NEW w \in Workers,
           NEW p \in assigned'[w],
           \/ GroupStep
           \/ \E u \in Workers : Stop(u)
           \/ \E u \in Workers : pc[u] = "process" /\ EffectDone(u)
           \/ UNCHANGED groupVars
    PROVE  \/ p \in assigned[w] /\ Frontier(w, p)' = Frontier(w, p)
           \/ Frontier(w, p)' = committed[p] /\ log' = log
           \/ /\ pc[w] = "commit" /\ cur[w].partition = p
              /\ p \in assigned[w] /\ Frontier(w, p)' = cur[w].offset + 1
<1> USE DEF GroupTypeOK
<1>1. p \in Partitions
    OBVIOUS
<1>2. ASSUME NEW u \in Workers, Stop(u)
      PROVE  p \in assigned[w] /\ Frontier(w, p)' = Frontier(w, p)
    BY <1>2 DEF Stop, Frontier, Busy
<1>3. ASSUME NEW u \in Workers, EffectDone(u), pc[u] = "process"
      PROVE  p \in assigned[w] /\ Frontier(w, p)' = Frontier(w, p)
    BY <1>3 DEF EffectDone, memberVars, Frontier, Busy
<1>4. ASSUME NEW u \in Workers, NEW q \in Partitions, Assign(q, u)
      PROVE  \/ p \in assigned[w] /\ Frontier(w, p)' = Frontier(w, p)
             \/ Frontier(w, p)' = committed[p] /\ log' = log
  <2>1. CASE u = w /\ q = p
    BY <1>1, <1>4, <2>1 DEF Assign, Frontier, Busy, brokerVars
  <2>2. CASE ~ (u = w /\ q = p)
    <3>1. p \in assigned[w] /\ position'[w][p] = position[w][p]
      BY <1>1, <1>4, <2>2 DEF Assign
    <3> QED
      BY <1>4, <3>1 DEF Assign, Frontier, Busy
  <2> QED
    BY <2>1, <2>2
<1>5. ASSUME NEW u \in Workers, NEW q \in Partitions, Revoke(q, u)
      PROVE  p \in assigned[w] /\ Frontier(w, p)' = Frontier(w, p)
  <2>1. p \in assigned[w] /\ position'[w][p] = position[w][p]
    BY <1>1, <1>5 DEF Revoke
  <2> QED
    BY <1>5, <2>1 DEF Revoke, Frontier, Busy
<1>6. ASSUME NEW u \in Workers, Rejoin(u)
      PROVE  p \in assigned[w] /\ Frontier(w, p)' = Frontier(w, p)
    BY <1>6 DEF Rejoin, Frontier, Busy
<1>7. ASSUME NEW u \in Workers, NEW q \in Partitions, Poll(u, q)
      PROVE  p \in assigned[w] /\ Frontier(w, p)' = Frontier(w, p)
  <2>1. CASE u = w
    <3>1. cur'[w].partition = q /\ cur'[w].offset = position[w][q]
      BY <1>7, <2>1 DEF Poll
    <3>2. q # p => position'[w][p] = position[w][p]
      BY <1>1, <1>7, <2>1 DEF Poll
    <3> QED
      BY <1>7, <2>1, <3>1, <3>2 DEF Poll, Frontier, Busy
  <2>2. CASE u # w
    BY <1>7, <2>2 DEF Poll, Frontier, Busy
  <2> QED
    BY <2>1, <2>2
<1>8. ASSUME NEW u \in Workers, CommitOffset(u)
      PROVE  \/ p \in assigned[w] /\ Frontier(w, p)' = Frontier(w, p)
             \/ /\ pc[w] = "commit" /\ cur[w].partition = p
                /\ p \in assigned[w] /\ Frontier(w, p)' = cur[w].offset + 1
  <2>1. CASE u = w /\ cur[w].partition = p
    BY <1>8, <2>1, BusyHolds DEF CommitOffset, memberVars, Frontier, Busy
  <2>2. CASE ~ (u = w /\ cur[w].partition = p)
    BY <1>8, <2>2 DEF CommitOffset, memberVars, Frontier, Busy
  <2> QED
    BY <2>1, <2>2
<1>9. CASE UNCHANGED groupVars
    BY <1>9 DEF groupVars, Frontier, Busy
<1>10. ASSUME NEW u \in Workers, Start(u)
       PROVE  p \in assigned[w] /\ Frontier(w, p)' = Frontier(w, p)
    BY <1>10 DEF Start, memberVars, Frontier, Busy
<1>11. ASSUME NEW u \in Workers, Fence(u)
       PROVE  p \in assigned[w] /\ Frontier(w, p)' = Frontier(w, p)
    BY <1>11 DEF Fence, Frontier, Busy
<1>12. ASSUME NEW v \in Values, Produce(v)
       PROVE  p \in assigned[w] /\ Frontier(w, p)' = Frontier(w, p)
    BY <1>12 DEF Produce, memberVars, Frontier, Busy
<1> QED
    BY <1>2, <1>3, <1>4, <1>5, <1>6, <1>7, <1>8, <1>9, <1>10, <1>11, <1>12
    DEF GroupStep, MemberStep, Crash, CommitRejected, CommitFails

\* Appending leaves every record where it was.
LEMMA RecordsStay ==
    ASSUME GroupTypeOK, NEW v \in Values, Produce(v)
    PROVE  \A p \in Partitions :
              /\ Len(log'[p]) \in Nat /\ Len(log[p]) <= Len(log'[p])
              /\ \A o \in 0 .. Len(log[p]) - 1 : RecordAt(p, o)' = RecordAt(p, o)
              /\ \A o \in 0 .. Len(log'[p]) - 1 :
                    \/ o < Len(log[p])
                    \/ PartitionOf[v] = p /\ RecordAt(p, o)' = v
<1> SUFFICES ASSUME NEW p \in Partitions
    PROVE /\ Len(log'[p]) \in Nat /\ Len(log[p]) <= Len(log'[p])
          /\ \A o \in 0 .. Len(log[p]) - 1 : RecordAt(p, o)' = RecordAt(p, o)
          /\ \A o \in 0 .. Len(log'[p]) - 1 :
                \/ o < Len(log[p])
                \/ PartitionOf[v] = p /\ RecordAt(p, o)' = v
    OBVIOUS
<1>1. PartitionOf[v] \in Partitions
    BY GroupAssumption
<1>2. log[p] \in Seq(Values)
    BY DEF GroupTypeOK
<1>3. CASE PartitionOf[v] = p
  <2>1. log'[p] = Append(log[p], v)
    BY <1>1, <1>3 DEF Produce, GroupTypeOK
  <2> QED
    BY <1>2, <1>3, <2>1 DEF RecordAt
<1>4. CASE PartitionOf[v] # p
  <2>1. log'[p] = log[p]
    BY <1>1, <1>4 DEF Produce, GroupTypeOK
  <2> QED
    BY <1>2, <2>1 DEF RecordAt
<1> QED
    BY <1>3, <1>4

\* A record once in the log is there for good.
LEMMA RecordKept ==
    ASSUME GroupTypeOK, log' = log \/ (\E v \in Values : Produce(v)),
           NEW p \in Partitions, NEW o \in Nat, o < Len(log[p])
    PROVE  RecordAt(p, o)' = RecordAt(p, o)
<1>1. o \in 0 .. Len(log[p]) - 1
    BY DEF GroupTypeOK
<1> QED
    BY <1>1, RecordsStay DEF RecordAt

\* A committed offset moves only over the message of the owner that was about
\* to commit it.
LEMMA CommitStep ==
    GroupStep => \/ committed' = committed
                 \/ \E w \in Workers : /\ pc[w] = "commit"
                                       /\ owner[cur[w].partition] = w
                                       /\ AdvanceOffset(w)
                                       /\ log' = log
BY DEF GroupStep, MemberStep, Produce, Assign, Revoke, Poll, Fence, Rejoin, Start, Crash,
   CommitOffset, CommitRejected, CommitFails, brokerVars

\* Expulsion takes all of a worker's partitions, and a worker gets none while
\* it still believes in a lost one.
LEMMA ExpelledStep ==
    ASSUME GroupTypeOK, GroupInv, ExpelledFromAll,
           \/ GroupStep
           \/ \E u \in Workers : Stop(u)
           \/ \E u \in Workers : pc[u] = "process" /\ EffectDone(u)
           \/ UNCHANGED groupVars
    PROVE  ExpelledFromAll'
<1> USE GroupAssumption DEF GroupTypeOK, ExpelledFromAll
<1>1. ASSUME NEW u \in Workers, Release(u),
             \A w \in Workers \ {u} : assigned'[w] = assigned[w],
             assigned'[u] \in {{}, assigned[u]}
      PROVE  ExpelledFromAll'
  <2> SUFFICES ASSUME NEW w \in Workers, NEW p \in assigned'[w], owner'[p] # w,
                      NEW q \in Partitions, owner'[q] = w
               PROVE  FALSE
    OBVIOUS
  <2>1. w # u /\ owner[q] = w
    BY <1>1 DEF Release
  <2>2. p \in assigned[w] /\ p \in Partitions
    BY <1>1, <2>1
  <2>3. owner[p] # w
    BY <1>1, <2>1, <2>2 DEF Release
  <2> QED
    BY <2>1, <2>2, <2>3
<1>2. ASSUME NEW u \in Workers, Stop(u) \/ Fence(u) \/ Rejoin(u)
      PROVE  ExpelledFromAll'
    BY <1>1, <1>2 DEF Stop, Fence, Rejoin
<1>3. ASSUME NEW u \in Workers, NEW p \in Partitions, Assign(p, u)
      PROVE  ExpelledFromAll'
  <2> SUFFICES ASSUME NEW w \in Workers, NEW q \in assigned'[w], owner'[q] # w,
                      NEW r \in Partitions, owner'[r] = w
               PROVE  FALSE
    OBVIOUS
  <2>1. /\ owner' = [owner EXCEPT ![p] = u] /\ owner[p] = Nobody
        /\ assigned' = [assigned EXCEPT ![u] = @ \cup {p}]
        /\ \A x \in assigned[u] : owner[x] = u
    BY <1>3 DEF Assign
  <2>2. q # p \/ w # u
    BY <2>1
  <2>3. q \in assigned[w] /\ q \in Partitions
    BY <2>1, <2>2
  <2>4. owner[q] # w
    BY <2>1, <2>3
  <2> QED
    BY <2>1, <2>3, <2>4
<1>4. ASSUME NEW u \in Workers, NEW p \in Partitions, Revoke(p, u)
      PROVE  ExpelledFromAll'
    BY <1>4 DEF Revoke
<1>5. CASE owner' = owner /\ assigned' = assigned
    BY <1>5
<1> QED
    BY <1>2, <1>3, <1>4, <1>5
    DEF GroupStep, MemberStep, Produce, Poll, Start, Crash, CommitOffset,
        CommitRejected, CommitFails, EffectDone, memberVars, groupVars
=============================================================================
